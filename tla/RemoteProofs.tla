---------------------------- MODULE RemoteProofs ----------------------------
(***************************************************************************)
(* Proofs about Callback, for any calls of run and requests, and about     *)
(* Stream, for any writes, streams and faults: two parts that act on what  *)
(* another party says, when it says it in time.                            *)
(***************************************************************************)
EXTENDS Callback, Stream, TLAPS

-----------------------------------------------------------------------------
(* The callback.  The right to answer an attempt is in one place at a      *)
(* time: it is pending, or a callback has taken it, or its channel has the *)
(* answer, or its run does.                                                *)

Results == [kind : {"none", "expired", "denied", "code"}, from : Browsers \cup {None}]

CallbackTypes ==
    /\ pending \in Runs \cup {None}
    /\ channel \in [Runs -> Results] /\ got \in [Runs -> Results]
    /\ pc \in [Runs -> {"start", "print", "wait", "drain", "ack", "stop", "exchange"} \cup Returned]
    /\ bpc \in [Browsers -> {"new", "check", "late", "send", "answer", "done"}]
    /\ asks \in [Browsers -> Asks] /\ reply \in [Browsers -> {0, 200, 400, 409}]

\* Callback b has taken the attempt of run r, or its sender has been told that it was received.
Taken(b, r) == asks[b].state = r /\ bpc[b] \in {"send", "late"}
Accepted(b) == bpc[b] = "answer" \/ reply[b] = 200

\* A result of run r: the attempt expired, or a callback of its own is answered.
Own(v, r) ==
    \/ v = Empty \/ v = Result("expired", None)
    \/ /\ v.kind \in {"code", "denied"} /\ v.from \in Browsers
       /\ asks[v.from].state = r
       /\ bpc[v.from] = "answer" \/ (bpc[v.from] = "done" /\ reply[v.from] = 200)

\* Where the answer of an attempt is, and where its run can be then.
Attempt(r) ==
    /\ pending = r =>
          /\ pc[r] \in {"print", "wait", "output", "cancelled"}
          /\ channel[r] = Empty /\ got[r] = Empty
    /\ channel[r] # Empty =>
          pc[r] \in {"print", "wait", "drain", "output", "cancelled"} /\ got[r] = Empty
    /\ pc[r] \in {"ack", "stop", "exchange", "enrolling", "denied"} => got[r] # Empty
    /\ pc[r] \in {"start", "busy", "print", "wait", "drain", "output"} => got[r] = Empty
    /\ pc[r] = "expired" => got[r] = Empty \/ got[r].kind = "expired"
    /\ pc[r] \in {"exchange", "enrolling"} => got[r].kind = "code"
    /\ pc[r] \in {"stop", "exchange", "enrolling"} /\ got[r].from # None =>
          bpc[got[r].from] = "done"
    /\ Own(channel[r], r) /\ Own(got[r], r)

\* What a request has done to the attempt that it names.
Request(b) ==
    /\ bpc[b] # "done" => reply[b] = 0
    /\ bpc[b] # "new" /\ asks[b].state # None => pc[asks[b].state] \notin {"start", "busy", "print"}
    /\ \A r \in Runs : Taken(b, r) =>
          /\ pending # r /\ channel[r] = Empty /\ got[r] = Empty
          /\ pc[r] \in {"wait", "drain", "output", "cancelled"}
          /\ \A d \in Browsers : Taken(d, r) => d = b
    /\ bpc[b] \in {"send", "late", "answer"} => asks[b].state \in Runs
    /\ Accepted(b) => \E r \in Runs : asks[b].state = r /\ b \in {channel[r].from, got[r].from}
    /\ reply[b] # 409

CallbackInv ==
    /\ CallbackTypes
    /\ \A r \in Runs : Attempt(r)
    /\ \A b \in Browsers : Request(b)

\* The answer that run r got names the request that sent it, if one did.
LEMMA GotFrom ==
    ASSUME CallbackTypes, NEW r \in Runs
    PROVE  got[r].from # None => got[r].from \in Browsers
<1>1. got[r] \in Results
  BY ZenonT(30) DEF CallbackTypes
<1> QED
  BY <1>1, Zenon DEF Results

\* A run that only goes on: the answer of its attempt stays where it is.
LEMMA GoesOn ==
    ASSUME CallbackInv, NEW r \in Runs, NEW l, Goto(r, l), l \notin {"start", "busy", "print"},
           l \in {"wait", "drain", "ack", "stop", "exchange"} \cup Returned,
           UNCHANGED <<pending, channel, got, bpc, asks, reply>>, Attempt(r)',
           \A b \in Browsers : Taken(b, r) => l \in {"wait", "drain", "output", "cancelled"}
    PROVE  CallbackInv'
<1>1. CallbackTypes'
  BY ZenonT(30) DEF CallbackInv, CallbackTypes, Goto
<1>2. ASSUME NEW q \in Runs PROVE Attempt(q)'
  <2>1. CASE q # r
    BY <2>1 DEF CallbackInv, CallbackTypes, Attempt, Own, Goto
  <2> QED
    BY <2>1, Zenon
<1>3. ASSUME NEW b \in Browsers PROVE Request(b)'
  <2>1. Request(b) /\ (Taken(b, r) => pc'[r] \in {"wait", "drain", "output", "cancelled"})
    BY DEF CallbackInv, CallbackTypes, Goto
  <2>2. \A q \in Runs : pc'[q] = IF q = r THEN l ELSE pc[q]
    BY DEF CallbackInv, CallbackTypes, Goto
  <2>3. asks[b] \in Asks
    BY DEF CallbackInv, CallbackTypes
  <2>4. asks[b].state # None => asks[b].state \in Runs
    BY <2>3, Zenon DEF Asks
  <2> QED
    BY <2>1, <2>2, <2>4 DEF Request, Taken, Accepted
<1> QED
  BY <1>1, <1>2, <1>3, Zenon DEF CallbackInv

\* PrintURL, Timer, Cancelled, Acknowledged, Stop and Exchange.
LEMMA RunGoesOn ==
    ASSUME CallbackInv, NEW r \in Runs,
           PrintURL(r) \/ Timer(r) \/ Cancelled(r) \/ Acknowledged(r) \/ Stop(r) \/ Exchange(r)
    PROVE  CallbackInv'
<1>1. Attempt(r) /\ CallbackTypes /\ \A b \in Browsers : Request(b)
  BY Zenon DEF CallbackInv
<1>2. CASE PrintURL(r)
  <2>1. PICK l \in {"wait", "output"} : Goto(r, l)
    BY <1>2, Zenon DEF PrintURL
  <2>2. Attempt(r)'
    BY <1>1, <1>2, <2>1, ZenonT(30) DEF PrintURL, Goto, Attempt, Own, CallbackTypes
  <2> QED
    BY <1>2, <2>1, <2>2, GoesOn, Zenon DEF PrintURL, Returned
<1>3. CASE Cancelled(r)
  <2>1. Goto(r, "cancelled")
    BY <1>3, Zenon DEF Cancelled
  <2>2. Attempt(r)'
    BY <1>1, <1>3, <2>1 DEF Cancelled, Goto, Attempt, Own, CallbackTypes
  <2> QED
    BY <1>3, <2>1, <2>2, GoesOn, Zenon DEF Cancelled, Returned
<1>4. CASE Acknowledged(r)
  <2>1. Goto(r, "stop") /\ got[r] # Empty
    BY <1>1, <1>4, Zenon DEF Acknowledged, Attempt
  <2>2. Attempt(r)'
    BY <1>1, <1>4, <2>1 DEF Acknowledged, Goto, Attempt, Own, CallbackTypes
  <2>3. \A b \in Browsers : ~Taken(b, r)
    BY <1>1, <2>1, ZenonT(30) DEF Request
  <2> QED
    BY <1>4, <2>1, <2>2, <2>3, GoesOn, Zenon DEF Acknowledged
<1>5. CASE Stop(r)
  <2>1. got[r] # Empty /\ pc[r] = "stop" /\ Own(got[r], r)
    BY <1>1, <1>5, Zenon DEF Stop, Attempt
  <2>2. PICK l \in {"failed", "expired", "denied", "exchange"} :
            /\ Goto(r, l)
            /\ l = "expired" => got[r].kind = "expired"
            /\ l = "exchange" => got[r].kind = "code"
    BY <1>5, <2>1 DEF Stop, Own, Result
  <2>3. Attempt(r)'
    BY <1>1, <1>5, <2>1, <2>2 DEF Stop, Goto, Attempt, Own, CallbackTypes
  <2>4. \A b \in Browsers : ~Taken(b, r)
    BY <1>1, <2>1, ZenonT(30) DEF Request
  <2> QED
    BY <1>5, <2>2, <2>3, <2>4, GoesOn, Zenon DEF Stop, Returned
<1>6. CASE Exchange(r)
  <2>1. PICK l \in {"failed", "enrolling"} : Goto(r, l)
    BY <1>6, Zenon DEF Exchange
  <2>2. Attempt(r)' /\ got[r] # Empty
    BY <1>1, <1>6, <2>1 DEF Exchange, Goto, Attempt, Own, CallbackTypes
  <2>3. \A b \in Browsers : ~Taken(b, r)
    BY <1>1, <2>2 DEF Request
  <2> QED
    BY <1>6, <2>1, <2>2, <2>3, GoesOn, Zenon DEF Exchange, Returned
<1>7. CASE Timer(r) /\ pending # r
  <2>1. Goto(r, "drain") /\ pending' = pending
    BY <1>7, Zenon DEF Timer
  <2>2. Attempt(r)'
    BY <1>1, <1>7, <2>1, ZenonT(30) DEF Timer, Goto, Attempt, Own, CallbackTypes
  <2> QED
    BY <1>7, <2>1, <2>2, GoesOn, Zenon DEF Timer
<1>8. CASE Timer(r) /\ pending = r
  <2>1. pending' = None /\ pc' = [pc EXCEPT ![r] = "expired"] /\ pc[r] = "wait"
        /\ UNCHANGED <<channel, got, bpc, asks, reply>>
    BY <1>8, Zenon DEF Timer, Goto
  <2>2. CallbackTypes'
    BY <1>1, <2>1, Zenon DEF CallbackTypes, Returned
  <2>3. ASSUME NEW q \in Runs PROVE Attempt(q)'
    <3>1. CASE q = r
      BY <1>1, <1>8, <2>1, <3>1, CallbackConstants DEF Attempt, Own, CallbackTypes
    <3>2. CASE q # r
      BY <2>1, <3>2, CallbackConstants DEF CallbackInv, Attempt, Own, CallbackTypes
    <3> QED
      BY <3>1, <3>2, Zenon
  <2>4. ASSUME NEW b \in Browsers PROVE Request(b)'
    <3>1. Request(b) /\ ~Taken(b, r)
      BY <1>1, <1>8 DEF Request
    <3>2. \A q \in Runs : pc'[q] = IF q = r THEN "expired" ELSE pc[q]
      BY <1>1, <2>1 DEF CallbackTypes
    <3>3. asks[b].state # None => asks[b].state \in Runs
      BY <1>1 DEF CallbackTypes, Asks
    <3> QED
      BY <2>1, <3>1, <3>2, <3>3, CallbackConstants DEF Request, Taken, Accepted
  <2> QED
    BY <2>2, <2>3, <2>4, Zenon DEF CallbackInv
<1> QED
  BY <1>2, <1>3, <1>4, <1>5, <1>6, <1>7, <1>8, Zenon

\* beginAuthorization answers the attempt that is over, and opens its own.
LEMMA BeginStep ==
    ASSUME CallbackInv, NEW r \in Runs, Begin(r)
    PROVE  CallbackInv'
<1>1. /\ CallbackTypes /\ pc[r] = "start"
      /\ UNCHANGED <<got, bpc, asks, reply>>
  BY Zenon DEF CallbackInv, Begin
<1>2. Attempt(r) /\ \A b \in Browsers : Request(b)
  BY Zenon DEF CallbackInv
<1>3. PICK l \in {"busy", "failed", "print"} : Goto(r, l)
  BY Zenon DEF Begin
<1>4. /\ pc' = [pc EXCEPT ![r] = l] /\ l \notin {"ack", "stop", "exchange", "enrolling", "denied", "expired"}
      /\ \A q \in Runs : pc'[q] = IF q = r THEN l ELSE pc[q]
  BY <1>1, <1>3 DEF Goto, CallbackTypes
<1>5. pending # r /\ channel[r] = Empty /\ got[r] = Empty
  BY <1>1, <1>2, Zenon DEF Attempt
<1>6. ASSUME NEW b \in Browsers PROVE ~Taken(b, r) /\ (asks[b].state = r => bpc[b] = "new")
  BY <1>1, <1>2, CallbackConstants DEF Request
<1>7. \/ pending' = pending /\ channel' = channel /\ l = "busy"
      \/ /\ channel' = IF pending # None /\ channel[pending] = Empty
                       THEN [channel EXCEPT ![pending] = Result("expired", None)] ELSE channel
         /\ \/ pending' = None /\ l = "failed"
            \/ pending' = r /\ l = "print"
  BY <1>1, <1>4 DEF Begin, Goto, CallbackTypes
<1>8. Result("expired", None) \in Results /\ Result("expired", None) # Empty
  BY Zenon DEF Result, Results, Empty
<1>9. \A q \in Runs : \/ channel'[q] = channel[q] /\ (pending = q => pending' = pending)
                      \/ /\ pending = q /\ channel[q] = Empty
                         /\ channel'[q] = Result("expired", None)
  <2> TAKE q \in Runs
  <2>1. CASE pending = q
    <3>1. channel[q] = Empty /\ q # None /\ channel \in [Runs -> Results]
      BY <1>1, <2>1, CallbackConstants DEF CallbackTypes, CallbackInv, Attempt
    <3> QED
      BY <1>7, <2>1, <3>1, Zenon
  <2>2. CASE pending # q
    BY <1>1, <1>7, <2>2 DEF CallbackTypes
  <2> QED
    BY <2>1, <2>2, Zenon
<1>10. CallbackTypes'
  <2>1. channel' \in [Runs -> Results] /\ pending' \in Runs \cup {None}
    BY <1>1, <1>7, <1>8 DEF CallbackTypes
  <2>2. l \in {"start", "print", "wait", "drain", "ack", "stop", "exchange"} \cup Returned
    BY Zenon DEF Returned
  <2> QED
    BY <1>1, <1>4, <2>1, <2>2, Zenon DEF CallbackTypes
<1>11. channel'[r] = Empty
  BY <1>5, <1>9, Zenon
<1>12. ASSUME NEW q \in Runs PROVE Attempt(q)'
  <2>1. CASE q = r
    BY <1>1, <1>2, <1>4, <1>5, <1>7, <1>11, <2>1, CallbackConstants, Zenon DEF Attempt, Own
  <2>2. CASE q # r
    <3>1. Attempt(q) /\ pc'[q] = pc[q] /\ got'[q] = got[q] /\ (pending' = q => pending = q)
      BY <1>1, <1>4, <1>7, <2>2, CallbackConstants, Zenon DEF CallbackInv
    <3>2. CASE channel'[q] = channel[q]
      BY <1>1, <3>1, <3>2 DEF Attempt, Own
    <3>3. CASE pending = q /\ channel[q] = Empty /\ channel'[q] = Result("expired", None)
      <4>1. pending' # q
        BY <1>7, <1>8, <2>2, <3>3, CallbackConstants, Zenon
      <4> QED
        BY <1>1, <3>1, <3>3, <4>1, Zenon DEF Attempt, Own
    <3> QED
      BY <1>9, <3>2, <3>3, Zenon
  <2> QED
    BY <2>1, <2>2, Zenon
<1>13. ASSUME NEW b \in Browsers PROVE Request(b)'
  <2>1. Request(b)
    BY <1>2, Zenon
  <2>2. asks[b].state # None => asks[b].state \in Runs
    BY <1>1, ZenonT(30) DEF CallbackTypes, Asks
  <2>3. ASSUME NEW q \in Runs, Taken(b, q)
        PROVE  /\ q # r /\ pending # q /\ channel'[q] = Empty /\ pending' # q
    <3>1. q # r /\ pending # q /\ channel[q] = Empty
      BY <1>6, <2>1, <2>3 DEF Request
    <3> QED
      BY <1>7, <1>9, <3>1, CallbackConstants
  <2>4. ASSUME Accepted(b)
        PROVE  \E q \in Runs : asks[b].state = q /\ b \in {channel'[q].from, got[q].from}
    <3>1. PICK q \in Runs : asks[b].state = q /\ b \in {channel[q].from, got[q].from}
      BY <2>1, <2>4, Zenon DEF Request
    <3>2. channel[q] # Empty \/ got[q] # Empty
      BY <3>1, CallbackConstants DEF Empty
    <3>3. channel'[q] = channel[q]
      BY <1>9, <3>2, Zenon DEF CallbackInv, Attempt
    <3> QED
      BY <3>1, <3>3, Zenon
  <2> QED
    BY <1>1, <1>4, <1>6, <2>1, <2>2, <2>3, <2>4 DEF Request, Taken, Accepted
<1> QED
  BY <1>10, <1>12, <1>13, Zenon DEF CallbackInv

\* run receives the answer of its attempt.
LEMMA ReceiveStep ==
    ASSUME CallbackInv, NEW r \in Runs, Receive(r)
    PROVE  CallbackInv'
<1>1. /\ CallbackTypes /\ channel[r] # Empty /\ Attempt(r)
      /\ got' = [got EXCEPT ![r] = channel[r]] /\ channel' = [channel EXCEPT ![r] = Empty]
      /\ pc' = [pc EXCEPT ![r] = "ack"]
      /\ UNCHANGED <<pending, bpc, asks, reply>>
  BY Zenon DEF CallbackInv, Receive, Goto
<1>2. Empty \in Results
  BY Zenon DEF Empty, Results
<1>3. CallbackTypes'
  BY <1>1, <1>2 DEF CallbackTypes
<1>4. got[r] = Empty /\ pending # r
  BY <1>1, Zenon DEF Attempt
<1>5. ASSUME NEW q \in Runs PROVE Attempt(q)'
  <2>1. CASE q = r
    BY <1>1, <1>4, <2>1 DEF Attempt, Own, CallbackTypes
  <2>2. CASE q # r
    BY <1>1, <2>2 DEF CallbackInv, Attempt, Own, CallbackTypes
  <2> QED
    BY <2>1, <2>2, Zenon
<1>6. ASSUME NEW b \in Browsers PROVE Request(b)'
  <2>1. Request(b) /\ ~Taken(b, r)
    BY <1>1 DEF CallbackInv, Request
  <2>2. \A q \in Runs : /\ pc'[q] = IF q = r THEN "ack" ELSE pc[q]
                        /\ q # r => channel'[q] = channel[q] /\ got'[q] = got[q]
    BY <1>1 DEF CallbackTypes
  <2>3. got'[r] = channel[r] /\ got[r].from = None
    BY <1>1, <1>4 DEF CallbackTypes, Empty
  <2>4. ASSUME Accepted(b)
        PROVE  \E q \in Runs : asks[b].state = q /\ b \in {channel'[q].from, got'[q].from}
    BY <2>1, <2>2, <2>3, <2>4, CallbackConstants DEF Request
  <2>5. asks[b].state # None => asks[b].state \in Runs
    BY <1>1 DEF CallbackTypes, Asks
  <2> QED
    BY <1>1, <2>1, <2>2, <2>4, <2>5 DEF Request, Taken, Accepted
<1> QED
  BY <1>3, <1>5, <1>6, Zenon DEF CallbackInv

\* A request arrives with a state that somebody could know.
LEMMA ArriveStep ==
    ASSUME CallbackInv, NEW b \in Browsers, Arrive(b)
    PROVE  CallbackInv'
<1>1. PICK q \in Asks : /\ q.state # None => pc[q.state] \notin {"start", "busy", "print"}
                        /\ asks' = [asks EXCEPT ![b] = q]
  BY Zenon DEF Arrive
<1>2. /\ CallbackTypes /\ bpc[b] = "new" /\ bpc' = [bpc EXCEPT ![b] = "check"]
      /\ UNCHANGED <<pending, channel, pc, got, reply>>
  BY Zenon DEF CallbackInv, Arrive
<1>3. CallbackTypes'
  BY <1>1, <1>2, Zenon DEF CallbackTypes
<1>4. \A d \in Browsers : d # b => bpc'[d] = bpc[d] /\ asks'[d] = asks[d]
  BY <1>1, <1>2 DEF CallbackTypes
<1>5. asks'[b] = q /\ bpc'[b] = "check"
  BY <1>1, <1>2 DEF CallbackTypes
<1>6. ASSUME NEW r \in Runs, NEW v, Own(v, r) PROVE Own(v, r)'
  <2>1. CASE v = Empty \/ v = Result("expired", None)
    BY <2>1, Zenon DEF Own
  <2>2. CASE v.from \in Browsers /\ v.from # b
    BY <1>2, <1>4, <1>6, <2>2, ZenonT(30) DEF Own
  <2> QED
    BY <1>2, <1>6, <2>1, <2>2, Zenon DEF Own
<1>7. ASSUME NEW r \in Runs PROVE Attempt(r)'
  <2>1. Attempt(r) /\ Own(channel[r], r)' /\ Own(got[r], r)'
    <3>1. Attempt(r) /\ Own(channel[r], r) /\ Own(got[r], r)
      BY Zenon DEF CallbackInv, Attempt
    <3>2. PICK v, u : v = channel[r] /\ u = got[r]
      OBVIOUS
    <3>3. Own(v, r)' /\ Own(u, r)'
      BY <1>6, <3>1, <3>2, Zenon
    <3> QED
      BY <1>2, <3>1, <3>2, <3>3, Zenon
  <2>2. got[r].from # None => got[r].from \in Browsers
    BY <1>2 DEF CallbackTypes, Results
  <2>3. bpc[got[r].from] = "done" => got[r].from # b
    BY <1>2, Zenon
  <2> QED
    BY <1>2, <1>4, <2>1, <2>2, <2>3, Zenon DEF Attempt
<1>8. ASSUME NEW d \in Browsers PROVE Request(d)'
  <2>1. Request(d) /\ (\A e \in Browsers, r \in Runs : Taken(e, r)' => Taken(e, r))
    BY <1>4, <1>5, Zenon DEF CallbackInv, Taken
  <2>2. CASE d = b
    BY <1>1, <1>2, <1>5, <2>1, <2>2 DEF Request, Accepted
  <2>3. CASE d # b
    BY <1>2, <1>4, <2>1, <2>3 DEF Request, Accepted
  <2> QED
    BY <2>2, <2>3, Zenon
<1> QED
  BY <1>3, <1>7, <1>8, Zenon DEF CallbackInv

\* What was the answer of an attempt still is.
OwnKept == \A r \in Runs : \A v : Own(v, r) => Own(v, r)'

\* A request that is answered, or goes on to x, takes no answer back.
LEMMA Handled ==
    ASSUME CallbackTypes, NEW b \in Browsers, bpc[b] # "done",
           NEW x \in {"late", "send", "answer", "done"}, bpc' = [bpc EXCEPT ![b] = x], asks' = asks,
           \A d \in Browsers : d # b => reply'[d] = reply[d],
           bpc[b] = "answer" => x = "done" /\ reply'[b] = 200
    PROVE  OwnKept
<1> SUFFICES ASSUME NEW r \in Runs, NEW v, Own(v, r) PROVE Own(v, r)'
  BY Zenon DEF OwnKept
<1>1. CASE v = Empty \/ v = Result("expired", None)
  BY <1>1, Zenon DEF Own
<1>2. CASE v.from \in Browsers /\ v.from # b
  BY <1>2 DEF Own, CallbackTypes
<1>3. CASE v.from = b
  BY <1>3, ZenonT(30) DEF Own, CallbackTypes
<1> QED
  BY <1>1, <1>2, <1>3, Zenon DEF Own

\* The state is compared and the attempt taken.
LEMMA CheckStep ==
    ASSUME CallbackInv, NEW b \in Browsers, Check(b)
    PROVE  CallbackInv'
<1>1. /\ CallbackTypes /\ bpc[b] = "check"
      /\ UNCHANGED <<channel, pc, got, asks>>
  BY Zenon DEF CallbackInv, Check
<1>2. PICK x \in {"late", "send", "done"} :
          /\ bpc' = [bpc EXCEPT ![b] = x]
          /\ x = "done" => pending' = pending /\ reply' = [reply EXCEPT ![b] = 400]
          /\ x # "done" => /\ reply' = reply /\ pending' = None
                           /\ pending # None /\ asks[b].state = pending
  BY <1>1, ZenonT(30) DEF Check, Refuse
<1>3. CallbackTypes'
  BY <1>1, <1>2 DEF CallbackTypes
<1>4. /\ \A d \in Browsers : d # b => bpc'[d] = bpc[d] /\ reply'[d] = reply[d]
      /\ bpc'[b] = x /\ (reply'[b] = IF x = "done" THEN 400 ELSE reply[b])
  BY <1>1, <1>2 DEF CallbackTypes
<1>5. ASSUME NEW r \in Runs PROVE Attempt(r)'
  <2>1. Attempt(r) /\ Own(channel[r], r) /\ Own(got[r], r)
    BY Zenon DEF CallbackInv, Attempt
  <2>2. Own(channel[r], r)' /\ Own(got[r], r)'
    <3>1. OwnKept
      <4>1. /\ x \in {"late", "send", "answer", "done"} /\ bpc[b] # "done" /\ asks' = asks
            /\ bpc[b] = "answer" => x = "done" /\ reply'[b] = 200
            /\ \A d \in Browsers : d # b => reply'[d] = reply[d]
        BY <1>1, <1>4, Zenon
      <4> QED
        BY <1>1, <1>2, <4>1, Handled, Zenon
    <3>2. PICK v, u : v = channel[r] /\ u = got[r]
      OBVIOUS
    <3>3. Own(v, r)' /\ Own(u, r)'
      BY <2>1, <3>1, <3>2, Zenon DEF OwnKept
    <3> QED
      BY <1>1, <3>2, <3>3, Zenon
  <2>3. got[r].from # None => got[r].from \in Browsers
    BY <1>1, GotFrom, Zenon
  <2>4. bpc[got[r].from] = "done" => got[r].from # b
    BY <1>1, Zenon
  <2>5. pending' = r => pending = r
    BY <1>2, CallbackConstants, Zenon
  <2> QED
    BY <1>1, <1>4, <2>1, <2>2, <2>3, <2>4, <2>5, Zenon DEF Attempt
<1>6. ASSUME NEW d \in Browsers PROVE Request(d)'
  <2>1. Request(d) /\ Request(b)
    BY ZenonT(30) DEF CallbackInv
  <2>2. CASE x = "done"
    <3>1. \A e \in Browsers, r \in Runs : Taken(e, r)' => Taken(e, r)
      BY <1>1, <1>4, <2>2, Zenon DEF Taken
    <3> QED
      BY <1>1, <1>2, <1>4, <2>1, <2>2, <3>1 DEF Request, Accepted
  <2>3. CASE x # "done"
    <3>1. PICK r \in Runs : r = pending /\ asks[b].state = r
      BY <1>1, <1>2, <2>3, Zenon DEF CallbackTypes
    <3>2. /\ Attempt(r) /\ channel[r] = Empty /\ got[r] = Empty
          /\ pc[r] \in {"wait", "output", "cancelled"}
      <4>1. Attempt(r) /\ r # None
        BY CallbackConstants, Zenon DEF CallbackInv
      <4>2. pc[r] # "print"
        BY <1>1, <2>1, <3>1, <4>1, Zenon DEF Request
      <4> QED
        BY <3>1, <4>1, <4>2, Zenon DEF Attempt
    <3>3. \A e \in Browsers : ~Taken(e, r)
      BY <3>1 DEF CallbackInv, Request
    <3>4. \A e \in Browsers, q \in Runs : Taken(e, q)' <=> Taken(e, q) \/ (e = b /\ q = r)
      BY <1>1, <1>4, <2>3, <3>1, Zenon DEF Taken
    <3>5. pending' \notin Runs
      BY <1>2, <2>3, CallbackConstants, Zenon
    <3>6. CASE d = b
      <4>1. /\ bpc'[b] \in {"late", "send"} /\ reply'[b] = 0 /\ asks'[b].state = r
            /\ pc'[r] \in {"wait", "output", "cancelled"}
            /\ channel'[r] = Empty /\ got'[r] = Empty /\ pending' # r
        BY <1>1, <1>4, <2>1, <2>3, <3>1, <3>2, <3>5, ZenonT(30) DEF Request
      <4>2. \A q \in Runs : Taken(b, q)' => q = r
        BY <4>1, Zenon DEF Taken
      <4>3. \A e \in Browsers : Taken(e, r)' => e = b
        BY <3>3, <3>4, Zenon
      <4> QED
        BY <3>1, <3>6, <4>1, <4>2, <4>3 DEF Request, Accepted
    <3>7. CASE d # b
      BY <1>1, <1>4, <2>1, <3>3, <3>4, <3>5, <3>7 DEF Request, Accepted
    <3> QED
      BY <3>6, <3>7, Zenon
  <2> QED
    BY <2>2, <2>3, Zenon
<1> QED
  BY <1>3, <1>5, <1>6, Zenon DEF CallbackInv

\* A callback that has taken the attempt sends the answer: the channel has room for it.
LEMMA SendStep ==
    ASSUME CallbackInv, NEW b \in Browsers, SendLate(b) \/ Send(b)
    PROVE  CallbackInv'
<1>0. PICK r : r = asks[b].state
  OBVIOUS
<1>1. /\ CallbackTypes /\ Request(b) /\ bpc[b] \in {"late", "send"} /\ r \in Runs /\ Taken(b, r)
      /\ UNCHANGED <<pending, pc, got, asks>>
  BY <1>0 DEF CallbackInv, Request, Taken, SendLate, Send
<1>2. /\ pending # r /\ channel[r] = Empty /\ got[r] = Empty
      /\ pc[r] \in {"wait", "drain", "output", "cancelled"}
      /\ \A d \in Browsers : Taken(d, r) => d = b
  BY <1>1, ZenonT(30) DEF Request
<1>3. PICK v \in Results, x \in {"answer", "done"} :
          /\ channel' = [channel EXCEPT ![r] = v] /\ bpc' = [bpc EXCEPT ![b] = x]
          /\ x = "answer" => /\ v.kind \in {"code", "denied"} /\ v.from = b /\ reply' = reply
          /\ x = "done" => v = Result("expired", None) /\ reply' = [reply EXCEPT ![b] = 400]
  <2>1. CASE SendLate(b)
    <3>1. Result("expired", None) \in Results
      BY Zenon DEF Result, Results
    <3> QED
      BY <1>0, <2>1, <3>1, Zenon DEF SendLate, Refuse
  <2>2. CASE Send(b)
    <3>1. \A k \in {"code", "denied"} : Result(k, b) \in Results /\ Result(k, b).kind = k
                                         /\ Result(k, b).from = b
      BY Zenon DEF Result, Results
    <3> QED
      BY <1>0, <1>2, <2>2, <3>1, ZenonT(30) DEF Send
  <2> QED
    BY <2>1, <2>2, Zenon
<1>4. CallbackTypes'
  BY <1>1, <1>3 DEF CallbackTypes
<1>5. /\ \A d \in Browsers : d # b => bpc'[d] = bpc[d] /\ reply'[d] = reply[d]
      /\ bpc'[b] = x /\ reply'[b] = IF x = "done" THEN 400 ELSE reply[b]
      /\ channel'[r] = v /\ \A q \in Runs : q # r => channel'[q] = channel[q]
  BY <1>1, <1>3 DEF CallbackTypes
<1>6. OwnKept
  <2>1. /\ x \in {"late", "send", "answer", "done"} /\ bpc[b] # "done" /\ asks' = asks
        /\ bpc[b] = "answer" => x = "done" /\ reply'[b] = 200
        /\ \A d \in Browsers : d # b => reply'[d] = reply[d]
    BY <1>1, <1>5, Zenon
  <2> QED
    BY <1>1, <1>3, <2>1, Handled, Zenon
<1>7. v # Empty
  BY <1>3 DEF Result, Empty
<1>8. Own(v, r)'
  BY <1>0, <1>1, <1>3, <1>5, Zenon DEF Own
<1>9. ASSUME NEW q \in Runs PROVE Attempt(q)'
  <2>1. Attempt(q) /\ Own(channel[q], q) /\ Own(got[q], q)
    BY Zenon DEF CallbackInv, Attempt
  <2>2. Own(channel[q], q)' /\ Own(got[q], q)'
    <3>1. PICK c, g : c = channel[q] /\ g = got[q]
      OBVIOUS
    <3>2. Own(c, q)' /\ Own(g, q)'
      BY <1>6, <2>1, <3>1, Zenon DEF OwnKept
    <3>3. Own(got[q], q)'
      BY <1>1, <3>1, <3>2, Zenon
    <3>4. CASE q # r
      <4>1. channel'[q] = c
        BY <1>5, <3>1, <3>4, Zenon
      <4>2. Own(channel[q], q)'
        BY <3>2, <4>1, ZenonT(30) DEF Own
      <4> QED
        BY <3>3, <4>2, Zenon
    <3>5. CASE q = r
      BY <1>8, <1>5, <3>3, <3>5, ZenonT(30) DEF Own
    <3> QED
      BY <3>4, <3>5, Zenon
  <2>3. got[q].from # None => got[q].from \in Browsers
    BY <1>1, GotFrom, Zenon
  <2>4. bpc[got[q].from] = "done" => got[q].from # b
    BY <1>1, Zenon
  <2>5. CASE q = r
    BY <1>1, <1>2, <1>5, <2>1, <2>2, <2>3, <2>4, <2>5, Zenon DEF Attempt
  <2>6. CASE q # r
    BY <1>1, <1>5, <2>1, <2>2, <2>3, <2>4, <2>6, Zenon DEF Attempt
  <2> QED
    BY <2>5, <2>6, Zenon
<1>10. ASSUME NEW d \in Browsers PROVE Request(d)'
  <2>1. Request(d) /\ (\A e \in Browsers, q \in Runs : Taken(e, q)' => Taken(e, q) /\ e # b)
    BY <1>1, <1>5, ZenonT(30) DEF CallbackInv, Taken
  <2>2. CASE d = b
    <3>1. /\ bpc'[b] = x /\ asks'[b].state = r /\ pc'[r] \in {"wait", "drain", "output", "cancelled"}
          /\ x = "answer" => reply'[b] = 0 /\ channel'[r].from = b
          /\ x = "done" => reply'[b] = 400
      <4>1. reply[b] = 0
        BY <1>1, Zenon DEF Request
      <4> QED
        BY <1>0, <1>1, <1>2, <1>3, <1>5, <4>1, ZenonT(30)
    <3> QED
      BY <1>1, <1>3, <2>1, <2>2, <3>1 DEF Request, Accepted
  <2>3. CASE d # b
    <3>1. ASSUME NEW q \in Runs, Taken(d, q)' PROVE q # r
      BY <1>2, <2>1, <2>3, <3>1, Zenon
    <3>2. ASSUME Accepted(d)
          PROVE  \E q \in Runs : asks[d].state = q /\ d \in {channel'[q].from, got[q].from}
      <4>1. PICK q \in Runs : asks[d].state = q /\ d \in {channel[q].from, got[q].from}
        BY <2>1, <3>2, Zenon DEF Request
      <4>2. channel[q] # Empty \/ got[q] # Empty
        BY <4>1, CallbackConstants DEF Empty
      <4> QED
        BY <1>2, <1>5, <4>1, <4>2, ZenonT(30)
    <3> QED
      BY <1>1, <1>5, <2>1, <2>3, <3>1, <3>2 DEF Request, Accepted
  <2> QED
    BY <2>2, <2>3, Zenon
<1> QED
  BY <1>4, <1>9, <1>10, Zenon DEF CallbackInv

\* The browser is told that the callback was received.
LEMMA AnswerStep ==
    ASSUME CallbackInv, NEW b \in Browsers, Answer(b)
    PROVE  CallbackInv'
<1>1. /\ CallbackTypes /\ bpc[b] = "answer" /\ bpc' = [bpc EXCEPT ![b] = "done"]
      /\ reply' = [reply EXCEPT ![b] = 200] /\ UNCHANGED <<pending, channel, pc, got, asks>>
  BY Zenon DEF CallbackInv, Answer
<1>2. CallbackTypes'
  BY <1>1, ZenonT(30) DEF CallbackTypes
<1>3. /\ \A d \in Browsers : d # b => bpc'[d] = bpc[d] /\ reply'[d] = reply[d]
      /\ bpc'[b] = "done" /\ reply'[b] = 200
  BY <1>1 DEF CallbackTypes
<1>4. OwnKept
  <2>1. /\ "done" \in {"late", "send", "answer", "done"} /\ bpc[b] # "done" /\ asks' = asks
        /\ bpc[b] = "answer" => "done" = "done" /\ reply'[b] = 200
        /\ \A d \in Browsers : d # b => reply'[d] = reply[d]
    BY <1>1, <1>3, ZenonT(30)
  <2> QED
    BY <1>1, <2>1, Handled, Zenon
<1>5. ASSUME NEW r \in Runs PROVE Attempt(r)'
  <2>1. Attempt(r) /\ Own(channel[r], r) /\ Own(got[r], r)
    BY Zenon DEF CallbackInv, Attempt
  <2>2. Own(channel[r], r)' /\ Own(got[r], r)'
    <3>1. PICK v, u : v = channel[r] /\ u = got[r]
      OBVIOUS
    <3>2. Own(v, r)' /\ Own(u, r)'
      BY <1>4, <2>1, <3>1, Zenon DEF OwnKept
    <3> QED
      BY <1>1, <3>1, <3>2, Zenon
  <2>3. got[r].from # None => got[r].from \in Browsers
    BY <1>1, GotFrom, ZenonT(30)
  <2> QED
    BY <1>1, <1>3, <2>1, <2>2, <2>3 DEF Attempt
<1>6. ASSUME NEW d \in Browsers PROVE Request(d)'
  <2>1. Request(d) /\ (\A e \in Browsers, q \in Runs : Taken(e, q)' => Taken(e, q))
    BY <1>1, <1>3, ZenonT(30) DEF CallbackInv, Taken
  <2> QED
    BY <1>1, <1>3, <2>1 DEF Request, Accepted
<1> QED
  BY <1>2, <1>5, <1>6, Zenon DEF CallbackInv

\* Time passes, contexts end, and Close drops an attempt that is left.
LEMMA OutsideStep ==
    ASSUME CallbackInv, (\E r \in Runs : Age(r) \/ Cancel(r)) \/ Close
    PROVE  CallbackInv'
<1>1. /\ CallbackTypes /\ UNCHANGED <<channel, pc, got, bpc, asks, reply>>
      /\ pending' = pending \/ pending' = None
  BY Zenon DEF CallbackInv, Age, Cancel, Close
<1>2. CallbackTypes'
  BY <1>1, ZenonT(30) DEF CallbackTypes
<1>3. ASSUME NEW r \in Runs PROVE Attempt(r)'
  <2>1. Attempt(r) /\ (pending' = r => pending = r)
    BY <1>1, CallbackConstants, Zenon DEF CallbackInv
  <2> QED
    BY <1>1, <2>1, ZenonT(30) DEF Attempt, Own
<1>4. ASSUME NEW b \in Browsers PROVE Request(b)'
  <2>1. Request(b) /\ \A r \in Runs : pending' = r => pending = r
    BY <1>1, CallbackConstants, Zenon DEF CallbackInv
  <2> QED
    BY <1>1, <2>1 DEF Request, Taken, Accepted
<1> QED
  BY <1>2, <1>3, <1>4, Zenon DEF CallbackInv

\* The answer of an attempt is in one place, from the start and in every step.
LEMMA CallbackInvariant == CallbackSpec => []CallbackInv
<1>1. CallbackInit => CallbackInv
  <2> SUFFICES ASSUME CallbackInit PROVE CallbackInv
    OBVIOUS
  <2>1. Empty \in Results /\ [state |-> None, input |-> "bad"] \in Asks
    BY Zenon DEF Empty, Results, Asks
  <2>2. CallbackTypes
    BY <2>1, ZenonT(30) DEF CallbackInit, CallbackTypes
  <2>3. \A r \in Runs : Attempt(r)
    BY CallbackConstants, Zenon DEF CallbackInit, Attempt, Own
  <2>4. \A b \in Browsers : Request(b)
    BY DEF CallbackInit, Request, Taken, Accepted
  <2> QED
    BY <2>2, <2>3, <2>4, Zenon DEF CallbackInv
<1>2. CallbackInv /\ [CallbackNext]_callbackVars => CallbackInv'
  <2> SUFFICES ASSUME CallbackInv, [CallbackNext]_callbackVars PROVE CallbackInv'
    OBVIOUS
  <2>1. CASE CallbackNext
    <3>1. CASE \E r \in Runs : Run(r) \/ Cancelled(r)
      BY <3>1, BeginStep, ReceiveStep, RunGoesOn, Zenon DEF Run
    <3>2. CASE \E b \in Browsers : Arrive(b) \/ Handle(b)
      BY <3>2, ArriveStep, CheckStep, SendStep, AnswerStep, ZenonT(30) DEF Handle
    <3> QED
      BY <2>1, <3>1, <3>2, OutsideStep, Zenon DEF CallbackNext
  <2>2. CASE UNCHANGED callbackVars
    BY <2>2 DEF callbackVars, CallbackInv, CallbackTypes, Attempt, Own, Request, Taken, Accepted
  <2> QED
    BY <2>1, <2>2, Zenon
<1> QED
  BY <1>1, <1>2, PTL DEF CallbackSpec

\* A callback that took the attempt is neither turned away nor overtaken by the
\* timer, an expiry or the next beginAuthorization (handleCallback, run), for any
\* calls of run and requests.
THEOREM CallbackNeverLoses == CallbackSpec => []CallbackWins
<1>1. CallbackInv => NeverConflict
  BY ZenonT(30) DEF CallbackInv, Request, NeverConflict
<1>2. ASSUME CallbackInv
      PROVE  ConsumedWins
  <2> DEFINE Expired(r, b) == pc[r] = "expired" /\ asks[b].state = r
             Refused(b) == bpc[b] # "answer" /\ reply[b] # 200
  <2>1. ASSUME NEW r \in Runs, NEW b \in Browsers, Expired(r, b)
        PROVE  ~Accepted(b)
    <3> SUFFICES ASSUME Accepted(b)
                 PROVE  FALSE
      BY Zenon
    <3>1. b \in {channel[r].from, got[r].from}
      <4>1. Request(b)
        BY <1>2, Zenon DEF CallbackInv
      <4> QED
        BY <2>1, <4>1, Zenon DEF Request
    <3>2. Attempt(r)
      BY <1>2, Zenon DEF CallbackInv
    <3>3. channel[r] = Empty /\ (got[r] = Empty \/ got[r].kind = "expired") /\ Own(got[r], r)
      BY <2>1, <3>2, Zenon DEF Attempt
    <3>4. channel[r].from = None /\ got[r].from = None
      <4>1. Empty.from = None /\ Result("expired", None).from = None
        BY Zenon DEF Empty, Result
      <4> QED
        BY <3>3, <4>1, Zenon DEF Own
    <3> QED
      BY <3>1, <3>4, CallbackConstants, Zenon
  <2>2. ASSUME NEW b \in Browsers, ~Accepted(b) PROVE Refused(b)
    BY <2>2, Zenon DEF Accepted
  <2> HIDE DEF Expired, Refused
  <2>3. \A r \in Runs, b \in Browsers : Expired(r, b) => Refused(b)
    BY <2>1, <2>2, Zenon
  <2> USE DEF Expired, Refused
  <2> QED
    BY <2>3, Zenon DEF ConsumedWins
<1> QED
  BY <1>1, <1>2, CallbackInvariant, PTL DEF CallbackWins

\* A code is exchanged by the run that it is for and no other, after its sender was
\* told that it was received (run, handleCallback).
THEOREM ExchangesItsOwn == CallbackSpec => []ExchangesOwn
<1>1. CallbackInv => ExchangesOwn
  <2> SUFFICES ASSUME CallbackInv, NEW r \in Runs, pc[r] \in {"exchange", "enrolling"}
               PROVE  \E b \in Browsers : /\ got[r] = Result("code", b)
                                          /\ asks[b].state = r /\ reply[b] = 200
    BY Zenon DEF ExchangesOwn
  <2>1. got[r] \in Results /\ got[r].kind = "code" /\ Own(got[r], r)
    BY ZenonT(30) DEF CallbackInv, CallbackTypes, Attempt
  <2>2. got[r].from \in Browsers /\ asks[got[r].from].state = r /\ got[r].from # None
    BY <2>1, CallbackConstants DEF Own, Empty, Result
  <2>3. bpc[got[r].from] = "done"
    BY <2>2, Zenon DEF CallbackInv, Attempt
  <2>4. reply[got[r].from] = 200
    BY <2>1, <2>3 DEF Own, Empty, Result
  <2>5. got[r] = Result("code", got[r].from)
    BY <2>1, Zenon DEF Results, Result
  <2> QED
    BY <2>2, <2>4, <2>5, Zenon
<1> QED
  BY <1>1, CallbackInvariant, PTL

-----------------------------------------------------------------------------
(* The stream of a connection.  What the application was told since BEGIN  *)
(* is what the one stream that it still speaks to has pending, and no      *)
(* other stream and no request under way has any of it.                    *)

Statements == {"BEGIN", "COMMIT"} \cup Writes
Batons == [id : Nat, turn : Nat]
ServerStream == [turn : Nat, live : BOOLEAN, tx : BOOLEAN, pending : SUBSET Writes]

StreamTypes ==
    /\ streams \in Seq(ServerStream)
    /\ baton \in Batons /\ (baton # Nil => baton.id \in DOMAIN streams)
    /\ late \subseteq [baton : Batons, st : Statements]
    /\ sent \subseteq Writes /\ durable \subseteq sent /\ acked \subseteq sent \cup {NoTransaction}
    /\ {autocommit, unsure, whole, dropped} \subseteq BOOLEAN

\* A request under way is for a stream that the session has left, and its write was not acknowledged.
Late ==
    \A m \in late : /\ m.baton # Nil => m.baton.id \in DOMAIN streams /\ m.baton.id # baton.id
                    /\ m.st \in Writes => m.st \in sent /\ m.st \notin acked

\* Only a transaction has writes that are not durable, and they were sent.
Pending ==
    \A i \in DOMAIN streams : /\ streams[i].pending \subseteq sent
                              /\ ~streams[i].tx => streams[i].pending = {}

\* A transaction in which nothing failed is that of the session's stream ...
Transaction ==
    /\ NoTransaction \notin acked /\ ~dropped =>
          /\ baton # Nil
          /\ streams[baton.id].live => streams[baton.id].tx /\ streams[baton.id].pending = acked
    /\ NoTransaction \notin acked /\ dropped => baton = Nil \/ ~streams[baton.id].tx

\* ... and of no other.
Elsewhere ==
    ~dropped => /\ acked \cap durable = {}
                /\ \A i \in DOMAIN streams : i # baton.id => acked \cap streams[i].pending = {}

StreamInv ==
    /\ StreamTypes /\ Late /\ Pending /\ SessionAgrees /\ Transaction /\ Elsewhere /\ CommitIsWhole

\* The stream that a request for id finds.
Found(id) == IF id > Len(streams) THEN NewStream ELSE streams[id]

\* A stream stays one.
LEMMA AfterType ==
    ASSUME NEW s \in ServerStream, NEW st \in Statements, NEW ok \in BOOLEAN
    PROVE  After(s, st, ok) \in ServerStream
<1> DEFINE t == IF ok /\ st \in {"BEGIN", "COMMIT"} THEN st = "BEGIN" ELSE s.tx
           q == IF ~ok \/ ~s.tx \/ st = "BEGIN" THEN s.pending
                ELSE IF st = "COMMIT" THEN {} ELSE s.pending \union {st}
           u == s.turn + 1
<1>1. s.turn \in Nat /\ s.tx \in BOOLEAN
  BY Zenon DEF ServerStream
<1>2. s.pending \in SUBSET Writes
  BY Zenon DEF ServerStream
<1>3. t \in BOOLEAN
  BY <1>1, Zenon
<1>4. q \in SUBSET Writes
  BY <1>2, Zenon DEF Statements
<1>5. After(s, st, ok) = [turn |-> u, live |-> TRUE, tx |-> t, pending |-> q]
  BY Zenon DEF After
<1>6. u \in Nat /\ TRUE \in BOOLEAN
  BY <1>1
<1> HIDE DEF t, q, u
<1> QED
  BY <1>3, <1>4, <1>5, <1>6 DEF ServerStream

\* A new stream is one.
LEMMA NewStreamType == NewStream \in ServerStream /\ NewStream.pending = {} /\ ~NewStream.tx
<1>1. 0 \in Nat /\ TRUE \in BOOLEAN /\ FALSE \in BOOLEAN /\ {} \in SUBSET Writes
  OBVIOUS
<1>2. NewStream \in ServerStream
  BY <1>1, Zenon DEF NewStream, ServerStream
<1> QED
  BY <1>2, Zenon DEF NewStream

\* What the server has after it executed a statement on a stream, new or not.
ExecutedAs(id, st, ok) ==
    /\ Found(id) \in ServerStream /\ ok \in Verdicts(Found(id), st)
    /\ Found(id).pending \subseteq sent
    /\ ~Found(id).tx => Found(id).pending = {}
    /\ streams' \in Seq(ServerStream)
    /\ DOMAIN streams' = DOMAIN streams \cup {id}
    /\ streams'[id] = After(Found(id), st, ok)
    /\ \A i \in DOMAIN streams : i # id => streams'[i] = streams[i]
    /\ durable' = durable \cup Committed(Found(id), st, ok)

\* The server executes a statement on a stream that it has, or on a new one.
LEMMA ExecutesIs ==
    ASSUME StreamTypes, Pending, NEW id \in 1 .. Len(streams) + 1, NEW st \in Statements,
           NEW ok \in BOOLEAN, Executes(id, st, ok)
    PROVE  ExecutedAs(id, st, ok)
<1> DEFINE s == Found(id)
           n == After(s, st, ok)
<1>1. /\ streams \in Seq(ServerStream) /\ Len(streams) \in Nat /\ id \in Nat
      /\ DOMAIN streams = 1 .. Len(streams)
  BY DEF StreamTypes
<1>2. CASE id > Len(streams)
  <2>1. id = Len(streams) + 1 /\ s = NewStream
    BY <1>1, <1>2 DEF Found
  <2>2. s \in ServerStream /\ s.pending = {}
    BY <2>1, NewStreamType, Zenon
  <2>3. n \in ServerStream
    BY <2>2, AfterType, Zenon
  <2>4. /\ streams' = Append(streams, n) /\ ok \in Verdicts(s, st)
        /\ durable' = durable \cup Committed(s, st, ok)
    BY <1>2, <2>1, Zenon DEF Executes, Found
  <2> HIDE DEF s, n
  <2>5. /\ streams' \in Seq(ServerStream) /\ Len(streams') = Len(streams) + 1
        /\ \A i \in 1 .. Len(streams) : streams'[i] = streams[i]
        /\ streams'[Len(streams) + 1] = n
    BY <1>1, <2>3, <2>4
  <2>6. DOMAIN streams' = DOMAIN streams \cup {id}
    BY <1>1, <2>1, <2>5
  <2> QED
    BY <1>1, <2>1, <2>2, <2>4, <2>5, <2>6, NewStreamType, Zenon DEF s, n, ExecutedAs
<1>3. CASE ~(id > Len(streams))
  <2>1. id \in DOMAIN streams /\ s = streams[id]
    BY <1>1, <1>3 DEF Found
  <2>2. s \in ServerStream /\ s.pending \subseteq sent /\ (~s.tx => s.pending = {})
    BY <1>1, <2>1 DEF Pending
  <2>3. n \in ServerStream
    BY <2>2, AfterType, Zenon
  <2>4. /\ streams' = [streams EXCEPT ![id] = n] /\ ok \in Verdicts(s, st)
        /\ durable' = durable \cup Committed(s, st, ok)
    BY <1>3, <2>1, Zenon DEF Executes, Found
  <2> HIDE DEF s, n
  <2>5. /\ streams' \in Seq(ServerStream) /\ DOMAIN streams' = DOMAIN streams
        /\ \A i \in DOMAIN streams : i # id => streams'[i] = streams[i]
        /\ streams'[id] = n
    BY <1>1, <2>1, <2>3, <2>4
  <2> QED
    BY <2>1, <2>2, <2>4, <2>5, Zenon DEF s, n, ExecutedAs
<1> QED
  BY <1>2, <1>3, Zenon

\* The statement changes its own write only, and leaves no writes outside a transaction.
LEMMA AfterIs ==
    ASSUME NEW s \in ServerStream, NEW st \in Statements, NEW ok \in BOOLEAN,
           ok \in Verdicts(s, st), NEW W, s.pending \subseteq W, ~s.tx => s.pending = {}
    PROVE  /\ After(s, st, ok).pending \subseteq W \cup ({st} \cap Writes)
           /\ ~After(s, st, ok).tx => After(s, st, ok).pending = {}
           /\ Committed(s, st, ok) \subseteq s.pending \cup ({st} \cap Writes)
           /\ After(s, st, ok).pending \subseteq s.pending \cup ({st} \cap Writes)
<1>1. s.tx \in BOOLEAN
  BY Zenon DEF ServerStream
<1>2. CASE st = "BEGIN"
  BY <1>1, <1>2, Zenon DEF After, Committed, Verdicts
<1>3. CASE st = "COMMIT"
  BY <1>1, <1>3, Zenon DEF After, Committed, Verdicts
<1>4. CASE st \in Writes
  BY <1>1, <1>4, StreamConstants, Zenon DEF After, Committed
<1> QED
  BY <1>2, <1>3, <1>4, Zenon DEF Statements

\* What the session learns from a request that was executed: the baton and, unless
\* the server would not tell, the transaction; or nothing, and then it leaves the
\* stream, and the statement failed or refreshAutocommit did.
Learned(told, drop) ==
    \/ ~drop /\ Update(Target) /\ (unsure' \/ autocommit' = ~streams'[Target].tx)
    \/ Reset /\ (drop \/ ~told)

\* A request that the server executes at once, whatever comes back of it.
LEMMA ExecutedStep ==
    ASSUME StreamInv, NEW st \in Statements, Issues(st), Valid(baton),
           NEW ok \in BOOLEAN, NEW told \in BOOLEAN, NEW drop \in BOOLEAN, told => ok,
           Executes(Target, st, ok), Concluded(st, told, drop), Learned(told, drop),
           autocommit' \in BOOLEAN, unsure' \in BOOLEAN, late' = late
    PROVE  StreamInv'
<1> DEFINE s == Found(Target)
           n == After(s, st, ok)
           more == {st} \cap Writes
<1>1. /\ StreamTypes /\ Late /\ Pending /\ SessionAgrees /\ Transaction /\ Elsewhere /\ whole
      /\ streams \in Seq(ServerStream) /\ Len(streams) \in Nat /\ DOMAIN streams = 1 .. Len(streams)
  BY DEF StreamInv, StreamTypes, CommitIsWhole
<1>2. /\ Target \in 1 .. Len(streams) + 1 /\ Target \in Nat \ {0}
      /\ baton = Nil => Target = Len(streams) + 1 /\ s = NewStream
      /\ baton # Nil => Target = baton.id /\ s = streams[baton.id] /\ s.live
  BY <1>1 DEF Target, StreamTypes, Found, Valid
<1>3. /\ s \in ServerStream /\ ok \in Verdicts(s, st)
      /\ s.pending \subseteq sent /\ (~s.tx => s.pending = {})
      /\ streams' \in Seq(ServerStream) /\ DOMAIN streams' = DOMAIN streams \cup {Target}
      /\ streams'[Target] = n /\ \A i \in DOMAIN streams : i # Target => streams'[i] = streams[i]
      /\ durable' = durable \cup Committed(s, st, ok)
  <2>1. PICK t : t = Target
    OBVIOUS
  <2>2. Executes(t, st, ok)
    BY <2>1, Zenon DEF Executes
  <2>3. t \in 1 .. Len(streams) + 1
    BY <1>2, <2>1, Zenon
  <2>4. ExecutedAs(t, st, ok)
    BY <1>1, <2>2, <2>3, ExecutesIs, Zenon
  <2> QED
    BY <2>1, <2>4, Zenon DEF ExecutedAs
<1> HIDE DEF s
<1>4. /\ n.pending \subseteq sent \cup more /\ (~n.tx => n.pending = {})
      /\ Committed(s, st, ok) \subseteq s.pending \cup more
  <2>1. PICK r : r = s
    OBVIOUS
  <2>2. /\ r \in ServerStream /\ ok \in Verdicts(r, st)
        /\ r.pending \subseteq sent /\ (~r.tx => r.pending = {})
    BY <1>3, <2>1, Zenon
  <2>3. /\ After(r, st, ok).pending \subseteq sent \cup more
        /\ ~After(r, st, ok).tx => After(r, st, ok).pending = {}
        /\ Committed(r, st, ok) \subseteq r.pending \cup more
    <3>1. PICK W : W = sent
      OBVIOUS
    <3>2. /\ After(r, st, ok).pending \subseteq W \cup ({st} \cap Writes)
          /\ ~After(r, st, ok).tx => After(r, st, ok).pending = {}
          /\ Committed(r, st, ok) \subseteq r.pending \cup ({st} \cap Writes)
      <4>1. r.pending \subseteq W
        BY <2>2, <3>1, Zenon
      <4> QED
        BY <2>2, <4>1, AfterIs
    <3> QED
      BY <3>1, <3>2, Zenon
  <2> QED
    BY <2>1, <2>3, Zenon
<1>5. /\ sent' = sent \cup more /\ sent \cap more = {} /\ sent' \subseteq Writes
      /\ durable' \subseteq sent' /\ NoTransaction \notin sent'
  BY <1>1, <1>3, <1>4, StreamConstants, ZenonT(30) DEF Issues, StreamTypes
<1>6. /\ dropped' = (drop \/ (dropped /\ st # "BEGIN"))
      /\ acked' = IF ~told \/ st = "COMMIT" THEN {NoTransaction} ELSE IF st = "BEGIN" THEN {}
                  ELSE IF NoTransaction \in acked THEN acked ELSE acked \cup {st}
      /\ whole' = (whole /\ (told /\ st = "COMMIT" /\ NoTransaction \notin acked
                               => acked \subseteq durable'))
  BY Zenon DEF Concluded
<1>7. \/ ~drop /\ baton' = [id |-> Target, turn |-> n.turn] /\ (unsure' \/ autocommit' = ~n.tx)
      \/ baton' = Nil /\ autocommit' = TRUE /\ unsure' = FALSE /\ (drop \/ ~told)
  BY <1>3, Zenon DEF Learned, Update, Reset
<1>8. NoTransaction \notin acked /\ ~dropped => s.tx /\ s.pending = acked
  BY <1>1, <1>2, Zenon DEF Transaction
<1>9. NoTransaction \notin acked /\ dropped => ~s.tx
  BY <1>1, <1>2, NewStreamType, Zenon DEF Transaction
<1>10. \A i \in DOMAIN streams : i # Target <=> i # baton.id
  BY <1>1, <1>2 DEF Nil, StreamTypes
<1>11. n \in ServerStream /\ n.turn \in Nat /\ n.tx \in BOOLEAN /\ n.live
  <2>1. n \in ServerStream
    BY <1>3, AfterType, Zenon
  <2> QED
    BY <2>1, Zenon DEF ServerStream, After
<1> HIDE DEF n
<1>12. acked' \subseteq acked \cup more \cup {NoTransaction}
  BY <1>6, Zenon DEF Statements
<1>13. ASSUME told, st \notin {"BEGIN", "COMMIT"} PROVE more = {st} /\ st \notin sent /\ st # NoTransaction
  BY <1>5, <1>13, StreamConstants, Zenon DEF Statements, Issues
<1>14. /\ baton' \in Batons /\ (baton' # Nil => baton'.id = Target) /\ Target \in DOMAIN streams'
       /\ \A i \in DOMAIN streams : i # Target => i # baton'.id
  <2>1. CASE baton' = [id |-> Target, turn |-> n.turn]
    <3>1. Target \in Nat /\ n.turn \in Nat
      BY <1>2, <1>11, Zenon
    <3> QED
      BY <1>3, <2>1, <3>1, Zenon DEF Batons
  <2>2. CASE baton' = Nil
    <3>1. Nil \in Batons /\ Nil.id = 0
      BY Zenon DEF Nil, Batons
    <3>2. \A i \in DOMAIN streams : i # 0
      BY <1>1
    <3> QED
      BY <1>3, <2>2, <3>1, <3>2, Zenon
  <2> QED
    BY <1>7, <2>1, <2>2, Zenon
<1>15. StreamTypes'
  <2>1. acked' \subseteq sent' \cup {NoTransaction}
    BY <1>1, <1>5, <1>12, Zenon DEF StreamTypes
  <2>2. late' \subseteq [baton : Batons, st : Statements]
    BY <1>1, Zenon DEF StreamTypes
  <2>3. whole' \in BOOLEAN /\ dropped' \in BOOLEAN
    BY <1>6, Zenon
  <2> QED
    BY <1>3, <1>5, <1>14, <2>1, <2>2, <2>3, Zenon DEF StreamTypes
<1>16. Late'
  <2> SUFFICES ASSUME NEW m \in late
               PROVE  /\ m.baton # Nil => m.baton.id \in DOMAIN streams' /\ m.baton.id # baton'.id
                      /\ m.st \in Writes => m.st \in sent' /\ m.st \notin acked'
    BY Zenon DEF Late
  <2>1. m.baton # Nil => m.baton.id \in DOMAIN streams /\ m.baton.id # baton.id
    BY <1>1, Zenon DEF Late
  <2>2. m.baton # Nil => m.baton.id # baton'.id
    BY <1>10, <1>14, <2>1, Zenon
  <2>3. m.st \in Writes => m.st \in sent /\ m.st \notin acked /\ m.st # NoTransaction
    BY <1>1, StreamConstants, Zenon DEF Late
  <2> QED
    BY <1>3, <1>5, <1>12, <2>1, <2>2, <2>3, Zenon
<1>17. Pending'
  BY <1>1, <1>3, <1>4, <1>5, ZenonT(30) DEF Pending
<1>18. SessionAgrees'
  BY <1>2, <1>3, <1>7 DEF SessionAgrees, StreamAgrees, AutocommitAgrees, Live, Nil
<1>19. Transaction'
  <2>1. CASE ~told \/ st = "COMMIT"
    BY <1>6, <2>1, ZenonT(30) DEF Transaction
  <2>2. CASE told /\ st = "BEGIN"
    <3>1. ~s.tx /\ n.tx /\ n.pending = {}
      BY <1>3, <2>2, Zenon DEF Verdicts, n, After
    <3> QED
      BY <1>2, <1>3, <1>6, <1>7, <2>2, <3>1 DEF Transaction, Nil
  <2>3. CASE told /\ st \notin {"BEGIN", "COMMIT"} /\ NoTransaction \in acked
    BY <1>6, <2>3, ZenonT(30) DEF Transaction
  <2>4. CASE told /\ st \notin {"BEGIN", "COMMIT"} /\ NoTransaction \notin acked
    <3>1. acked' = acked \cup {st} /\ dropped' = (drop \/ dropped)
      BY <1>6, <2>4, Zenon
    <3>2. n.tx = s.tx /\ (s.tx => n.pending = s.pending \cup {st})
      BY <2>4, Zenon DEF n, After
    <3> QED
      BY <1>2, <1>3, <1>7, <1>8, <1>9, <2>4, <3>1, <3>2 DEF Transaction, Nil
  <2> QED
    BY <2>1, <2>2, <2>3, <2>4, Zenon
<1>20. Elsewhere'
  <2> SUFFICES ASSUME ~dropped'
               PROVE  /\ acked' \cap durable' = {}
                      /\ \A i \in DOMAIN streams' : i # baton'.id => acked' \cap streams'[i].pending = {}
    BY Zenon DEF Elsewhere
  <2>1. CASE ~told \/ st = "COMMIT"
    <3>1. acked' = {NoTransaction}
      BY <1>6, <2>1, Zenon
    <3> QED
      BY <1>5, <1>17, <3>1, Zenon DEF Pending
  <2>2. CASE told /\ st = "BEGIN"
    BY <1>6, <2>2, Zenon
  <2>3. CASE told /\ st \notin {"BEGIN", "COMMIT"}
    <3>1. ~dropped /\ ~drop /\ baton'.id = Target
      <4>1. ~dropped /\ ~drop
        BY <1>6, <2>3, Zenon
      <4> QED
        BY <1>7, <2>3, <4>1
    <3>2. acked \cap durable = {} /\ \A i \in DOMAIN streams : i # Target => acked \cap streams[i].pending = {}
      BY <1>1, <1>10, <3>1, Zenon DEF Elsewhere
    <3>3. acked' \subseteq acked \cup {st} /\ st \notin sent /\ st # NoTransaction
      BY <1>6, <1>13, <2>3, Zenon
    <3>4. Committed(s, st, ok) \subseteq {st} /\ (s.tx => Committed(s, st, ok) = {})
      BY <2>3, Zenon DEF Committed
    <3>5. acked' \cap durable' = {}
      <4>1. CASE NoTransaction \in acked
        <5>1. acked' = acked /\ st \notin acked
          BY <1>1, <1>6, <2>3, <3>3, <4>1, Zenon DEF StreamTypes
        <5> QED
          BY <1>3, <3>2, <3>4, <5>1, Zenon
      <4>2. CASE NoTransaction \notin acked
        BY <1>1, <1>3, <1>8, <3>1, <3>2, <3>3, <3>4, <4>2, Zenon DEF StreamTypes
      <4> QED
        BY <4>1, <4>2, Zenon
    <3>6. \A i \in DOMAIN streams : i # Target => acked' \cap streams'[i].pending = {}
      BY <1>1, <1>3, <3>2, <3>3, Zenon DEF Pending
    <3> QED
      BY <1>3, <3>1, <3>5, <3>6, Zenon
  <2> QED
    BY <2>1, <2>2, <2>3, Zenon
<1>21. whole'
  <2>1. ASSUME told, st = "COMMIT", NoTransaction \notin acked PROVE acked \subseteq durable'
    <3>1. s.tx /\ ok
      BY <1>3, <2>1, Zenon DEF Verdicts
    <3>2. s.pending = acked /\ Committed(s, st, ok) = s.pending
      BY <1>8, <1>9, <2>1, <3>1, Zenon DEF Committed
    <3> QED
      BY <1>3, <3>2, Zenon
  <2> QED
    BY <1>1, <1>6, <2>1, Zenon
<1> QED
  BY <1>15, <1>16, <1>17, <1>18, <1>19, <1>20, <1>21, ZenonT(30) DEF StreamInv, CommitIsWhole

\* A request that nobody executed now: the session leaves the stream, and the
\* application is told of a failure.
LEMMA GivenUpStep ==
    ASSUME StreamInv, NEW st \in Statements, Issues(st), Concluded(st, FALSE, FALSE), Reset,
           streams' = streams, durable' = durable,
           late' \subseteq late \cup {[baton |-> baton, st |-> st]}
    PROVE  StreamInv'
<1>1. /\ StreamTypes /\ Late /\ Pending /\ Elsewhere /\ whole
      /\ Len(streams) \in Nat /\ DOMAIN streams = 1 .. Len(streams)
  BY DEF StreamInv, StreamTypes, CommitIsWhole
<1>2. baton' = Nil /\ autocommit' = TRUE /\ unsure' = FALSE /\ acked' = {NoTransaction}
  BY Zenon DEF Reset, Concluded
<1>3. whole' /\ dropped' \in BOOLEAN /\ (~dropped' => ~dropped \/ st = "BEGIN")
  BY <1>1, Zenon DEF Concluded
<1>4. /\ sent \subseteq sent' /\ sent' \subseteq Writes /\ NoTransaction \notin sent'
      /\ st \in Writes => st \in sent'
  BY <1>1, StreamConstants, Zenon DEF Issues, StreamTypes
<1>5. StreamTypes'
  <2>1. [baton |-> baton, st |-> st] \in [baton : Batons, st : Statements]
    BY <1>1, Zenon DEF StreamTypes
  <2>2. late' \subseteq [baton : Batons, st : Statements]
    BY <1>1, <2>1, Zenon DEF StreamTypes
  <2>3. baton' \in Batons
    BY <1>2, Zenon DEF Nil, Batons
  <2>4. acked' \subseteq sent' \cup {NoTransaction} /\ durable' \subseteq sent'
    BY <1>1, <1>2, <1>4, Zenon DEF StreamTypes
  <2> QED
    BY <1>1, <1>2, <1>3, <1>4, <2>2, <2>3, <2>4, Zenon DEF StreamTypes
<1>6. Late'
  <2> SUFFICES ASSUME NEW m \in late'
               PROVE  /\ m.baton # Nil => m.baton.id \in DOMAIN streams /\ m.baton.id # baton'.id
                      /\ m.st \in Writes => m.st \in sent' /\ m.st \notin acked'
    BY Zenon DEF Late
  <2>1. m.st \in Writes => m.st # NoTransaction
    BY StreamConstants, Zenon
  <2>2. m.baton # Nil => m.baton.id \in DOMAIN streams
    <3>1. CASE m \in late
      BY <1>1, <3>1, Zenon DEF Late
    <3>2. CASE m = [baton |-> baton, st |-> st]
      BY <1>1, <3>2, Zenon DEF StreamTypes
    <3> QED
      BY <3>1, <3>2, Zenon
  <2>3. m.st \in Writes => m.st \in sent'
    <3>1. CASE m \in late
      BY <1>1, <1>4, <3>1, Zenon DEF Late
    <3>2. CASE m = [baton |-> baton, st |-> st]
      BY <1>4, <3>2, Zenon
    <3> QED
      BY <3>1, <3>2, Zenon
  <2> QED
    BY <1>1, <1>2, <2>1, <2>2, <2>3 DEF Nil
<1>7. Pending' /\ SessionAgrees' /\ Transaction'
  BY <1>1, <1>2, <1>4, Zenon DEF Pending, SessionAgrees, StreamAgrees, AutocommitAgrees, Live, Transaction
<1>8. Elsewhere'
  BY <1>2, <1>4, <1>5, <1>7, Zenon DEF Elsewhere, StreamTypes, Pending
<1> QED
  BY <1>3, <1>5, <1>6, <1>7, <1>8, Zenon DEF StreamInv, CommitIsWhole

\* A statement of the application.
LEMMA ExecuteStmtStep ==
    ASSUME StreamInv, NEW st \in Statements, ExecuteStmt(st)
    PROVE  StreamInv'
<1>1. Issues(st)
  BY Zenon DEF ExecuteStmt
<1>2. CASE Valid(baton) /\ StreamAnswered(st)
  <2>1. PICK ok \in BOOLEAN : Executes(Target, st, ok) /\ Concluded(st, ok, FALSE)
    BY <1>2, Zenon DEF StreamAnswered
  <2>2. /\ Update(Target) /\ autocommit' = ~streams'[Target].tx
        /\ unsure' = FALSE /\ late' = late
    BY <1>2, Zenon DEF StreamAnswered
  <2>3. autocommit' \in BOOLEAN /\ unsure' \in BOOLEAN /\ Learned(ok, FALSE)
    BY <2>2, Zenon DEF Learned
  <2> QED
    BY <1>1, <1>2, <2>1, <2>2, <2>3, ExecutedStep, Zenon
<1>3. CASE Valid(baton) /\ Probed(st)
  <2>1. PICK ok \in BOOLEAN, died \in BOOLEAN, drop \in BOOLEAN :
            Executes(Target, st, ok) /\ Concluded(st, ok /\ ~died, drop) /\ Refreshed(Target, drop)
    BY <1>3, Zenon DEF Probed
  <2>2. PICK told \in BOOLEAN : told = (ok /\ ~died)
    BY Zenon
  <2>3. late' = late
    BY <1>3, Zenon DEF Probed
  <2>4. autocommit' \in BOOLEAN /\ unsure' \in BOOLEAN
    BY <2>1, Zenon DEF Refreshed, Reset, StreamInv, StreamTypes
  <2>5. Learned(told, drop)
    BY <2>1, Zenon DEF Learned, Refreshed
  <2>6. Concluded(st, told, drop) /\ (told => ok)
    BY <2>1, <2>2, Zenon
  <2> QED
    BY <1>1, <1>3, <2>1, <2>3, <2>4, <2>5, <2>6, ExecutedStep, Zenon
<1>4. CASE Valid(baton) /\ Unusable(st)
  <2>1. PICK ok \in BOOLEAN : Executes(Target, st, ok)
    BY <1>4, Zenon DEF Unusable
  <2>2. Concluded(st, FALSE, FALSE) /\ Reset /\ late' = late
    BY <1>4, Zenon DEF Unusable
  <2>3. autocommit' \in BOOLEAN /\ unsure' \in BOOLEAN /\ Learned(FALSE, FALSE)
    BY <2>2, Zenon DEF Learned, Reset
  <2> QED
    BY <1>1, <1>4, <2>1, <2>2, <2>3, ExecutedStep, Zenon
<1>5. CASE Unanswered(st) \/ Rejected(st)
  <2>1. /\ Concluded(st, FALSE, FALSE) /\ Reset /\ streams' = streams /\ durable' = durable
        /\ late' \subseteq late \cup {[baton |-> baton, st |-> st]}
    BY <1>5, Zenon DEF Unanswered, Rejected
  <2> QED
    BY <1>1, <2>1, GivenUpStep, Zenon
<1> QED
  BY <1>2, <1>3, <1>4, <1>5, Zenon DEF ExecuteStmt

\* A request that the session gave up is executed on a stream that the session has left.
LEMMA LateExecuteStep ==
    ASSUME StreamInv, NEW m \in late, LateExecute(m)
    PROVE  StreamInv'
<1>1. /\ StreamTypes /\ Late /\ Pending /\ SessionAgrees /\ Transaction /\ Elsewhere /\ whole
      /\ Len(streams) \in Nat /\ DOMAIN streams = 1 .. Len(streams)
  BY DEF StreamInv, StreamTypes, CommitIsWhole
<1>2. /\ late' = late \ {m}
      /\ UNCHANGED <<baton, autocommit, unsure, sent, acked, whole, dropped, faults>>
  BY Zenon DEF LateExecute
<1>3. CASE UNCHANGED <<streams, durable>>
  <2>1. StreamTypes' /\ Late' /\ Pending'
    BY <1>1, <1>2, <1>3, Zenon DEF StreamTypes, Late, Pending
  <2>2. SessionAgrees' /\ Transaction' /\ Elsewhere'
    BY <1>1, <1>2, <1>3, Zenon DEF SessionAgrees, StreamAgrees, AutocommitAgrees, Live, Transaction, Elsewhere
  <2> QED
    BY <1>1, <1>2, <2>1, <2>2, Zenon DEF StreamInv, CommitIsWhole
<1>4. CASE \E ok \in BOOLEAN :
               Executes(IF m.baton = Nil THEN Len(streams) + 1 ELSE m.baton.id, m.st, ok)
  <2>1. PICK ok \in BOOLEAN :
            Executes(IF m.baton = Nil THEN Len(streams) + 1 ELSE m.baton.id, m.st, ok)
    BY <1>4, Zenon
  <2>2. PICK id, st : id = (IF m.baton = Nil THEN Len(streams) + 1 ELSE m.baton.id) /\ st = m.st
    OBVIOUS
  <2>3. Executes(id, st, ok)
    BY <2>1, <2>2, Zenon DEF Executes
  <2>4. id \in 1 .. Len(streams) + 1 /\ id # baton.id /\ st \in Statements
    BY <1>1, <2>2 DEF Late, StreamTypes, Nil
  <2>5. st \in Writes => st \in sent /\ st \notin acked
    BY <1>1, <2>2, Zenon DEF Late
  <2>6. PICK s : s = Found(id)
    OBVIOUS
  <2> DEFINE n == After(s, st, ok)
  <2>7. ExecutedAs(id, st, ok)
    BY <1>1, <2>3, <2>4, ExecutesIs, Zenon
  <2>8. /\ s \in ServerStream /\ ok \in Verdicts(s, st) /\ s.pending \subseteq sent
        /\ ~s.tx => s.pending = {}
        /\ streams' \in Seq(ServerStream) /\ DOMAIN streams' = DOMAIN streams \cup {id}
        /\ streams'[id] = n /\ \A i \in DOMAIN streams : i # id => streams'[i] = streams[i]
        /\ durable' = durable \cup Committed(s, st, ok)
    BY <2>6, <2>7, Zenon DEF ExecutedAs
  <2>9. /\ n.pending \subseteq s.pending \cup ({st} \cap Writes) /\ (~n.tx => n.pending = {})
        /\ Committed(s, st, ok) \subseteq s.pending \cup ({st} \cap Writes)
    <3>1. /\ s \in ServerStream /\ st \in Statements /\ ok \in Verdicts(s, st)
          /\ s.pending \subseteq sent /\ (~s.tx => s.pending = {})
      BY <2>4, <2>8, Zenon
    <3> QED
      BY <3>1, AfterIs, SMTT(30)
  <2>10. n.pending \subseteq sent /\ Committed(s, st, ok) \subseteq sent
    BY <2>5, <2>8, <2>9, Zenon
  <2> HIDE DEF n
  <2>11. StreamTypes' /\ Late'
    BY <1>1, <1>2, <2>8, <2>10, Zenon DEF StreamTypes, Late
  <2>12. Pending'
    BY <1>1, <1>2, <2>8, <2>9, <2>10, Zenon DEF Pending
  <2>13. baton # Nil => streams'[baton.id] = streams[baton.id]
    BY <1>1, <2>4, <2>8, Zenon DEF StreamTypes
  <2>14. SessionAgrees' /\ Transaction'
    BY <1>1, <1>2, <2>13, Zenon DEF SessionAgrees, StreamAgrees, AutocommitAgrees, Live, Transaction
  <2>15. Elsewhere'
    <3> SUFFICES ASSUME ~dropped
                 PROVE  /\ acked \cap durable' = {}
                        /\ \A i \in DOMAIN streams' :
                              i # baton.id => acked \cap streams'[i].pending = {}
      BY <1>2, Zenon DEF Elsewhere
    <3>1. /\ acked \cap durable = {}
          /\ \A i \in DOMAIN streams : i # baton.id => acked \cap streams[i].pending = {}
      BY <1>1, Zenon DEF Elsewhere
    <3>2. acked \cap s.pending = {}
      BY <1>1, <2>4, <2>6, <3>1, NewStreamType DEF Found
    <3>3. acked \cap ({st} \cap Writes) = {}
      BY <2>5, Zenon
    <3> QED
      BY <2>8, <2>9, <3>1, <3>2, <3>3, Zenon
  <2> QED
    BY <1>1, <1>2, <2>11, <2>12, <2>14, <2>15, Zenon DEF StreamInv, CommitIsWhole
<1> QED
  BY <1>3, <1>4, Zenon DEF LateExecute

\* A stream that is not used again is rolled back.
LEMMA ExpireStep ==
    ASSUME StreamInv, NEW id \in DOMAIN streams, Expire(id)
    PROVE  StreamInv'
<1>1. /\ StreamTypes /\ Late /\ Pending /\ SessionAgrees /\ Transaction /\ Elsewhere /\ whole
      /\ streams \in Seq(ServerStream)
  BY Zenon DEF StreamInv, StreamTypes, CommitIsWhole
<1>2. UNCHANGED <<baton, autocommit, unsure, durable, late, sent, acked, whole, dropped>>
  BY Zenon DEF Expire
<1>3. PICK s \in ServerStream : s = streams[id]
  BY <1>1
<1> DEFINE n == [s EXCEPT !.live = FALSE, !.tx = FALSE, !.pending = {}]
<1>4. streams' = [streams EXCEPT ![id] = n]
  BY <1>1, <1>3, Zenon DEF Expire, ServerStream
<1>5. n \in ServerStream /\ ~n.live /\ ~n.tx /\ n.pending = {}
  BY Zenon DEF ServerStream
<1> HIDE DEF n
<1>6. /\ streams' \in Seq(ServerStream) /\ DOMAIN streams' = DOMAIN streams
      /\ streams'[id] = n /\ \A i \in DOMAIN streams : i # id => streams'[i] = streams[i]
  BY <1>1, <1>4, <1>5
<1>7. StreamTypes' /\ Late' /\ Pending'
  BY <1>1, <1>2, <1>5, <1>6, Zenon DEF StreamTypes, Late, Pending
<1>8. SessionAgrees' /\ Transaction' /\ Elsewhere'
  BY <1>1, <1>2, <1>5, <1>6, Zenon DEF SessionAgrees, StreamAgrees, AutocommitAgrees, Live, Transaction, Elsewhere, StreamTypes
<1> QED
  BY <1>1, <1>2, <1>7, <1>8, Zenon DEF StreamInv, CommitIsWhole

\* It holds from the start and in every step.
LEMMA StreamInvariant == StreamSpec => []StreamInv
<1>1. StreamInit => StreamInv
  <2> SUFFICES ASSUME StreamInit PROVE StreamInv
    OBVIOUS
  <2>1. StreamTypes
    <3>1. <<>> \in Seq(ServerStream)
      OBVIOUS
    <3>2. Nil \in Batons
      BY Zenon DEF Nil, Batons
    <3> QED
      BY <3>1, <3>2, Zenon DEF StreamInit, StreamTypes
  <2>2. Late /\ Pending /\ SessionAgrees /\ Transaction /\ Elsewhere /\ CommitIsWhole
    <3>1. DOMAIN streams = {} /\ late = {} /\ acked = {NoTransaction} /\ durable = {}
      BY DEF StreamInit
    <3>2. baton = Nil /\ autocommit /\ whole
      BY Zenon DEF StreamInit
    <3>3. Late /\ Pending /\ Transaction /\ Elsewhere
      BY <3>1, Zenon DEF Late, Pending, Transaction, Elsewhere
    <3>4. SessionAgrees /\ CommitIsWhole
      BY <3>2, Zenon DEF SessionAgrees, StreamAgrees, AutocommitAgrees, Live, CommitIsWhole
    <3> QED
      BY <3>3, <3>4, Zenon
  <2> QED
    BY <2>1, <2>2, Zenon DEF StreamInv
<1>2. StreamInv /\ [StreamNext]_streamVars => StreamInv'
  <2> SUFFICES ASSUME StreamInv, [StreamNext]_streamVars PROVE StreamInv'
    OBVIOUS
  <2>1. CASE StreamNext
    BY <2>1, ExecuteStmtStep, LateExecuteStep, ExpireStep, Zenon DEF StreamNext, Statements
  <2>2. CASE UNCHANGED streamVars
    <3>1. StreamTypes' /\ Late' /\ Pending'
      BY <2>2, Zenon DEF streamVars, StreamInv, StreamTypes, Late, Pending
    <3>2. SessionAgrees' /\ Transaction' /\ Elsewhere' /\ CommitIsWhole'
      BY <2>2, Zenon DEF streamVars, StreamInv, SessionAgrees, StreamAgrees, AutocommitAgrees, Live,
                  Transaction, Elsewhere, CommitIsWhole
    <3> QED
      BY <3>1, <3>2, Zenon DEF StreamInv
  <2> QED
    BY <2>1, <2>2, Zenon
<1> QED
  BY <1>1, <1>2, PTL DEF StreamSpec

\* The session's baton is the one that the server expects next, and its autocommit
\* flag is the server's, whatever answers were lost (session.go: resetStream,
\* updateStream, refreshAutocommit), for any writes, streams and faults.
THEOREM SessionInStep == StreamSpec => []SessionAgrees
<1>1. StreamInv => SessionAgrees
  BY Zenon DEF StreamInv
<1> QED
  BY <1>1, StreamInvariant, PTL

\* For an application that sees no error a transaction is all or nothing: the writes
\* are durable after COMMIT and none is before, also when requests that were given
\* up are executed late (executeStmt).
THEOREM TransactionWhole == StreamSpec => []TransactionIsWhole
<1>1. StreamInv => TransactionIsWhole
  BY Zenon DEF StreamInv, TransactionIsWhole, NothingOutside, Elsewhere
<1> QED
  BY <1>1, StreamInvariant, PTL

=============================================================================
