------------------------------ MODULE Callback ------------------------------
(***************************************************************************)
(* The interactive half of enrollment (internal/gmail/enroll.go): run      *)
(* opens an authorization attempt, serves the callback and waits for its   *)
(* result, for the end of the attempt's lifetime or for its context;       *)
(* callbacks arrive on goroutines of the HTTP server.  Calls of run share  *)
(* the one pending attempt of an Enrollment.  What happens after the token *)
(* exchange is module Enrollment.                                          *)
(***************************************************************************)
EXTENDS Integers, FiniteSets

CONSTANTS
    Runs,      \* calls of run: each opens at most one attempt, which has its name
    Browsers,  \* requests to the callback
    None

ASSUME CallbackConstants == None \notin Runs \cup Browsers

VARIABLES
    pending,    \* e.pending: the attempt that a callback may answer
    old,        \* attempts whose lifetime is over
    cancelled,  \* calls of run whose context is done
    channel,    \* the attempt's result channel, of capacity 1
    pc, got,    \* where each call of run is, and the result that it received
    bpc, asks,  \* where each request is, and what it carries
    reply       \* the status of its answer

callbackVars == <<pending, old, cancelled, channel, pc, got, bpc, asks, reply>>

Empty == [kind |-> "none", from |-> None]
Result(k, b) == [kind |-> k, from |-> b]
Asks == [state : Runs \cup {None}, input : {"code", "denial", "bad"}]
Returned == {"busy", "output", "expired", "cancelled", "failed", "denied", "enrolling"}

CallbackInit ==
    /\ pending = None /\ old = {} /\ cancelled = {}
    /\ channel = [r \in Runs |-> Empty]
    /\ pc = [r \in Runs |-> "start"] /\ got = [r \in Runs |-> Empty]
    /\ bpc = [b \in Browsers |-> "new"]
    /\ asks = [b \in Browsers |-> [state |-> None, input |-> "bad"]]
    /\ reply = [b \in Browsers |-> 0]

Goto(r, l) == pc' = [pc EXCEPT ![r] = l]

-----------------------------------------------------------------------------
(* run *)

\* beginAuthorization: an attempt that is over is answered and replaced.
Begin(r) ==
    /\ pc[r] = "start"
    /\ IF pending # None /\ pending \notin old
       THEN Goto(r, "busy") /\ UNCHANGED <<pending, channel>>
       ELSE /\ channel' = IF pending # None /\ channel[pending] = Empty
                          THEN [channel EXCEPT ![pending] = Result("expired", None)] ELSE channel
            /\ \/ pending' = None /\ Goto(r, "failed")  \* no random bytes
               \/ pending' = r /\ Goto(r, "print")
    /\ UNCHANGED <<old, cancelled, got, bpc, asks, reply>>

\* The address is printed, or it is not: the attempt stays pending then.
PrintURL(r) ==
    /\ pc[r] = "print"
    /\ Goto(r, "wait") \/ Goto(r, "output")
    /\ UNCHANGED <<pending, old, cancelled, channel, got, bpc, asks, reply>>

Receive(r) ==
    /\ pc[r] \in {"wait", "drain"} /\ channel[r] # Empty
    /\ got' = [got EXCEPT ![r] = channel[r]]
    /\ channel' = [channel EXCEPT ![r] = Empty]
    /\ Goto(r, "ack")
    /\ UNCHANGED <<pending, old, cancelled, bpc, asks, reply>>

\* Mutant of Timer: it does not look whether a callback came first.
TimerFirst(r) ==
    /\ pc[r] = "wait" /\ r \in old
    /\ pending' = IF pending = r THEN None ELSE pending
    /\ Goto(r, "expired")
    /\ UNCHANGED <<old, cancelled, channel, got, bpc, asks, reply>>

\* The timer fires: a callback that took the attempt first still wins.
Timer(r) ==
    /\ pc[r] = "wait" /\ r \in old
    /\ IF pending = r THEN pending' = None /\ Goto(r, "expired")
                      ELSE Goto(r, "drain") /\ UNCHANGED pending
    /\ UNCHANGED <<old, cancelled, channel, got, bpc, asks, reply>>

\* The context is done while run waits for the result or for the answer to
\* the browser: the attempt is not taken back.
Cancelled(r) ==
    /\ pc[r] = "wait" \/ (pc[r] = "ack" /\ got[r].from # None)
    /\ r \in cancelled
    /\ Goto(r, "cancelled")
    /\ UNCHANGED <<pending, old, cancelled, channel, got, bpc, asks, reply>>

\* Mutant of Acknowledged: run goes on before the browser has its answer.
AcknowledgedEarly(r) ==
    /\ pc[r] = "ack"
    /\ Goto(r, "stop")
    /\ UNCHANGED <<pending, old, cancelled, channel, got, bpc, asks, reply>>

\* A result of a callback waits until the callback is answered (handled).
Acknowledged(r) ==
    /\ pc[r] = "ack"
    /\ got[r].from # None => bpc[got[r].from] = "done"
    /\ Goto(r, "stop")
    /\ UNCHANGED <<pending, old, cancelled, channel, got, bpc, asks, reply>>

\* Shutdown of the callback server, which may take longer than run waits, and
\* the end of run: with the error of the result, or in complete.
Stop(r) ==
    /\ pc[r] = "stop"
    /\ \/ Goto(r, "failed")
       \/ Goto(r, CASE got[r].kind = "expired" -> "expired"
                    [] got[r].kind = "denied" -> "denied"
                    [] OTHER -> "exchange")
    /\ UNCHANGED <<pending, old, cancelled, channel, got, bpc, asks, reply>>

\* complete: the code is exchanged once and the subject is read, or either fails.
Exchange(r) ==
    /\ pc[r] = "exchange"
    /\ Goto(r, "failed") \/ Goto(r, "enrolling")
    /\ UNCHANGED <<pending, old, cancelled, channel, got, bpc, asks, reply>>

Run(r) ==
    \/ Begin(r) \/ PrintURL(r) \/ Receive(r) \/ Timer(r) \/ Acknowledged(r)
    \/ Stop(r) \/ Exchange(r)

-----------------------------------------------------------------------------
(* handleCallback *)

\* A request arrives while some call of run serves; a state is only known to
\* somebody who was sent to the address of its attempt.
Arrive(b) ==
    /\ bpc[b] = "new"
    /\ \E r \in Runs : pc[r] \in {"wait", "drain", "ack"}
    /\ \E q \in Asks : /\ q.state # None => pc[q.state] \notin {"start", "busy", "print"}
                       /\ asks' = [asks EXCEPT ![b] = q]
    /\ bpc' = [bpc EXCEPT ![b] = "check"]
    /\ UNCHANGED <<pending, old, cancelled, channel, pc, got, reply>>

Refuse(b) ==
    /\ bpc' = [bpc EXCEPT ![b] = "done"]
    /\ reply' = [reply EXCEPT ![b] = 400]

\* The state is compared and the attempt taken in one critical section.
Check(b) ==
    /\ bpc[b] = "check"
    /\ IF \/ pending = None \/ asks[b].state # pending
          \/ (asks[b].input = "bad" /\ pending \notin old)
       THEN Refuse(b) /\ UNCHANGED pending
       ELSE /\ pending' = None
            /\ bpc' = [bpc EXCEPT ![b] = IF pending \in old THEN "late" ELSE "send"]
            /\ UNCHANGED reply
    /\ UNCHANGED <<old, cancelled, channel, pc, got, asks>>

\* Mutant of SendLate: the callback that is late is refused and nobody is told.
LateUnsent(b) ==
    /\ bpc[b] = "late"
    /\ Refuse(b)
    /\ UNCHANGED <<pending, old, cancelled, channel, pc, got, asks>>

\* The attempt is over: its run is told, with a send that waits for room.
SendLate(b) ==
    /\ bpc[b] = "late" /\ channel[asks[b].state] = Empty
    /\ channel' = [channel EXCEPT ![asks[b].state] = Result("expired", None)]
    /\ Refuse(b)
    /\ UNCHANGED <<pending, old, cancelled, pc, got, asks>>

\* The result is sent if there is room for it; then the browser is answered.
Send(b) ==
    LET r == asks[b].state IN
    /\ bpc[b] = "send"
    /\ IF channel[r] = Empty
       THEN /\ channel' = [channel EXCEPT ![r] =
                               Result(IF asks[b].input = "code" THEN "code" ELSE "denied", b)]
            /\ bpc' = [bpc EXCEPT ![b] = "answer"] /\ UNCHANGED reply
       ELSE /\ reply' = [reply EXCEPT ![b] = 409]
            /\ bpc' = [bpc EXCEPT ![b] = "done"] /\ UNCHANGED channel
    /\ UNCHANGED <<pending, old, cancelled, pc, got, asks>>

Answer(b) ==
    /\ bpc[b] = "answer"
    /\ reply' = [reply EXCEPT ![b] = 200]
    /\ bpc' = [bpc EXCEPT ![b] = "done"]
    /\ UNCHANGED <<pending, old, cancelled, channel, pc, got, asks>>

Handle(b) == Check(b) \/ SendLate(b) \/ Send(b) \/ Answer(b)

-----------------------------------------------------------------------------
\* The lifetime of an attempt ends, for the clock and for the timer of run.
Age(r) ==
    /\ pc[r] = "wait" \/ pending = r
    /\ r \notin old
    /\ old' = old \cup {r}
    /\ UNCHANGED <<pending, cancelled, channel, pc, got, bpc, asks, reply>>

Cancel(r) ==
    /\ pc[r] \in {"wait", "ack"} /\ r \notin cancelled
    /\ cancelled' = cancelled \cup {r}
    /\ UNCHANGED <<pending, old, channel, pc, got, bpc, asks, reply>>

\* Close, once the calls of run have returned.
Close ==
    /\ \A r \in Runs : pc[r] \in Returned
    /\ pending # None
    /\ pending' = None
    /\ UNCHANGED <<old, cancelled, channel, pc, got, bpc, asks, reply>>

CallbackNext ==
    \/ \E r \in Runs : Run(r) \/ Cancelled(r) \/ Age(r) \/ Cancel(r)
    \/ \E b \in Browsers : Arrive(b) \/ Handle(b)
    \/ Close

CallbackSpec == CallbackInit /\ [][CallbackNext]_callbackVars

\* Calls of run and handlers proceed, and time passes.
CallbackFairSpec ==
    /\ CallbackSpec
    /\ \A r \in Runs : WF_callbackVars(Run(r)) /\ WF_callbackVars(Age(r))
    /\ \A b \in Browsers : WF_callbackVars(Handle(b))

-----------------------------------------------------------------------------
\* A callback that was let through is never turned away because another result
\* is in the way: taking e.pending gives the right to the channel to one sender
\* among callbacks, an expiry and the next beginAuthorization.
NeverConflict == \A b \in Browsers : reply[b] # 409

\* A code is exchanged only by the run whose state came with it, for a callback
\* whose sender has been told that it was received; a callback for an attempt
\* that was cancelled, replaced or left behind never reaches another run.
ExchangesOwn ==
    \A r \in Runs : pc[r] \in {"exchange", "enrolling"} =>
        \E b \in Browsers : /\ got[r] = Result("code", b)
                            /\ asks[b].state = r /\ reply[b] = 200

\* A callback that took the attempt wins over its timer: a run reports that the
\* attempt expired only if nobody was told that a callback of it was received.
ConsumedWins ==
    \A r \in Runs, b \in Browsers :
        pc[r] = "expired" /\ asks[b].state = r => bpc[b] # "answer" /\ reply[b] # 200

\* Exactly one party answers an attempt: a callback that took it is neither
\* turned away nor overtaken by the timer (handleCallback, run).
CallbackWins == NeverConflict /\ ConsumedWins

\* Every call of run returns: the wait for a result that somebody else has
\* taken over, which no context interrupts, ends because its sender sends.
RunReturns == \A r \in Runs : pc[r] # "start" ~> pc[r] \in Returned
=============================================================================
