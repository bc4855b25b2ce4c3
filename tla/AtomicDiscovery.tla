-------------------------- MODULE AtomicDiscovery --------------------------
(***************************************************************************)
(* What current discovery promises: the cursor and the stored messages     *)
(* change together, in one step, and a step over a stretch of the          *)
(* mailbox's history stores every message of it that still exists.  No     *)
(* attempt, chunk, seal or process is visible here.                        *)
(***************************************************************************)
EXTENDS Integers, Sequences

CONSTANTS MessageIDs, Versions, None

VARIABLES
    log,       \* the mailbox's history: the message each history id adds
    vanished,  \* messages deleted from the mailbox
    cursor,    \* the history id up to which the account is synchronized
    messages   \* the stored messages: id -> version or None

vars == <<log, vanished, cursor, messages>>

\* The messages added after history id from, up to history id to.
AddedBetween(from, to) == {log[h] : h \in {i \in 1 .. Len(log) : from < i /\ i <= to}}

Init ==
    /\ log = <<>>
    /\ vanished = {}
    /\ cursor = 0
    /\ messages = [m \in MessageIDs |-> None]

NewMail(m) ==
    /\ log' = Append(log, m)
    /\ UNCHANGED <<vanished, cursor, messages>>

Vanish(m) ==
    /\ vanished' = vanished \cup {m}
    /\ UNCHANGED <<log, cursor, messages>>

\* A stored message may be read again later and get new metadata, but it
\* keeps its thread.
Advance(next) ==
    /\ cursor < next
    /\ next <= Len(log)
    /\ cursor' = next
    /\ messages' \in [MessageIDs -> Versions \cup {None}]
    /\ \A m \in MessageIDs :
        /\ messages'[m] # messages[m] =>
            /\ m \in AddedBetween(cursor, next)
            /\ messages'[m] # None
            /\ messages[m] # None => messages'[m].thread = messages[m].thread
        /\ m \in AddedBetween(cursor, next) \ vanished => messages'[m] # None
    /\ UNCHANGED <<log, vanished>>

Next ==
    \/ \E m \in MessageIDs : NewMail(m) \/ Vanish(m)
    \/ \E next \in 1 .. Len(log) : Advance(next)

Spec == Init /\ [][Next]_vars
=============================================================================
