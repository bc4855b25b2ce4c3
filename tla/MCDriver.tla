----------------------------- MODULE MCDriver -----------------------------
(***************************************************************************)
(* The serverless driver: the close of a connector with its connections,   *)
(* and the stream of one connection.  Neither reads a variable of the      *)
(* other, so a behaviour moves one of them and leaves the other as it      *)
(* starts.                                                                 *)
(***************************************************************************)
EXTENDS DriverClose, Stream

CONSTANTS c1, c2, c3, k1, k2, s1, s2

VARIABLE part

\* Connections, callers and writes are named in the order in which they appear.
Named ==
    /\ conn[c2] # "none" => conn[c1] # "none"
    /\ conn[c3] # "none" => conn[c2] # "none"
    /\ caller[k2] # "idle" => caller[k1] # "idle"
    /\ s2 \in sent => s1 \in sent

MCInit == part \in {"close", "stream"} /\ CloseInit /\ StreamInit

CloseMoves == part = "close" /\ CloseNext /\ UNCHANGED <<streamVars, part>> /\ Named'
StreamMoves == part = "stream" /\ StreamNext /\ UNCHANGED <<driverVars, part>> /\ Named'

MCNext == CloseMoves \/ StreamMoves

\* The fairness of CloseSpec; nothing fair is enabled before there is a connection
\* or a caller, so it asks nothing of a close that does not move.
MCSpec == MCInit /\ [][MCNext]_<<driverVars, streamVars, part>> /\ CloseFairness
=============================================================================
