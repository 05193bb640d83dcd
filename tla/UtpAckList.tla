------------------------------ MODULE UtpAckList ------------------------------
(***************************************************************************)
(* The context's list of sockets that owe an ack.  A socket knows its      *)
(* place in the list (ida, -1 when it has none), so that it can be taken   *)
(* out at once: the last one takes its place.  l has the list and the ida  *)
(* of every socket; places count from 0.                                   *)
(***************************************************************************)
EXTENDS Integers, Sequences

CONSTANTS Sockets

NoAcks == [ack_sockets |-> << >>, ida |-> [c \in Sockets |-> -1]]

schedule_ack(l, c) ==
    IF l.ida[c] # -1 THEN l
    ELSE [ack_sockets |-> Append(l.ack_sockets, c), ida |-> [l.ida EXCEPT ![c] = Len(l.ack_sockets)]]

\* Mutant of removeSocketFromAckList: the socket that moves is not told.
removeSocketUntold(l, c) ==
    LET last == l.ack_sockets[Len(l.ack_sockets)]
    IN  IF l.ida[c] < 0 THEN l
        ELSE [ack_sockets |-> SubSeq([l.ack_sockets EXCEPT ![l.ida[c] + 1] = last],
                                     1, Len(l.ack_sockets) - 1),
              ida |-> [l.ida EXCEPT ![c] = -1]]

removeSocketFromAckList(l, c) ==
    LET last == l.ack_sockets[Len(l.ack_sockets)]
    IN  IF l.ida[c] < 0 THEN l
        ELSE [ack_sockets |-> SubSeq([l.ack_sockets EXCEPT ![l.ida[c] + 1] = last],
                                     1, Len(l.ack_sockets) - 1),
              ida |-> [[l.ida EXCEPT ![last] = l.ida[c]] EXCEPT ![c] = -1]]

\* Every socket in the list is at its ida, and the others have none: so no
\* socket is in the list twice, and the asserts of removeSocketFromAckList hold.
AckListOK(l) ==
    /\ l.ack_sockets \in Seq(Sockets) /\ l.ida \in [Sockets -> Int]
    /\ \A i \in 1 .. Len(l.ack_sockets) : l.ida[l.ack_sockets[i]] = i - 1
    /\ \A c \in Sockets : l.ida[c] # -1 => /\ l.ida[c] + 1 \in 1 .. Len(l.ack_sockets)
                                           /\ l.ack_sockets[l.ida[c] + 1] = c
===============================================================================
