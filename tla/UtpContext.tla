------------------------------ MODULE UtpContext ------------------------------
(***************************************************************************)
(* A context: what it knows of all its sockets together.  Packets, ICMP    *)
(* messages, the timeout pass and the deferred acks find their sockets     *)
(* here, and sockets are made and deleted.  What a socket does with a      *)
(* packet is the subject of other modules: here it may become CS_DESTROY,  *)
(* and it may schedule an ack or send something.                           *)
(*                                                                         *)
(* The library runs under one mutex.  The timeout pass and the deletion of *)
(* the context are loops over the hash table, taken one step at a time, so *)
(* that the table can be looked at in between; nothing else runs then.     *)
(***************************************************************************)
EXTENDS UtpHash, UtpAckList

CONSTANTS
    Addrs,            \* the peers' addresses
    IDS,              \* the connection ids of the wire: 0 .. IDS - 1 (2^16)
    Seqs,             \* the sequence numbers of packets that find no socket
    RST_INFO_LIMIT,
    SOCKET_LIMIT,     \* the 3000 sockets above which no connection is accepted
    MaxTogether,      \* bound: sockets and remembered resets together
    None              \* NULL

ASSUME ContextAssumption == IDS \in Nat \ {0} /\ None \notin Sockets

VARIABLES
    utp_sockets,      \* the hash table
    acks,             \* ack_sockets, and the ida of each socket
    last_utp_socket,
    rst_info,         \* the packets answered with a reset; old: RST_INFO_TIMEOUT has passed
    sock,             \* the sockets themselves
    loop              \* the loop over the table that is running, and its iterator

table == <<utp_sockets, acks, last_utp_socket, sock>>
vars == <<utp_sockets, acks, last_utp_socket, rst_info, sock, loop>>

\* Memory that holds no socket.
Freed0 == [addr |-> None, recv |-> 0, send |-> 0, state |-> "freed"]
Live == {c \in Sockets : sock[c].state # "freed"}
Key(c) == <<sock[c].addr, sock[c].recv>>
Find(addr, id) == Lookup(utp_sockets, <<addr, id>>, None)

Idle == [kind |-> "idle", it |-> Start, todo |-> {}]
Init ==
    /\ utp_sockets = Create /\ acks = NoAcks /\ last_utp_socket = None
    /\ rst_info = << >>
    /\ sock = [c \in Sockets |-> Freed0] /\ loop = Idle

Calls == loop.kind = "idle"
Room == Cardinality(Live) + Len(rst_info) < MaxTogether

-------------------------------------------------------------------------------
(* What happens to a socket's own state. *)

\* An error or the end of a closed connection may leave the socket CS_DESTROY.
MayDie(c) == \E s \in {sock[c].state, "CS_DESTROY"} : sock' = [sock EXCEPT ![c].state = s]

\* A packet that is handled may schedule an ack, or be answered with one.
MayAck(c) == acks' \in {acks, schedule_ack(acks, c), removeSocketFromAckList(acks, c)}

-------------------------------------------------------------------------------
(* Making a socket. *)

\* Memory is found for the socket and it enters the table under its key.
utp_initialize_socket(c, addr, conn_id_recv, conn_id_send, state) ==
    /\ sock[c].state = "freed" /\ Room
    /\ sock' = [sock EXCEPT ![c] = [addr |-> addr, recv |-> conn_id_recv, send |-> conn_id_send,
                                    state |-> state]]
    /\ utp_sockets' = Add(utp_sockets, <<addr, conn_id_recv>>, c)

\* A dial draws seeds until no socket has the key (addr, seed); its SYN is sent.
utp_connect(c, addr, seed) ==
    /\ Calls
    /\ Find(addr, seed) = None
    /\ utp_initialize_socket(c, addr, seed, seed + 1, "open")
    /\ UNCHANGED <<acks, last_utp_socket, rst_info, loop>>

-------------------------------------------------------------------------------
(* Datagrams. *)

\* The socket that a reset or an ICMP message is about: id is the id of a packet
\* we sent, or one that we would receive.
About(addr, id) ==
    LET up == Find(addr, id + 1)
        down == Find(addr, id - 1)
    IN  IF Find(addr, id) # None THEN Find(addr, id)
        ELSE IF up # None /\ sock[up].send = id THEN up
        ELSE IF down # None /\ sock[down].send = id THEN down
        ELSE None

\* A reset (utp_process_udp) or an ICMP error, for a socket it is about: this
\* becomes CS_DESTROY if it was closed and CS_RESET if not, even from CS_DESTROY.
ResetOrIcmp(addr, id) ==
    /\ Calls
    /\ About(addr, id) # None
    /\ \E s \in {"open", "CS_DESTROY"} : sock' = [sock EXCEPT ![About(addr, id)].state = s]
    /\ UNCHANGED <<utp_sockets, acks, last_utp_socket, rst_info, loop>>

\* The socket of a packet: the one that had the last packet is tried first.
Receiver(addr, id) ==
    IF last_utp_socket # None /\ sock[last_utp_socket].addr = addr /\ sock[last_utp_socket].recv = id
    THEN last_utp_socket ELSE Find(addr, id)

\* A packet for a socket: utp_process_incoming.
Incoming(addr, id) ==
    /\ Calls
    /\ Receiver(addr, id) # None
    /\ last_utp_socket' = Receiver(addr, id)
    /\ MayDie(Receiver(addr, id)) /\ MayAck(Receiver(addr, id))
    /\ UNCHANGED <<utp_sockets, rst_info, loop>>

\* A packet that finds no socket, and the places where it is remembered.
Stray(addr, id, seq) == [addr |-> addr, connid |-> id, ack_nr |-> seq]
Remembered(addr, id, seq) == {i \in DOMAIN rst_info : rst_info[i].packet = Stray(addr, id, seq)}

\* Mutant of Unknown: the table of resets has no limit.
UnknownUnlimited(addr, id, seq) ==
    /\ Calls
    /\ Receiver(addr, id) = None
    /\ Room \/ Remembered(addr, id, seq) # {}
    /\ rst_info' = IF Remembered(addr, id, seq) # {}
                   THEN [rst_info EXCEPT ![CHOOSE i \in Remembered(addr, id, seq) : TRUE].old = FALSE]
                   ELSE Append(rst_info, [packet |-> Stray(addr, id, seq), old |-> FALSE])
    /\ UNCHANGED <<table, loop>>

\* A packet for no socket: a reset is sent and remembered; one that is remembered
\* is not sent again, its time starts anew.
Unknown(addr, id, seq) ==
    /\ Calls
    /\ Receiver(addr, id) = None
    /\ Room \/ Remembered(addr, id, seq) # {} \/ Len(rst_info) > RST_INFO_LIMIT
    /\ rst_info' = IF Remembered(addr, id, seq) # {}
                   THEN [rst_info EXCEPT ![CHOOSE i \in Remembered(addr, id, seq) : TRUE].old = FALSE]
                   ELSE IF Len(rst_info) > RST_INFO_LIMIT THEN rst_info
                   ELSE Append(rst_info, [packet |-> Stray(addr, id, seq), old |-> FALSE])
    /\ UNCHANGED <<table, loop>>

\* Mutant of Syn: a connection that exists already is accepted again.
SynTwice(c, addr, id) ==
    /\ Calls
    /\ utp_sockets.count <= SOCKET_LIMIT
    /\ \E s \in {"open", "CS_DESTROY"} : utp_initialize_socket(c, addr, id + 1, id, s)
    /\ UNCHANGED <<acks, last_utp_socket, rst_info, loop>>

\* A SYN that is accepted: it is answered (the socket is not in the ack list),
\* and on_accept may close the socket at once when the backlog is full.
Syn(c, addr, id) ==
    /\ Calls
    /\ Find(addr, id + 1) = None
    /\ utp_sockets.count <= SOCKET_LIMIT
    /\ \E s \in {"open", "CS_DESTROY"} : utp_initialize_socket(c, addr, id + 1, id, s)
    /\ UNCHANGED <<acks, last_utp_socket, rst_info, loop>>

-------------------------------------------------------------------------------
(* The application. *)

\* Write, Read and Close of a socket: packets may be sent, an ack may be
\* scheduled (utp_read_drained), the socket may become CS_DESTROY (utp_close).
Application(c) ==
    /\ Calls /\ c \in Live
    /\ MayDie(c) /\ MayAck(c)
    /\ UNCHANGED <<utp_sockets, last_utp_socket, rst_info, loop>>

RECURSIVE IssuedSkipping(_, _)
\* Mutant of Issued: the index goes on, though the last one has come to this place.
IssuedSkipping(l, i) ==
    IF i > Len(l.ack_sockets) THEN l
    ELSE IssuedSkipping(removeSocketFromAckList(l, l.ack_sockets[i]), i + 1)

\* The loop over the list: the socket at place i sends its ack, which takes it
\* out of the list, and the same place is looked at again.
RECURSIVE Issued(_, _)
Issued(l, i) ==
    IF i > Len(l.ack_sockets) THEN l
    ELSE Issued(removeSocketFromAckList(l, l.ack_sockets[i]), i)

utp_issue_deferred_acks ==
    /\ Calls /\ acks.ack_sockets # << >>
    /\ acks' = Issued(acks, 1)
    /\ UNCHANGED <<utp_sockets, last_utp_socket, rst_info, sock, loop>>

-------------------------------------------------------------------------------
(* Deleting sockets. *)

\* Mutant of Destroy: the last socket is not forgotten.
DestroyRemembered(c) ==
    /\ last_utp_socket' = last_utp_socket
    /\ utp_sockets' = Delete(utp_sockets, Key(c))
    /\ acks' = removeSocketFromAckList(acks, c)
    /\ sock' = [sock EXCEPT ![c] = Freed0]

\* ~UTPSocket.
Destroy(c) ==
    /\ last_utp_socket' = IF last_utp_socket = c THEN None ELSE last_utp_socket
    /\ utp_sockets' = Delete(utp_sockets, Key(c))
    /\ acks' = removeSocketFromAckList(acks, c)
    /\ sock' = [sock EXCEPT ![c] = Freed0]

\* RST_INFO_TIMEOUT passes for some of the packets.
TimePasses ==
    /\ Calls
    /\ \E S \in SUBSET DOMAIN rst_info :
          rst_info' = [i \in DOMAIN rst_info |-> [rst_info[i] EXCEPT !.old = @ \/ i \in S]]
    /\ UNCHANGED <<table, loop>>

\* Mutant of MoveUpLast: the last one is dropped, and stays where it is not.
MoveUpLastDropped(a, i) == SubSeq(a, 1, Len(a) - 1)

\* Array::MoveUpLast.
MoveUpLast(a, i) == SubSeq([a EXCEPT ![i] = a[Len(a)]], 1, Len(a) - 1)

\* The loop that forgets what is old, from place i on: the last one moves up into
\* the place of one that goes, and this place is looked at again.
RECURSIVE Purged(_, _)
Purged(a, i) ==
    IF i > Len(a) THEN a
    ELSE IF a[i].old THEN Purged(MoveUpLast(a, i), i)
    ELSE Purged(a, i + 1)

\* A loop over the table begins: todo is what it has to visit.  (A call before
\* TIMEOUT_CHECK_INTERVAL has passed changes nothing.)
Begin(kind) == [kind |-> kind, it |-> Start, todo |-> Live]
utp_check_timeouts ==
    /\ Calls
    /\ rst_info' = Purged(rst_info, 1)
    /\ loop' = Begin("timeouts")
    /\ UNCHANGED table
utp_destroy ==
    /\ Calls
    /\ loop' = Begin("free")
    /\ UNCHANGED <<table, rst_info>>

\* One turn of a loop, for the socket at the element e: check_timeouts may send
\* something and may leave it CS_DESTROY, and then it is deleted; UTP_FreeAll
\* deletes it anyway.
Survives(c) ==
    /\ acks' \in {acks, removeSocketFromAckList(acks, c)}
    /\ UNCHANGED <<utp_sockets, last_utp_socket, sock>>
Turn(c) ==
    /\ loop' = [loop EXCEPT !.it = Iterate(utp_sockets, loop.it), !.todo = @ \ {c}]
    /\ \/ loop.kind = "timeouts" /\ sock[c].state = "open" /\ Survives(c)
       \/ Destroy(c)
    /\ UNCHANGED <<rst_info>>
Visited == utp_sockets.elems[Current(utp_sockets, loop.it) + 1].value
Visit == ~Calls /\ ~AtEnd(utp_sockets, loop.it) /\ Turn(Visited)

\* The end of a loop: after UTP_FreeAll the context is gone, and another begins.
EndOfLoop ==
    /\ ~Calls /\ AtEnd(utp_sockets, loop.it)
    /\ loop' = Idle
    /\ IF loop.kind = "timeouts" THEN UNCHANGED <<table, rst_info>>
       ELSE /\ utp_sockets' = Create /\ rst_info' = << >>
            /\ UNCHANGED <<acks, last_utp_socket, sock>>

Next ==
    \/ \E c \in Sockets, addr \in Addrs, id \in 0 .. IDS - 1 : utp_connect(c, addr, id) \/ Syn(c, addr, id)
    \/ \E addr \in Addrs, id \in 0 .. IDS - 1 : ResetOrIcmp(addr, id) \/ Incoming(addr, id)
    \/ \E addr \in Addrs, id \in 0 .. IDS - 1, seq \in Seqs : Unknown(addr, id, seq)
    \/ \E c \in Sockets : Application(c)
    \/ utp_issue_deferred_acks \/ TimePasses \/ utp_check_timeouts \/ utp_destroy
    \/ Visit \/ EndOfLoop

Spec == Init /\ [][Next]_vars

-------------------------------------------------------------------------------
(* Properties. *)

Packets == [addr : Addrs, connid : 0 .. IDS - 1, ack_nr : Seqs]
TypeOK ==
    /\ sock \in [Sockets -> [addr : Addrs \cup {None}, recv : 0 .. IDS, send : 0 .. IDS,
                             state : {"open", "CS_DESTROY", "freed"}]]
    /\ last_utp_socket \in Sockets \cup {None}
    /\ rst_info \in Seq([packet : Packets, old : BOOLEAN]) /\ Len(rst_info) <= RST_INFO_LIMIT + 1
    /\ Len(utp_sockets.elems) <= utp_sockets.allocated
    /\ loop.kind \in {"idle", "timeouts", "free"} /\ loop.todo \subseteq Sockets

\* "It's really important that we don't have duplicate keys in the hash table"
\* (utp_internal.h:68): the chains and the free list share out the elements of
\* the table, it holds the sockets that are alive and no other, and a lookup of
\* the key of any of them finds this socket.
TableSound ==
    /\ Partition(utp_sockets) /\ Values(utp_sockets) = Live
    /\ \A c \in Live : Lookup(utp_sockets, Key(c), None) = c

\* The ack list and the places that sockets have of it agree, whatever order
\* sockets come and go in, and no socket in the list has been freed: the pointer
\* that utp_issue_deferred_acks and removeSocketFromAckList follow is good.
AckListSound == AckListOK(acks) /\ \A c \in Sockets \ Live : acks.ida[c] = -1

\* The shortcut through last_utp_socket finds what the table would find, and
\* never a socket that has been freed.
ShortcutExact ==
    /\ last_utp_socket \in Live \cup {None}
    /\ \A addr \in Addrs, id \in 0 .. IDS - 1 : Receiver(addr, id) = Find(addr, id)

\* A loop over the table visits every socket that was in it, once, though
\* sockets, the one it is at among them, are deleted while it runs.
LoopVisitsAll ==
    Calls \/ IF AtEnd(utp_sockets, loop.it) THEN loop.todo = {} ELSE Visited \in loop.todo

\* After utp_issue_deferred_acks no socket owes an ack.
AllAcksIssued == [][utp_issue_deferred_acks => acks' = NoAcks]_vars

\* A packet that was answered with a reset is remembered, once, until its time is
\* over: it is not answered again (unless the context goes).
RstOnce ==
    [][/\ \A i, j \in DOMAIN rst_info' : rst_info'[i].packet = rst_info'[j].packet => i = j
       /\ \A i \in DOMAIN rst_info :
             rst_info[i].old \/ loop.kind = "free"
             \/ \E j \in DOMAIN rst_info' : rst_info'[j].packet = rst_info[i].packet]_vars
===============================================================================
