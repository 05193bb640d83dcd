----------------------------- MODULE UtpConnection -----------------------------
(***************************************************************************)
(* A connection: the socket a client dials with, the socket a server       *)
(* accepts with, the Go Conn on top of each, and a UDP network between     *)
(* them that loses, repeats, delays and reorders packets.  Every action is *)
(* one call into the library, made under the package's lock.               *)
(***************************************************************************)
EXTENDS UtpSocket

CONSTANTS
    ISN,            \* initial sequence number of each endpoint (random)
    ToWrite,        \* bytes each endpoint's user has to write
    MaxWrite,       \* largest single Write
    MaxFaults,      \* packets lost or repeated, and ICMP errors, in a behaviour
    MaxTimeouts,    \* retransmission timeouts before the peer had its chance
    MaxKeepAlives,  \* keep-alives in a behaviour
    MaxNet,         \* packets in the network at a time
    MayClose,       \* the endpoints whose user calls Close
    MayShutdown     \* the endpoints whose user shuts down writing only

VARIABLES
    sock,           \* the socket of each endpoint
    net,            \* packets in flight: [to |-> endpoint, pk |-> packet]
    acksScheduled,  \* the endpoints whose ack timer is set
    used            \* how much of each bound was used

vars == <<sock, net, acksScheduled, used>>

Endpoint == {"client", "server"}
Peer(e) == IF e = "client" THEN "server" ELSE "client"

ASSUME ConnectionAssumption ==
    /\ ISN \in [Endpoint -> SeqNr] /\ ToWrite \in [Endpoint -> Nat]
    /\ MayClose \subseteq Endpoint /\ MayShutdown \subseteq Endpoint

Live(e) == sock[e].state \in CONN_STATE

\* The packets in flight after e's handler ended with t; gone were consumed.
InFlight(e, t, gone) == (net \ gone) \cup {[to |-> Peer(e), pk |-> pk] : pk \in t.out}

Fits(e, t, gone) == Cardinality(InFlight(e, t, gone)) <= MaxNet

\* e's handler leaves its socket as t and the packets it sent in the network.
Handled(e, t, gone) ==
    /\ Fits(e, t, gone)
    /\ sock' = [sock EXCEPT ![e] = [t EXCEPT !.out = {}]]
    /\ net' = InFlight(e, t, gone)

Use(what) == used[what] > 0 /\ used' = [used EXCEPT ![what] = @ - 1]

Init ==
    /\ sock = [client |-> [utp_connect(ISN["client"]) EXCEPT !.out = {}], server |-> NoSocket]
    /\ net = {[to |-> "server", pk |-> pk] : pk \in utp_connect(ISN["client"]).out}
    /\ acksScheduled = {}
    /\ used = [faults |-> MaxFaults, rto |-> MaxTimeouts, keepalive |-> MaxKeepAlives]

\* The socket a packet was for, after utp_process_udp.  A packet for a
\* socket that is gone is answered with an RST, or with nothing when one was
\* sent for it before.  The server accepts once: its firewall turns down a SYN
\* that arrives after its socket is gone.
utp_process_udp(m) ==
    LET s == sock[m.to]
        rst == [type |-> "ST_RESET", seq_nr |-> 0, ack_nr |-> m.pk.seq_nr,
                wnd |-> 0, ext |-> FALSE, sack |-> {}, data |-> {}]
    IN  CASE m.pk.type = "ST_RESET" -> {IF Live(m.to) THEN Abort(s) ELSE s}
          [] m.pk.type = "ST_SYN" -> {IF s.state = "NONE" THEN Accept(m.pk, ISN[m.to]) ELSE s}
          [] m.pk.type \notin {"ST_RESET", "ST_SYN"} /\ Live(m.to) ->
                 {utp_process_incoming(s, m.pk, c) : c \in Control(s, m.pk)}
          [] m.pk.type \notin {"ST_RESET", "ST_SYN"} /\ ~Live(m.to) ->
                 {[s EXCEPT !.out = out] : out \in {{}, {rst}}}

\* The packet reader hands m to the library, and sets the timer for the acks
\* this may defer (afterReceivingUtpMessages; without a socket the timer is of
\* no account).
Receive(m, gone) ==
    \E t \in utp_process_udp(m) :
        /\ Handled(m.to, t, gone)
        /\ acksScheduled' = IF t.state \in CONN_STATE THEN acksScheduled \cup {m.to}
                            ELSE acksScheduled \ {m.to}

Deliver(m) == Receive(m, {m}) /\ UNCHANGED used

\* The network delivers a packet and keeps a copy of it.
Repeat(m) == Receive(m, {}) /\ Use("faults")

Lose(m) == net' = net \ {m} /\ Use("faults") /\ UNCHANGED <<sock, acksScheduled>>

\* An ICMP error for one of e's packets.
IcmpError(e) ==
    /\ Live(e) /\ Use("faults")
    /\ Handled(e, Abort(sock[e]), {}) /\ UNCHANGED acksScheduled

\* ackTimerFunc and utp_issue_deferred_acks.
IssueDeferredAck(e) ==
    /\ e \in acksScheduled /\ acksScheduled' = acksScheduled \ {e}
    /\ Handled(e, IF sock[e].ida THEN send_ack(sock[e]) ELSE sock[e], {}) /\ UNCHANGED used

-------------------------------------------------------------------------------
NoTimer == [rto |-> FALSE, zerowindow |-> FALSE, keepalive |-> FALSE, probe |-> FALSE]

\* Nothing moves until a timer expires.
Quiet == net = {} /\ acksScheduled = {}

\* utp_check_timeouts runs every 500 ms; which timers have expired?
CheckTimeouts(e) ==
    Live(e) /\ Handled(e, Tick(sock[e], NoTimer), {}) /\ UNCHANGED <<used, acksScheduled>>

RtoExpires(e, probe) ==
    /\ Live(e) /\ sock[e].rto_timeout
    /\ Handled(e, Tick(sock[e], [NoTimer EXCEPT !.rto = TRUE, !.probe = probe]), {})
    /\ IF Quiet THEN UNCHANGED used ELSE Use("rto")
    /\ UNCHANGED acksScheduled

ZeroWindowEnds(e) ==
    /\ Live(e) /\ sock[e].max_window_user = 0
    /\ Handled(e, Tick(sock[e], [NoTimer EXCEPT !.zerowindow = TRUE]), {})
    /\ UNCHANGED <<used, acksScheduled>>

KeepAlive(e) ==
    /\ Live(e) /\ sock[e].state \in Established /\ ~sock[e].fin_sent
    /\ Handled(e, Tick(sock[e], [NoTimer EXCEPT !.keepalive = TRUE]), {})
    /\ Use("keepalive") /\ UNCHANGED acksScheduled

-------------------------------------------------------------------------------
\* Conn.Write: n bytes are offered; writeNoWait first looks at the Conn.
Write(e, n) ==
    /\ Live(e) /\ ~sock[e].err /\ ~sock[e].closed
    /\ n \in 1 .. MaxWrite /\ sock[e].written + n <= ToWrite[e]
    /\ sock[e].state = "CS_CONNECTED" /\ ~sock[e].fin_sent
    /\ Handled(e, utp_writev(sock[e], n), {}) /\ UNCHANGED <<used, acksScheduled>>

\* Conn.Read takes n bytes from readBuf; utp_read_drained is called when that
\* empties it and the socket still exists.
Read(e, n) ==
    LET t == [sock[e] EXCEPT !.readbuf = @ - n]
    IN  /\ n \in 1 .. sock[e].readbuf
        /\ Handled(e, IF t.readbuf = 0 /\ Live(e) THEN utp_read_drained(t) ELSE t, {})
        /\ UNCHANGED <<used, acksScheduled>>

\* Mutant of Close: a second Close reaches the library too.
CloseAgain(e) ==
    /\ e \in MayClose /\ sock[e].state # "NONE"
    /\ LET t == IF Live(e) THEN utp_close(sock[e]) ELSE sock[e]
       IN  Handled(e, [t EXCEPT !.closed = TRUE], {})
    /\ UNCHANGED <<used, acksScheduled>>

Close(e) ==
    /\ e \in MayClose /\ sock[e].state # "NONE" /\ ~sock[e].closed
    /\ LET t == IF Live(e) THEN utp_close(sock[e]) ELSE sock[e]
       IN  Handled(e, [t EXCEPT !.closed = TRUE], {})
    /\ UNCHANGED <<used, acksScheduled>>

\* utp_shutdown(SHUT_WR), offered by the C API.
Shutdown(e) ==
    /\ e \in MayShutdown /\ Live(e) /\ ~sock[e].closed /\ ~sock[e].fin_sent
    /\ Handled(e, utp_shutdown(sock[e], {"WR"}), {}) /\ UNCHANGED <<used, acksScheduled>>

Next ==
    \/ \E m \in net : Deliver(m) \/ Repeat(m) \/ Lose(m)
    \/ \E e \in Endpoint :
           \/ IcmpError(e) \/ IssueDeferredAck(e) \/ CheckTimeouts(e)
           \/ \E probe \in BOOLEAN : RtoExpires(e, probe)
           \/ ZeroWindowEnds(e) \/ KeepAlive(e)
           \/ \E n \in 1 .. MaxWrite : Write(e, n)
           \/ \E n \in 1 .. sock[e].readbuf : Read(e, n)
           \/ Close(e) \/ Shutdown(e)

Spec == Init /\ [][Next]_vars

-------------------------------------------------------------------------------
\* The bytes given to e's upper layer, the bytes in its reorder buffer, and
\* the bytes in its send queue.
Received(e) == UNION {sock[e].delivered[i] : i \in DOMAIN sock[e].delivered}
Reordered(e) == UNION {d \in {get(sock[e].inbuf, j) : j \in 0 .. sock[e].inbuf.mask} : d # NULL}
QueuedPackets(e) ==
    {p \in {OutPkt(sock[e], Nth(sock[e], k)) : k \in 0 .. sock[e].cur_window_packets - 1} : p # NULL}
Queued(e) == UNION {p.data : p \in QueuedPackets(e)}

\* The upper layer gets the peer's bytes in the order they were written, none
\* twice, none skipped, whatever the network does (utp_process_incoming with
\* write_outgoing_packet, which may add bytes to a packet already queued).
InOrderStream ==
    \A e \in Endpoint :
        LET d == sock[e].delivered
            before(i) == Cardinality(UNION {d[j] : j \in 1 .. i - 1})
        IN  /\ \A i \in DOMAIN d : d[i] = before(i) + 1 .. before(i) + Cardinality(d[i])
            /\ Received(e) \subseteq 1 .. sock[Peer(e)].written

\* EOF is posted only when the peer has ended its stream and every byte of it
\* was delivered, or reading was given up (lines 2394-2414).
EofIsComplete ==
    \A e \in Endpoint : sock[e].got_fin_reached =>
        /\ sock[Peer(e)].fin_sent
        /\ sock[e].read_shutdown \/ Received(e) = 1 .. sock[Peer(e)].written

\* cur_window counts the bytes in flight: sent, not acked, not given up as lost
\* (the _DEBUG check_invariant, lines 1116-1122).
WindowAccounting ==
    \A e \in Endpoint : Live(e) =>
        sock[e].cur_window = Bytes({p \in QueuedPackets(e) : p.transmissions > 0 /\ ~p.need_resend})

\* No written byte is forgotten: until the connection fails it is in the send
\* queue, or the peer has it (ack_packet frees a packet only when the peer
\* really holds it, also when the ack was selective).
NoByteForgotten ==
    \A e \in Endpoint :
        (Live(e) /\ Live(Peer(e)) /\ ~sock[Peer(e)].read_shutdown) =>
            1 .. sock[e].written \subseteq Queued(e) \cup Reordered(Peer(e)) \cup Received(Peer(e))

\* fin_sent_acked, and with it the silent destruction of a closed socket, means
\* the peer has consumed the whole stream including the FIN (lines 2213-2218;
\* utp.h: "socket is being destroyed, meaning all data has been sent").
FinAckedMeansConsumed ==
    \A e \in Endpoint :
        (sock[e].fin_sent_acked \/ (sock[e].state = "FREED" /\ sock[e].fin_sent /\ ~sock[e].err))
            => sock[Peer(e)].got_fin_reached

\* No assert of the library fails.
NoAssertFails == \A e \in Endpoint : sock[e].failed = {}

ToServer == INSTANCE ByteStream WITH
    sent <- sock["client"].written, ended <- sock["client"].fin_sent,
    received <- Cardinality(Received("server")), reading <- ~sock["server"].read_shutdown,
    eof <- sock["server"].got_fin_reached

ToClient == INSTANCE ByteStream WITH
    sent <- sock["server"].written, ended <- sock["server"].fin_sent,
    received <- Cardinality(Received("client")), reading <- ~sock["client"].read_shutdown,
    eof <- sock["client"].got_fin_reached

\* Each direction of the connection is a ByteStream (what the callbacks of
\* utp.h and the net.Conn on top promise), through every handler of both ends:
\* here from the client that dialled to the server.
ClientStream == ToServer!Spec

\* The same for the bytes and the FIN of the server that accepted.
ServerStream == ToClient!Spec

-------------------------------------------------------------------------------
\* A handler of e that leaves t can run and changes something.
Can(e, t) == t # sock[e] /\ Fits(e, t, {})

\* The packet reader: packets that were not lost, and the deferred acks.
NetworkCan ==
    \/ \E m \in net : \E t \in utp_process_udp(m) : Fits(m.to, t, {m})
    \/ \E e \in acksScheduled : sock[e].ida => Fits(e, send_ack(sock[e]), {})
NetworkStep == (\E m \in net : Deliver(m)) \/ (\E e \in Endpoint : IssueDeferredAck(e))

\* The timer loop.  A retransmission timer may expire late, but it expires
\* when nothing else moves.
TimerCan ==
    \E e \in Endpoint : Live(e) /\
        \/ Can(e, Tick(sock[e], NoTimer))
        \/ Quiet /\ sock[e].rto_timeout /\ Can(e, Tick(sock[e], [NoTimer EXCEPT !.rto = TRUE]))
        \/ sock[e].max_window_user = 0 /\ Can(e, Tick(sock[e], [NoTimer EXCEPT !.zerowindow = TRUE]))
TimerStep == \E e \in Endpoint : \/ CheckTimeouts(e) \/ ZeroWindowEnds(e)
                                 \/ Quiet /\ RtoExpires(e, FALSE)

\* The users keep reading.
ReaderCan == Cardinality(net) < MaxNet /\ \E e \in Endpoint : sock[e].readbuf > 0
ReaderStep == \E e \in Endpoint : \E n \in 1 .. sock[e].readbuf : Read(e, n)

\* Weak fairness of each of the three, with ENABLED written out.
Fairness ==
    /\ []<>~NetworkCan \/ []<><<NetworkStep>>_vars
    /\ []<>~TimerCan \/ []<><<TimerStep>>_vars
    /\ []<>~ReaderCan \/ []<><<ReaderStep>>_vars

FairSpec == Spec /\ Fairness

\* The timer comes round to every socket that is to be destroyed.
ReapingFairSpec ==
    FairSpec /\ \A e \in Endpoint : WF_vars(sock[e].state = "CS_DESTROY" /\ CheckTimeouts(e))


\* A dial ends: the connection is there, or an error was reported.
DialEnds == <>(sock["client"].connected \/ sock["client"].err \/ sock["client"].closed)

\* A Conn that was closed leaves the Socket's table in the end (the test
\* TestSocketConnsAfterConnClosed waits for it).
ClosedIsFreed == \A e \in Endpoint : sock[e].closed ~> sock[e].state = "FREED"

\* A connection that was closed once established is freed in the end: its FIN
\* is acked, or the retransmissions run out (lines 2213-2218 and 1198-1208).
EstablishedCloseEnds ==
    \A e \in Endpoint : sock[e].close_requested ~> sock[e].state = "FREED"
===============================================================================
