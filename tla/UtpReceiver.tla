------------------------------- MODULE UtpReceiver -------------------------------
(***************************************************************************)
(* The receiving half of one connected socket, with a peer that sends the  *)
(* packets 1 .. LAST of a stream (a FIN, if there is one, is the last) and *)
(* a network that loses, repeats and reorders them.  Packet k travels with *)
(* the 16-bit sequence number IRS + k; what it carries is Payload[k].      *)
(***************************************************************************)
EXTENDS UtpReceive

CONSTANTS
    IRS,        \* initial ack_nr: the sequence number of the SYN or SYN-ACK
    LAST,       \* number of packets of the stream
    HASFIN,     \* packet LAST is the FIN
    Payload     \* the bytes of each packet; a FIN has none

ASSUME StreamAssumption ==
    /\ IRS \in SeqNr /\ LAST \in Nat /\ HASFIN \in BOOLEAN
    /\ Payload \in [1 .. LAST -> SUBSET Nat]
    /\ \A k \in 1 .. LAST : IsFiniteSet(Payload[k]) /\ Payload[k] # NULL
    /\ \A j, k \in 1 .. LAST : j # k => Payload[j] \cap Payload[k] = {}
    /\ HASFIN => LAST > 0

VARIABLE s          \* the socket

WireSeq(k) == Wrap(IRS + k)

Packet(k) == [type |-> IF HASFIN /\ k = LAST THEN "ST_FIN" ELSE "ST_DATA",
              seq_nr |-> WireSeq(k), data |-> Payload[k]]

\* Number of packets consumed in order.
Consumed == Len(s.delivered)

\* Packets the network can still hold: the peer sends at most
\* OUTGOING_BUFFER_MAX_SIZE packets past the one it waits an ack for, and no
\* copy of a packet outlives the 2^16 - 1024 packets sent after it.
InTransit == {k \in 1 .. LAST : /\ k <= Consumed + OUTGOING_BUFFER_MAX_SIZE
                                /\ k + 65536 - REORDER_BUFFER_MAX_SIZE > Consumed}

Init ==
    s = [ack_nr |-> IRS, seq_nr |-> 1, inbuf |-> EmptyBuffer, reorder_count |-> 0,
         got_fin |-> FALSE, got_fin_reached |-> FALSE, eof_pkt |-> 0,
         read_shutdown |-> FALSE, rto_timeout |-> FALSE, ida |-> FALSE,
         last_rcv_win |-> OPT_RCVBUF, readbuf |-> 0, delivered |-> << >>,
         out |-> {}, failed |-> {}]

\* The socket at the start of a handler: nothing sent by it yet.
Fresh == [s EXCEPT !.out = {}]

\* utp_process_incoming for packet k, from the check of its sequence number.
Receive(k) ==
    LET pk == Packet(k)
    IN  s' = IF Ahead(s, pk) >= REORDER_BUFFER_MAX_SIZE THEN OldPacket(Fresh, pk)
             ELSE ReceivePayload(Fresh, pk)

\* utp_issue_deferred_acks reaches the socket.
IssueDeferredAck == s.ida /\ s' = send_ack(Fresh)

KeepAlive == s' = send_keep_alive(Fresh)

\* The upper layer takes n bytes from its buffer; when that empties the
\* buffer it calls utp_read_drained (readNoWait).
Read(n) ==
    /\ n \in 1 .. s.readbuf
    /\ LET s1 == [Fresh EXCEPT !.readbuf = @ - n]
       IN  s' = IF s1.readbuf = 0 THEN utp_read_drained(s1) ELSE s1

\* utp_close or utp_shutdown ends the delivery of bytes.
ShutdownRead == ~s.read_shutdown /\ s' = [Fresh EXCEPT !.read_shutdown = TRUE]

Next ==
    \/ \E k \in InTransit : Receive(k)
    \/ IssueDeferredAck
    \/ KeepAlive
    \/ \E n \in 1 .. s.readbuf : Read(n)
    \/ ShutdownRead

Spec == Init /\ [][Next]_s

-------------------------------------------------------------------------------
Ack == [type : {"ST_STATE"}, seq_nr : SeqNr, ack_nr : SeqNr, wnd : Nat,
        ext : BOOLEAN, sack : SUBSET (0 .. 29), data : {{}}]

\* The sockets whose reorder buffer has mask m.
Socket(m) ==
    [ack_nr : SeqNr, seq_nr : SeqNr, inbuf : Buffer(m, {NULL} \cup SUBSET Nat),
     reorder_count : Nat, got_fin : BOOLEAN, got_fin_reached : BOOLEAN, eof_pkt : SeqNr,
     read_shutdown : BOOLEAN, rto_timeout : BOOLEAN, ida : BOOLEAN,
     last_rcv_win : Nat, readbuf : Nat, delivered : Seq(SUBSET Nat),
     out : SUBSET Ack, failed : SUBSET STRING]

TypeOK == s.inbuf.mask \in Masks /\ s \in Socket(s.inbuf.mask)

\* Every packet is consumed exactly once and in order: the i-th entry given to
\* the upper layer is the payload of the i-th packet of the stream, or nothing
\* once reading was shut down (lines 2377-2430 of utp_process_incoming).
InOrderExactlyOnce ==
    /\ Consumed <= LAST
    /\ \A i \in 1 .. Consumed : s.delivered[i] = Payload[i]
                                \/ (s.read_shutdown /\ s.delivered[i] = {})

\* The packets in the reorder buffer, by the slots of the current window.
BufferedPackets ==
    {k \in Consumed .. Consumed + s.inbuf.mask : get(s.inbuf, WireSeq(k)) # NULL}

\* reorder_count is the number of packets in the reorder buffer, the buffer
\* never holds the next expected packet or a consumed one, and every packet it
\* holds is in the slot of its own sequence number, also after the buffer has
\* grown (the _DEBUG check_invariant of line 1112, lines 197-229).
ReorderBufferSound ==
    /\ s.reorder_count = Cardinality(BufferedPackets)
    /\ \A k \in BufferedPackets :
           k \in Consumed + 2 .. LAST /\ get(s.inbuf, WireSeq(k)) = Payload[k]

\* EOF is posted exactly when every packet of the stream, the FIN included,
\* has been consumed (lines 2394-2414): no byte is delivered after it, and it
\* is not held back once everything before it is there.
EofAfterEverything == s.got_fin_reached <=> HASFIN /\ Consumed = LAST

\* An EACK never claims a packet that was not received: the bits it sets are
\* packets waiting in the reorder buffer, whatever the size of the circular
\* buffer and also in a keep-alive, which is sent with ack_nr - 1
\* (lines 799-831 and 842-852).
EackTruthful ==
    \A pfa \in s.out : \A i \in pfa.sack :
        \E k \in BufferedPackets : Wrap(pfa.ack_nr + 2 + i) = WireSeq(k)

\* No assertion of the receiving half fails (lines 811 and 2498-2499).
NoAssertFails == s.failed = {}

\* ack_nr only moves forward, over packets that were consumed: what was once
\* acknowledged is never taken back.
AckNeverRetreats ==
    [][/\ Consumed' >= Consumed
       /\ s'.ack_nr = Wrap(s.ack_nr + Consumed' - Consumed)
       /\ \A i \in 1 .. Consumed : s'.delivered[i] = s.delivered[i]]_s
===============================================================================
