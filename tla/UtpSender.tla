------------------------------- MODULE UtpSender -------------------------------
(***************************************************************************)
(* The sending half of one connected socket against a peer that acks what  *)
(* it has, cumulatively and selectively.  Packets are lost, repeated and   *)
(* reordered: any packet that was ever sent may arrive now.  An ack may be *)
(* delivered at once, or kept back and delivered later, any number of      *)
(* times.                                                                  *)
(***************************************************************************)
EXTENDS UtpSocket

CONSTANTS
    ISS,            \* sequence number of the first packet
    FIRST_RESEND,   \* initial fast_resend_seq_nr
    PACKETS,        \* packets the user writes, of one byte each
    MaxTimeouts     \* retransmission timeouts in a behaviour

ASSUME SenderAssumption ==
    ISS \in SeqNr /\ FIRST_RESEND \in SeqNr /\ PACKETS \in Nat /\ MaxTimeouts \in Nat

VARIABLES
    s,          \* the socket
    got,        \* the packets the peer has, by their place in the stream
    delayed,    \* an ack on its way, or NULL
    timeouts    \* retransmission timeouts so far

vars == <<s, got, delayed, timeouts>>

WireSeq(k) == Wrap(ISS + k - 1)

\* The number of packets the peer has consumed in order.
Consumed == Max({k \in 0 .. PACKETS : 1 .. k \subseteq got})

\* The peer's ack; a keep-alive acks one packet less.
PeerAck(back) ==
    LET base == Consumed - back
        sack == {k - base - 2 : k \in {g \in got : g > Consumed}}
    IN  [type |-> "ST_STATE", seq_nr |-> Wrap(s.ack_nr + 1), ack_nr |-> Wrap(ISS - 1 + base),
         wnd |-> PACKETS, ext |-> sack # {}, sack |-> {b \in sack : b < 30}, data |-> {}]

Init ==
    /\ s = [NewSocket EXCEPT !.state = "CS_CONNECTED", !.seq_nr = ISS,
                             !.fast_resend_seq_nr = FIRST_RESEND, !.max_window = OPT_SNDBUF]
    /\ got = {} /\ delayed = NULL /\ timeouts = 0

\* A handler leaves the socket as t; which packets it sent shows in outbuf.
Handled(t) == s' = [t EXCEPT !.out = {}, !.delivered = << >>]

Write ==
    /\ s.state = "CS_CONNECTED" /\ s.written < PACKETS
    /\ Handled(utp_writev(s, 1)) /\ UNCHANGED <<got, delayed, timeouts>>

\* Packet k was sent if it is in the send queue as sent or was acked before.
WasSentOnce(k) ==
    /\ k <= s.written
    /\ \A j \in 0 .. s.cur_window_packets - 1 :
           Nth(s, j) = WireSeq(k) => OutPkt(s, WireSeq(k)) = NULL \/ WasSent(OutPkt(s, WireSeq(k)))

Arrive(k) ==
    /\ k \notin got /\ WasSentOnce(k)
    /\ got' = got \cup {k} /\ UNCHANGED <<s, delayed, timeouts>>

\* The peer acks; the ack arrives at once.
Ack(back) ==
    /\ \E c \in Control(s, PeerAck(back)) : Handled(utp_process_incoming(s, PeerAck(back), c))
    /\ UNCHANGED <<got, delayed, timeouts>>

\* The peer acks; the network keeps the ack for now.
DelayAck(back) == delayed' = PeerAck(back) /\ UNCHANGED <<s, got, timeouts>>

LateAck ==
    /\ delayed # NULL
    /\ \E c \in Control(s, delayed) : Handled(utp_process_incoming(s, delayed, c))
    /\ UNCHANGED <<got, delayed, timeouts>>

RtoExpires ==
    /\ s.rto_timeout /\ timeouts < MaxTimeouts /\ timeouts' = timeouts + 1
    /\ Handled(check_timeouts(s, [rto |-> TRUE, zerowindow |-> FALSE,
                                  keepalive |-> FALSE, probe |-> FALSE]))
    /\ UNCHANGED <<got, delayed>>

CheckTimeouts ==
    /\ Handled(check_timeouts(s, [rto |-> FALSE, zerowindow |-> FALSE,
                                  keepalive |-> FALSE, probe |-> FALSE]))
    /\ UNCHANGED <<got, delayed, timeouts>>

Next ==
    \/ Write \/ LateAck \/ RtoExpires \/ CheckTimeouts
    \/ \E k \in 1 .. PACKETS : Arrive(k)
    \/ \E back \in {0, 1} : Ack(back) \/ DelayAck(back)

Spec == Init /\ [][Next]_vars

-------------------------------------------------------------------------------
QueuedPackets ==
    {p \in {OutPkt(s, Nth(s, k)) : k \in 0 .. s.cur_window_packets - 1} : p # NULL}

\* The send queue is in place: whatever the size of the circular buffer, every
\* packet that waits sits in the slot of its own sequence number and none is
\* outside the window (ensure_size, put and the counting of cur_window_packets).
QueueInPlace ==
    /\ \A k \in 0 .. s.cur_window_packets - 1 :
           LET p == OutPkt(s, Nth(s, k)) IN p # NULL => p.seq_nr = Nth(s, k)
    /\ \A j \in DOMAIN s.outbuf.elements :
           s.outbuf.elements[j] # NULL => s.outbuf.elements[j] \in QueuedPackets

\* A packet leaves the send queue only when the peer has it, by a cumulative,
\* a selective or a late ack (ack_packet, lines 1354-1425).
FreedOnlyIfReceived ==
    \A k \in 1 .. s.written : k \in got \/ \E p \in QueuedPackets : p.data = {k}

\* cur_window counts the bytes sent, not acked and not given up as lost.
WindowAccounting ==
    s.cur_window = Bytes({p \in QueuedPackets : p.transmissions > 0 /\ ~p.need_resend})

\* "This makes sure we only do a fast-resend once per packet": by selective
\* acks, after a timeout, or both (fast_resend_seq_nr, struct UTPSocket).
FastResendOnce == \A p \in QueuedPackets : p.fast <= 1

\* No assert of the sending half fails.
NoAssertFails == s.failed = {}

\* The newest packet is eligible for a fast resend until it had one ("we can
\* resend the packet with this sequence number or any later packet"): the
\* counter keeps up with the window and never overtakes it.
FreshPacketEligible ==
    \A p \in QueuedPackets : (p.seq_nr = Wrap(s.seq_nr - 1) /\ p.fast = 0) =>
        Wrap(p.seq_nr - s.fast_resend_seq_nr) <= OUTGOING_BUFFER_MAX_SIZE
===============================================================================
