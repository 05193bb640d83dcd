-------------------------------- MODULE UtpSend --------------------------------
(***************************************************************************)
(* The sending half of a UTPSocket: the outgoing window, its accounting,   *)
(* acks, selective acks and resends.  Socket records are those of          *)
(* UtpReceive, with these further fields:                                  *)
(*   written      bytes taken from the upper layer so far                  *)
(*   rto_timeout  TRUE when the retransmission timer is set                *)
(* An element of outbuf keeps the header fields that are stamped when the  *)
(* packet is built, its bytes, whether it was ever sent (transmissions,    *)
(* cut off at 1, the code tests nothing more), need_resend, and fast, the  *)
(* number of fast resends it had.  duplicate_ack is left out: it only      *)
(* steers the search for the path MTU.                                     *)
(***************************************************************************)
EXTENDS UtpReceive, FiniteSetsExt

CONSTANTS
    PacketSize,         \* get_packet_size(): payload bytes of a full packet
    PACKET_SIZE,        \* the macro: window assumed by the zero-window timer
    OPT_SNDBUF,         \* UTP_SNDBUF, in bytes
    MIN_WINDOW_SIZE     \* least congestion window, in bytes

ASSUME SendAssumption ==
    /\ PacketSize \in Nat \ {0} /\ PACKET_SIZE \in Nat /\ PacketSize <= PACKET_SIZE
    /\ OPT_SNDBUF \in Nat /\ MIN_WINDOW_SIZE \in Nat

Bytes(pkts) == Cardinality(UNION {p.data : p \in pkts})

\* The sequence number of the k-th packet of the send queue, oldest first.
Nth(s, k) == Wrap(s.seq_nr - s.cur_window_packets + k)
Oldest(s) == Nth(s, 0)

OutPkt(s, i) == get(s.outbuf, i)
WasSent(pkt) == pkt # NULL /\ pkt.transmissions > 0

\* No room for bytes more, when inflight bytes count against the window.
Full(s, inflight, bytes) ==
    \/ s.cur_window_packets >= OUTGOING_BUFFER_MAX_SIZE - 1
    \/ inflight + bytes > Min({s.max_window, OPT_SNDBUF, s.max_window_user})

\* is_full(bytes); is_full() asks for a whole packet.
is_full(s, bytes) == Full(s, s.cur_window, IF bytes > PacketSize THEN PacketSize ELSE bytes)

\* send_packet for every packet of the send queue numbered in I.
SendPackets(s, I) ==
    LET pkts == {OutPkt(s, i) : i \in I}
        slots == {Slot(i, s.outbuf.mask) : i \in I}
        wire(p) == [type |-> p.type, seq_nr |-> p.seq_nr, ack_nr |-> s.ack_nr,
                    wnd |-> p.wnd, ext |-> FALSE, sack |-> {}, data |-> p.data]
        counted == {p \in pkts : p.transmissions = 0 \/ p.need_resend}
    IN  [s EXCEPT !.cur_window = @ + Bytes(counted),
                  !.outbuf.elements = [j \in DOMAIN @ |->
                      IF j \in slots
                      THEN [@[j] EXCEPT !.transmissions = 1, !.need_resend = FALSE]
                      ELSE @[j]],
                  !.out = @ \cup {wire(p) : p \in pkts},
                  !.ida = @ /\ I = {}]

send_packet(s, i) == SendPackets(s, {i})

\* A resend that the fast_resend_seq_nr rule allows once per packet.
FastResend(s, I) ==
    LET s1 == SendPackets(s, I)
    IN  [s1 EXCEPT !.outbuf.elements = [j \in DOMAIN @ |->
            IF \E i \in I : j = Slot(i, s.outbuf.mask) THEN [@[j] EXCEPT !.fast = @ + 1] ELSE @[j]]]

\* Places in the send queue of the packets flush_packets considers: not sent
\* yet or marked for resend.
Waiting(s) == {k \in 0 .. s.cur_window_packets - 1 :
                   LET p == OutPkt(s, Nth(s, k))
                   IN  p # NULL /\ (p.transmissions = 0 \/ p.need_resend)}

\* Nagle: the last packet goes out alone or full.
NagleAllows(s, k) ==
    \/ k # s.cur_window_packets - 1
    \/ s.cur_window_packets = 1
    \/ Cardinality(OutPkt(s, Nth(s, k)).data) >= PacketSize

\* Sends the waiting packets in order until the window is full.
flush_packets(s) ==
    LET due == {k \in Waiting(s) : NagleAllows(s, k)}
        before(k) == {OutPkt(s, Nth(s, j)) : j \in {i \in due : i < k}}
        sent == {k \in due : ~Full(s, s.cur_window + Bytes(before(k)), PacketSize)}
    IN  SendPackets(s, {Nth(s, k) : k \in sent})

-------------------------------------------------------------------------------
\* Mutant of Room: the last packet is filled although it was sent already.
RoomAfterSend(s, n) ==
    LET last == OutPkt(s, s.seq_nr - 1)
    IN  IF s.cur_window_packets > 0 /\ last # NULL /\ Cardinality(last.data) < PacketSize
        THEN Min({n, PacketSize - Cardinality(last.data)}) ELSE 0

\* Fills the last packet, if it was not sent yet, with up to n bytes.
Room(s, n) ==
    LET last == OutPkt(s, s.seq_nr - 1)
    IN  IF /\ s.cur_window_packets > 0 /\ last # NULL
           /\ last.transmissions = 0 /\ Cardinality(last.data) < PacketSize
        THEN Min({n, PacketSize - Cardinality(last.data)}) ELSE 0

FillLast(s, n, flags) ==
    LET slot == Slot(s.seq_nr - 1, s.outbuf.mask)
        wnd == get_rcv_window(s)
    IN  IF n = 0 THEN s
        ELSE [s EXCEPT !.outbuf.elements[slot].data = @ \cup (s.written + 1 .. s.written + n),
                       !.outbuf.elements[slot].type = flags,
                       !.outbuf.elements[slot].wnd = wnd,
                       !.last_rcv_win = wnd, !.written = @ + n]

AppendPacket(s, n, flags) ==
    LET wnd == get_rcv_window(s)
        pkt == [type |-> flags, seq_nr |-> s.seq_nr, wnd |-> wnd,
                data |-> s.written + 1 .. s.written + n,
                transmissions |-> 0, need_resend |-> FALSE, fast |-> 0]
        s1 == Assert(s, "outgoing buffer has room",
                     s.cur_window_packets < OUTGOING_BUFFER_MAX_SIZE)
    IN  [s1 EXCEPT !.outbuf = put(ensure_size(@, s.seq_nr, s.cur_window_packets), s.seq_nr, pkt),
                   !.last_rcv_win = wnd, !.written = @ + n,
                   !.seq_nr = Wrap(@ + 1), !.cur_window_packets = @ + 1]

\* The retransmission timer is set when the queue was empty.
StartTimer(s) ==
    IF s.cur_window_packets # 0 THEN s
    ELSE Assert([s EXCEPT !.rto_timeout = TRUE], "idle window is empty", s.cur_window = 0)

\* n of the bytes go to the last packet, the others to a new one.
QueuePayload(s, n, payload, flags) ==
    IF payload > 0 /\ n = payload THEN FillLast(s, n, flags)
    ELSE AppendPacket(FillLast(s, n, flags), payload - n, flags)

\* payload is at most one packet, so the loop runs once or twice.
write_outgoing_packet(s, payload, flags) ==
    flush_packets(QueuePayload(StartTimer(s), Room(s, payload), payload, flags))

-------------------------------------------------------------------------------
\* Mutant of AckPackets: bytes given up as lost are subtracted once more.
AckCountsLost(s, I) ==
    LET pkts == {OutPkt(s, i) : i \in I}
        slots == {Slot(i, s.outbuf.mask) : i \in I}
    IN  IF I = {} THEN s
        ELSE [s EXCEPT !.outbuf.elements = [j \in DOMAIN @ |-> IF j \in slots THEN NULL ELSE @[j]],
                       !.cur_window = @ - Bytes(pkts),
                       !.rto_timeout = TRUE, !.retransmit_count = 0]

\* ack_packet for the packets of the send queue numbered in I, all sent before.
AckPackets(s, I) ==
    LET pkts == {OutPkt(s, i) : i \in I}
        slots == {Slot(i, s.outbuf.mask) : i \in I}
        counted == Bytes({p \in pkts : ~p.need_resend})
        s1 == Assert(s, "acked bytes are in flight", s.cur_window >= counted)
    IN  IF I = {} THEN s
        ELSE [s1 EXCEPT !.outbuf.elements = [j \in DOMAIN @ |-> IF j \in slots THEN NULL ELSE @[j]],
                        !.cur_window = @ - counted,
                        !.rto_timeout = TRUE, !.retransmit_count = 0]

\* The oldest packet still waits for its ack.
OldestPresent(s) == s.cur_window_packets = 0 \/ OutPkt(s, Oldest(s)) # NULL
AssertOldest(s) == Assert(s, "oldest packet is present", OldestPresent(s))
AssertEmpty(s) ==
    Assert(s, "empty window has no bytes", s.cur_window_packets = 0 => s.cur_window = 0)

\* Mutant of AckOldest: packets acked selectively before are not skipped.
AckWithoutSkip(s, acks) ==
    LET Unsent(k) == LET p == OutPkt(s, Nth(s, k)) IN p # NULL /\ p.transmissions = 0
        n == Min({acks} \cup {k \in 0 .. acks - 1 : Unsent(k)})
        gone == {k \in 0 .. n - 1 : OutPkt(s, Nth(s, k)) # NULL}
    IN  AssertOldest([AckPackets(s, {Nth(s, k) : k \in gone}) EXCEPT !.cur_window_packets = @ - n])

\* Acks the oldest packets, up to one that was never sent, then skips the
\* packets that selective acks have removed already.
AckOldest(s, acks) ==
    LET Unsent(k) == LET p == OutPkt(s, Nth(s, k)) IN p # NULL /\ p.transmissions = 0
        n == Min({acks} \cup {k \in 0 .. acks - 1 : Unsent(k)})
        gone == {k \in 0 .. n - 1 : OutPkt(s, Nth(s, k)) # NULL}
        skip == Min({s.cur_window_packets} \cup
                    {k \in n .. s.cur_window_packets - 1 : OutPkt(s, Nth(s, k)) # NULL})
    IN  AssertOldest(AssertEmpty(
            [AckPackets(s, {Nth(s, k) : k \in gone}) EXCEPT !.cur_window_packets = @ - skip]))

\* A packet that Nagle held back goes out when it is the only one left.
FlushNagle(s) ==
    LET pkt == OutPkt(s, s.seq_nr - 1)
    IN  IF s.cur_window_packets # 1 THEN s
        ELSE IF pkt = NULL THEN Assert(s, "flush Nagle: pkt is not null", FALSE)
        ELSE IF pkt.transmissions = 0 THEN send_packet(s, Wrap(s.seq_nr - 1)) ELSE s

\* Mutants of FastTimeout: the counter of fast resends stays, or moves twice.
FastTimeoutAgain(s) ==
    IF s.fast_timeout /\ Oldest(s) = s.fast_resend_seq_nr /\ WasSent(OutPkt(s, Oldest(s)))
    THEN FastResend(s, {Oldest(s)}) ELSE s
FastTimeoutSkips(s) ==
    IF s.fast_timeout /\ Oldest(s) = s.fast_resend_seq_nr /\ WasSent(OutPkt(s, Oldest(s)))
    THEN FastResend([s EXCEPT !.fast_resend_seq_nr = Wrap(@ + 2)], {Oldest(s)}) ELSE s

\* After a timeout each ack resends the next oldest packet, once.
FastTimeout(s) ==
    IF ~s.fast_timeout THEN s
    ELSE IF Oldest(s) # s.fast_resend_seq_nr THEN [s EXCEPT !.fast_timeout = FALSE]
    ELSE IF WasSent(OutPkt(s, Oldest(s)))
    THEN FastResend([s EXCEPT !.fast_resend_seq_nr = Wrap(@ + 1)], {Oldest(s)})
    ELSE s

\* Halves the congestion window, unless it was halved less than
\* MAX_WINDOW_DECAY milliseconds ago (decay is FALSE).
maybe_decay_win(s, decay) ==
    IF decay THEN [s EXCEPT !.max_window = Max({@ \div 2, MIN_WINDOW_SIZE})] ELSE s

\* The first four of the lost packets that are still there are resent.
ResendLost(s, base, lost, decay) ==
    LET present == {b \in lost : OutPkt(s, base + b) # NULL}
        resent == {b \in present : Cardinality({r \in present : r < b}) < 4}
    IN  IF resent = {} THEN s
        ELSE maybe_decay_win([FastResend(s, {base + b : b \in resent})
                 EXCEPT !.fast_resend_seq_nr = Wrap(base + Max(resent) + 1)], decay)

\* Bit b of the mask stands for packet base + b; base is ack_nr + 2.
selective_ack(s, base, mask, decay) ==
    LET Accepted(b) == Wrap(s.seq_nr - (base + b) - 1) < s.cur_window_packets - 1
        Allowed(b) == Wrap(base + b - s.fast_resend_seq_nr) <= OUTGOING_BUFFER_MAX_SIZE
        hits == {b \in mask : Accepted(b)}
        count(b) == Cardinality({h \in hits : h > b})
        acked == {b \in hits : WasSent(OutPkt(s, base + b))}
        s1 == Assert(s, "selective ack spares the oldest packet",
                     \A b \in acked : Slot(base + b, s.outbuf.mask) # Slot(Oldest(s), s.outbuf.mask))
        lost == {b \in -1 .. 31 \ mask :
                     /\ Allowed(b) /\ count(b) >= DUPLICATE_ACKS_BEFORE_RESEND
                     /\ b = -1 \/ (Accepted(b) /\ WasSent(OutPkt(s, base + b)))}
    IN  IF s.cur_window_packets = 0 THEN s
        ELSE ResendLost(AckPackets(s1, {base + b : b \in acked}), base, lost, decay)

\* Every packet in flight is considered lost.
MarkLost(s) ==
    LET lost == {k \in 0 .. s.cur_window_packets - 1 :
                     LET p == OutPkt(s, Nth(s, k)) IN WasSent(p) /\ ~p.need_resend}
        slots == {Slot(Nth(s, k), s.outbuf.mask) : k \in lost}
        counted == Bytes({OutPkt(s, Nth(s, k)) : k \in lost})
        s1 == Assert(s, "lost bytes are in flight", s.cur_window >= counted)
    IN  [s1 EXCEPT !.outbuf.elements = [j \in DOMAIN @ |->
                       IF j \in slots THEN [@[j] EXCEPT !.need_resend = TRUE] ELSE @[j]],
                   !.cur_window = @ - counted]


ResendOldest(s) ==
    IF s.cur_window_packets = 0 THEN s
    ELSE [send_packet(s, Oldest(s)) EXCEPT !.retransmit_count = @ + 1, !.fast_timeout = TRUE]

\* The retransmission timer expired and the connection is kept.  ignore_loss:
\* the only packet in flight was an MTU probe.
Retransmit(s, ignore_loss) ==
    ResendOldest(MarkLost(
        IF ignore_loss THEN s
        ELSE [s EXCEPT !.max_window = IF s.cur_window_packets = 0 /\ @ > PacketSize
                                      THEN Max({(@ * 2) \div 3, PacketSize}) ELSE PacketSize]))
===============================================================================
