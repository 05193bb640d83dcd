------------------------------- MODULE UtpSocket -------------------------------
(***************************************************************************)
(* A whole UTPSocket: the handlers of utp_internal.cpp that the context    *)
(* and the upper layer call, as operators from a socket record to the one  *)
(* they leave behind.  Besides the fields of UtpReceive and UtpSend:       *)
(*   state    the CONN_STATE, "NONE" before and "FREED" after its lifetime *)
(*   connected, err, closed   what the callbacks and Close leave in the    *)
(*            Go Conn on top: gotConnect, err # nil, closed                *)
(***************************************************************************)
EXTENDS UtpSend

CONN_STATE == {"CS_SYN_SENT", "CS_SYN_RECV", "CS_CONNECTED", "CS_CONNECTED_FULL",
               "CS_RESET", "CS_DESTROY"}

Established == {"CS_CONNECTED", "CS_CONNECTED_FULL"}

\* utp_create_socket and utp_initialize_socket.
NewSocket ==
    [state |-> "CS_IDLE", seq_nr |-> 1, ack_nr |-> 0,
     inbuf |-> EmptyBuffer, outbuf |-> EmptyBuffer, reorder_count |-> 0,
     got_fin |-> FALSE, got_fin_reached |-> FALSE, eof_pkt |-> 0,
     fin_sent |-> FALSE, fin_sent_acked |-> FALSE,
     read_shutdown |-> FALSE, close_requested |-> FALSE,
     fast_timeout |-> FALSE, fast_resend_seq_nr |-> 1,
     rto_timeout |-> FALSE, retransmit_count |-> 0,
     cur_window |-> 0, cur_window_packets |-> 0,
     max_window |-> PacketSize, max_window_user |-> 255 * PACKET_SIZE,
     last_rcv_win |-> 0, ida |-> FALSE,
     connected |-> FALSE, err |-> FALSE, closed |-> FALSE,
     readbuf |-> 0, delivered |-> << >>, written |-> 0, out |-> {}, failed |-> {}]

NoSocket == [NewSocket EXCEPT !.state = "NONE"]

\* The destructor: only what the Go Conn and the stream know is left.
Freed(s) == [NoSocket EXCEPT !.state = "FREED", !.err = s.err, !.closed = s.closed,
                 !.connected = s.connected, !.readbuf = s.readbuf,
                 !.delivered = s.delivered, !.written = s.written,
                 !.got_fin_reached = s.got_fin_reached, !.fin_sent = s.fin_sent,
                 !.fin_sent_acked = s.fin_sent_acked, !.read_shutdown = s.read_shutdown,
                 !.failed = s.failed]

\* Mutant of utp_connect: the retransmission timer is not set.
ConnectWithoutTimer(isn) ==
    LET syn == [type |-> "ST_SYN", seq_nr |-> isn, wnd |-> OPT_RCVBUF, data |-> {},
                transmissions |-> 0, need_resend |-> FALSE, fast |-> 0]
    IN  send_packet([NewSocket EXCEPT !.state = "CS_SYN_SENT", !.seq_nr = Wrap(isn + 1),
                         !.last_rcv_win = OPT_RCVBUF,
                         !.outbuf = put(EmptyBuffer, isn, syn), !.cur_window_packets = 1], isn)

utp_connect(isn) ==
    LET wnd == get_rcv_window(NewSocket)
        syn == [type |-> "ST_SYN", seq_nr |-> isn, wnd |-> wnd, data |-> {},
                transmissions |-> 0, need_resend |-> FALSE, fast |-> 0]
    IN  send_packet([NewSocket EXCEPT !.state = "CS_SYN_SENT", !.rto_timeout = TRUE,
                         !.last_rcv_win = wnd, !.seq_nr = Wrap(isn + 1),
                         !.outbuf = put(EmptyBuffer, isn, syn), !.cur_window_packets = 1], isn)

\* utp_process_udp for a SYN that no socket exists for.
Accept(pk, isn) ==
    send_ack([NewSocket EXCEPT !.state = "CS_SYN_RECV", !.ack_nr = pk.seq_nr,
                  !.seq_nr = isn, !.fast_resend_seq_nr = isn])

-------------------------------------------------------------------------------
\* One turn of utp_writev's loop; w.left bytes are left to write.
WriteTurn(w) ==
    LET n == Min({w.left, PacketSize})
    IN  IF w.at # "loop" THEN w
        ELSE IF is_full(w.s, n) THEN [w EXCEPT !.at = "full"]
        ELSE [s |-> write_outgoing_packet(w.s, n, "ST_DATA"), left |-> w.left - n,
              at |-> IF w.left = n THEN "done" ELSE "loop"]

\* A socket that could not take everything is not writable any more.
WriteEnds(w) ==
    IF w.at = "full" /\ is_full(w.s, PacketSize)
    THEN [w.s EXCEPT !.state = "CS_CONNECTED_FULL"] ELSE w.s

utp_writev(s, bytes) ==
    LET turn(i, w) == WriteTurn(w)
    IN  IF s.state # "CS_CONNECTED" \/ s.fin_sent THEN s
        ELSE WriteEnds(FoldSet(turn, [s |-> s, left |-> bytes, at |-> "loop"], 0 .. bytes))

SendFin(s) ==
    IF s.fin_sent THEN s ELSE write_outgoing_packet([s EXCEPT !.fin_sent = TRUE], 0, "ST_FIN")

utp_close(s) ==
    LET s0 == Assert(s, "utp_close: socket is alive", s.state # "CS_DESTROY")
        s1 == [s0 EXCEPT !.read_shutdown = TRUE, !.close_requested = TRUE]
    IN  IF s.state \notin Established
        THEN [s0 EXCEPT !.state = "CS_DESTROY", !.rto_timeout = @ \/ s.state = "CS_SYN_SENT"]
        ELSE IF s.fin_sent /\ s.fin_sent_acked THEN [s1 EXCEPT !.state = "CS_DESTROY"]
        ELSE SendFin(s1)

\* how is a subset of {"RD", "WR"}.
utp_shutdown(s, how) ==
    LET s1 == [s EXCEPT !.read_shutdown = @ \/ "RD" \in how]
    IN  IF "WR" \notin how THEN s1
        ELSE IF s.state \in Established THEN SendFin(s1)
        ELSE [s1 EXCEPT !.rto_timeout = @ \/ s.state = "CS_SYN_SENT"]

\* An RST, an ICMP error or the last timeout: the connection is given up.
Abort(s) == [s EXCEPT !.state = IF s.close_requested THEN "CS_DESTROY" ELSE "CS_RESET",
                      !.err = TRUE]

-------------------------------------------------------------------------------
\* The ack is not for a packet we have yet to send, nor too old.
ValidAck(s, pk) ==
    /\ ~Less(s.seq_nr - 1, pk.ack_nr)
    /\ ~Less(pk.ack_nr, s.seq_nr - 1 - (s.cur_window_packets + ACK_NR_ALLOWED_WINDOW))

\* Mutant of Acks: one packet too many.
AcksOneMore(s, pk) ==
    LET acks == Wrap(pk.ack_nr + 1 - (s.seq_nr - 1 - s.cur_window_packets))
    IN  IF acks > s.cur_window_packets THEN 0 ELSE acks

\* The number of packets acked; 0 for an old ack.
Acks(s, pk) ==
    LET acks == Wrap(pk.ack_nr - (s.seq_nr - 1 - s.cur_window_packets))
    IN  IF acks > s.cur_window_packets THEN 0 ELSE acks

\* Some byte is newly acked, so the congestion controller may run.  Bit 32 of
\* a selective ack is past its end: the byte read there is arbitrary.
AcksBytes(s, pk) ==
    LET sacked == {b \in pk.sack \cup (IF pk.ext THEN {32} ELSE {}) :
                       Wrap(s.seq_nr - (pk.ack_nr + 2 + b) - 1) < s.cur_window_packets - 1}
        seqs == {Nth(s, k) : k \in 0 .. Acks(s, pk) - 1} \cup {pk.ack_nr + 2 + b : b \in sacked}
    IN  \E i \in seqs : WasSent(OutPkt(s, i)) /\ OutPkt(s, i).data # {}

\* Mutants of Handshake: any ack after our FIN counts as its ack; the socket of
\* a closed connection stays after the FIN was acked.
FinAckedByAny(s, pk, acks) ==
    IF pk.type = "ST_STATE" /\ s.state = "CS_SYN_SENT"
    THEN utp_writev([s EXCEPT !.state = "CS_CONNECTED", !.connected = TRUE], 0)
    ELSE LET s1 == IF pk.type = "ST_DATA" /\ s.state = "CS_SYN_RECV"
                   THEN [s EXCEPT !.state = "CS_CONNECTED"] ELSE s
         IN  IF ~s.fin_sent THEN s1
             ELSE [s1 EXCEPT !.fin_sent_acked = TRUE,
                             !.state = IF s.close_requested THEN "CS_DESTROY" ELSE @]
FinAckedStays(s, pk, acks) ==
    IF pk.type = "ST_STATE" /\ s.state = "CS_SYN_SENT"
    THEN utp_writev([s EXCEPT !.state = "CS_CONNECTED", !.connected = TRUE], 0)
    ELSE LET s1 == IF pk.type = "ST_DATA" /\ s.state = "CS_SYN_RECV"
                   THEN [s EXCEPT !.state = "CS_CONNECTED"] ELSE s
         IN  [s1 EXCEPT !.fin_sent_acked = @ \/ (s.fin_sent /\ s.cur_window_packets = acks)]

\* A connection is completed, or everything including our FIN is acked.
Handshake(s, pk, acks) ==
    IF pk.type = "ST_STATE" /\ s.state = "CS_SYN_SENT"
    THEN utp_writev([s EXCEPT !.state = "CS_CONNECTED", !.connected = TRUE], 0)
    ELSE LET s1 == IF pk.type = "ST_DATA" /\ s.state = "CS_SYN_RECV"
                   THEN [s EXCEPT !.state = "CS_CONNECTED"] ELSE s
         IN  IF ~(s.fin_sent /\ s.cur_window_packets = acks) THEN s1
             ELSE [s1 EXCEPT !.fin_sent_acked = TRUE,
                             !.state = IF s.close_requested THEN "CS_DESTROY" ELSE @]

UpdateFastResend(s, pk) ==
    IF Less(s.fast_resend_seq_nr, pk.ack_nr + 1)
    THEN [s EXCEPT !.fast_resend_seq_nr = Wrap(pk.ack_nr + 1)] ELSE s

Writable(s) ==
    IF s.state = "CS_CONNECTED_FULL" /\ ~is_full(s, PacketSize)
    THEN [s EXCEPT !.state = "CS_CONNECTED"] ELSE s

\* The windows the ack leaves.  c.wnd is the one the congestion controller
\* chooses, when it runs.
UpdateWindows(s, pk, c) ==
    [s EXCEPT !.max_window = IF AcksBytes(s, pk) THEN c.wnd ELSE @, !.max_window_user = pk.wnd]

SelectiveAck(s, pk, c) ==
    IF pk.ext THEN selective_ack(s, pk.ack_nr + 2, pk.sack, c.decay) ELSE s

\* The part of utp_process_incoming that works on the send queue.
ProcessAck(s, pk, c) ==
    LET shaken == UpdateFastResend(Handshake(UpdateWindows(s, pk, c), pk, Acks(s, pk)), pk)
        acked == FastTimeout(FlushNagle(AckOldest(shaken, Acks(s, pk))))
    IN  Writable(AssertOldest(SelectiveAck(acked, pk, c)))

\* The part that works on the payload.
ProcessPayload(s, pk) ==
    IF pk.type = "ST_STATE" \/ s.state \notin Established THEN s ELSE ReceivePayload(s, pk)

ProcessPacket(s, pk, c) ==
    IF Ahead(s, pk) >= REORDER_BUFFER_MAX_SIZE THEN OldPacket(s, pk)
    ELSE ProcessPayload(ProcessAck(s, pk, c), pk)

utp_process_incoming(s, pk, c) ==
    IF ~ValidAck(s, pk) THEN s
    ELSE ProcessPacket(IF s.state = "CS_SYN_SENT" THEN [s EXCEPT !.ack_nr = Wrap(pk.seq_nr - 1)]
                       ELSE s, pk, c)

\* The windows the congestion controller can leave.
Control(s, pk) ==
    [wnd : IF AcksBytes(s, pk) THEN {s.max_window} \cup MIN_WINDOW_SIZE .. OPT_SNDBUF
           ELSE {s.max_window}, decay : IF pk.ext THEN BOOLEAN ELSE {FALSE}]

-------------------------------------------------------------------------------
\* The retransmission timer expired.
Expire(s, ignore_loss) ==
    IF s.state = "CS_SYN_RECV" THEN [s EXCEPT !.state = "CS_DESTROY", !.err = TRUE]
    ELSE IF s.retransmit_count >= 4 \/ (s.state = "CS_SYN_SENT" /\ s.retransmit_count >= 2)
    THEN Abort(s)
    ELSE Retransmit(s, ignore_loss)

Gone(s) == s.state \in {"CS_RESET", "CS_DESTROY"}

FlushLive(s) == IF s.state # "CS_DESTROY" THEN flush_packets(s) ELSE s

EndZeroWindow(s, t) ==
    IF t.zerowindow /\ s.max_window_user = 0 THEN [s EXCEPT !.max_window_user = PACKET_SIZE] ELSE s

CheckRto(s, t) ==
    IF t.rto /\ s.rto_timeout THEN Expire(s, t.probe /\ s.cur_window_packets = 1) ELSE s

CheckKeepAlive(s, t) ==
    IF s.state \in Established /\ ~s.fin_sent /\ t.keepalive THEN send_keep_alive(s) ELSE s

AfterRto(s, t) == IF Gone(s) THEN s ELSE CheckKeepAlive(Writable(s), t)
CheckTimers(s, t) == IF Gone(s) THEN s ELSE AfterRto(CheckRto(EndZeroWindow(s, t), t), t)

\* The timers t: rto has expired, the zero-window time is over, the keep-alive
\* is due; probe: the last packet was an MTU probe.
check_timeouts(s, t) == CheckTimers(FlushLive(AssertOldest(s)), t)

Reap(s) == IF s.state = "CS_DESTROY" THEN [Freed(s) EXCEPT !.out = s.out] ELSE s

\* utp_check_timeouts for one socket: it is deleted when it is done.
Tick(s, t) == Reap(check_timeouts(s, t))
===============================================================================
