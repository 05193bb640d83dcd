------------------------------- MODULE UtpReceive -------------------------------
(***************************************************************************)
(* The receiving half of a UTPSocket: acks, the reorder buffer and the end *)
(* of the stream.  Handlers are operators from a socket record s (and a    *)
(* packet) to the socket record they leave behind.  Fields keep the names  *)
(* of the struct; the others are:                                          *)
(*   ida       TRUE when the socket is on the context's ack list           *)
(*   readbuf   bytes the upper layer holds and has not read                *)
(*   delivered one entry per packet consumed in order: the bytes given to  *)
(*             on_read for it, {} when there was no upcall                 *)
(*   out       packets passed to sendto by the handler                     *)
(*   failed    the assertions that did not hold                            *)
(* A payload is the set of the stream positions of its bytes.              *)
(***************************************************************************)
EXTENDS UtpSeq, CircularBuffer, Sequences, FiniteSets

CONSTANT OPT_RCVBUF     \* UTP_RCVBUF, in bytes

ASSUME RcvbufAssumption == OPT_RCVBUF \in Nat

Assert(s, name, holds) == IF holds THEN s ELSE [s EXCEPT !.failed = @ \cup {name}]

\* Mutant of get_rcv_window: a full read buffer is not special.
WindowUnclamped(s) == OPT_RCVBUF - s.readbuf

get_rcv_window(s) == IF OPT_RCVBUF > s.readbuf THEN OPT_RCVBUF - s.readbuf ELSE 0

schedule_ack(s) == [s EXCEPT !.ida = TRUE]

\* Mutant of SackWindow: the mask is not cut off at the size of the buffer.
SackWindowUncut(b) == 30

\* Number of sequence numbers past ack_nr + 1 that an EACK mask describes.
SackWindow(b) == IF b.mask + 1 < 30 THEN b.mask + 1 ELSE 30

\* The bits of the EACK mask: bit i stands for packet ack_nr + 2 + i.
SackBits(s) == {i \in 0 .. SackWindow(s.inbuf) - 1 : get(s.inbuf, s.ack_nr + i + 2) # NULL}

send_ack(s) ==
    LET ext == s.reorder_count # 0 /\ ~s.got_fin_reached
        wnd == get_rcv_window(s)
        pfa == [type |-> "ST_STATE", seq_nr |-> s.seq_nr, ack_nr |-> s.ack_nr,
                wnd |-> wnd, ext |-> ext,
                sack |-> IF ext THEN SackBits(s) ELSE {}, data |-> {}]
        s1 == Assert(s, "send_ack: ack_nr + 1 not buffered",
                     ext => get(s.inbuf, s.ack_nr + 1) = NULL)
    IN  [s1 EXCEPT !.last_rcv_win = wnd, !.out = @ \cup {pfa}, !.ida = FALSE]

\* Mutants of send_keep_alive: ack_nr is not restored or
\* is moved back by two.
KeepAliveForgets(s) == send_ack([s EXCEPT !.ack_nr = Wrap(@ - 1)])
KeepAliveTwoBack(s) == [send_ack([s EXCEPT !.ack_nr = Wrap(@ - 2)]) EXCEPT !.ack_nr = s.ack_nr]

send_keep_alive(s) ==
    [send_ack([s EXCEPT !.ack_nr = Wrap(@ - 1)]) EXCEPT !.ack_nr = s.ack_nr]

utp_read_drained(s) ==
    IF get_rcv_window(s) <= s.last_rcv_win THEN s
    ELSE IF s.last_rcv_win = 0 THEN send_ack(s) ELSE schedule_ack(s)

-------------------------------------------------------------------------------
\* How many packets past the expected one this packet is.
Ahead(s, pk) == Wrap(pk.seq_nr - s.ack_nr - 1)

GotFin(s, pk) ==
    IF pk.type = "ST_FIN" /\ ~s.got_fin
    THEN [s EXCEPT !.got_fin = TRUE, !.eof_pkt = pk.seq_nr] ELSE s

\* Mutant of Posted: bytes are delivered although reading was shut down.
PostedAlways(s, data) == data

\* What on_read gets of a payload; with no bytes there is no upcall.
Posted(s, data) == IF s.read_shutdown THEN {} ELSE data

\* Mutants of EofAt: a FIN that arrives in order is overlooked; eof_pkt is
\* compared before there is a FIN.
EofWithoutFin(s, j) == ~s.got_fin_reached /\ s.eof_pkt = Wrap(s.ack_nr + j)
EofOnlyInLoop(s, j) == j > 0 /\ ~s.got_fin_reached /\ s.got_fin /\ s.eof_pkt = Wrap(s.ack_nr + j)

\* After j packets of the reorder buffer were delivered the FIN is reached.
EofAt(s, j) == ~s.got_fin_reached /\ s.got_fin /\ s.eof_pkt = Wrap(s.ack_nr + j)

\* The delivery loop leaves after j packets of the reorder buffer.
DrainStops(s, j) ==
    \/ EofAt(s, j)
    \/ s.reorder_count - j = 0
    \/ get(s.inbuf, s.ack_nr + 1 + j) = NULL

Drained(s) ==
    CHOOSE n \in 0 .. s.reorder_count :
        DrainStops(s, n) /\ \A j \in 0 .. n - 1 : ~DrainStops(s, j)

\* The slots of the packets ack_nr + 1 .. ack_nr + n are emptied.
Emptied(s, n) ==
    [mask |-> s.inbuf.mask,
     elements |-> [j \in 0 .. s.inbuf.mask |->
         IF Slot(j - s.ack_nr - 1, s.inbuf.mask) < n THEN NULL ELSE s.inbuf.elements[j]]]

\* The FIN is reached: post EOF, ack at once, forget the packets after it.
ReachFin(s) ==
    [send_ack([s EXCEPT !.got_fin_reached = TRUE, !.rto_timeout = TRUE])
        EXCEPT !.reorder_count = 0]

\* Deliver the packets that follow ack_nr without a gap.
Drain(s) ==
    LET n == Drained(s)
        posted == [i \in 1 .. n |-> Posted(s, get(s.inbuf, s.ack_nr + i))]
        s1 == [s EXCEPT !.ack_nr = Wrap(@ + n), !.inbuf = Emptied(s, n),
                        !.reorder_count = @ - n,
                        !.delivered = @ \o posted,
                        !.readbuf = @ + Cardinality(UNION {posted[i] : i \in 1 .. n})]
    IN  IF EofAt(s, n) THEN ReachFin(s1) ELSE s1

InOrder(s, pk) ==
    LET posted == Posted(s, pk.data)
    IN  schedule_ack(Drain([s EXCEPT !.ack_nr = Wrap(@ + 1),
                                     !.delivered = Append(@, posted),
                                     !.readbuf = @ + Cardinality(posted)]))

OutOfOrder(s, pk) ==
    LET inbuf == ensure_size(s.inbuf, pk.seq_nr + 1, Ahead(s, pk) + 1)
        s1 == Assert([s EXCEPT !.inbuf = inbuf], "inbuf: slot of ack_nr + 1 is free",
                     Slot(pk.seq_nr, inbuf.mask) # Slot(s.ack_nr + 1, inbuf.mask))
    IN  IF (s.got_fin /\ pk.seq_nr > s.eof_pkt) \/ Ahead(s, pk) > 1023 THEN s
        ELSE IF get(inbuf, pk.seq_nr) # NULL THEN [s EXCEPT !.inbuf = inbuf]
        ELSE schedule_ack([s1 EXCEPT !.inbuf = put(inbuf, pk.seq_nr, pk.data),
                                     !.reorder_count = @ + 1])

\* Mutant of ReceivePayload: a gap before the packet is not noticed.
ReceiveAnyOrder(s, pk) == InOrder(GotFin(s, pk), pk)

\* The end of utp_process_incoming: a DATA or FIN packet of a connected socket.
ReceivePayload(s, pk) ==
    LET s1 == GotFin(s, pk)
    IN  IF Ahead(s, pk) = 0 THEN InOrder(s1, pk) ELSE OutOfOrder(s1, pk)

\* A packet whose sequence number is outside the reorder window is dropped,
\* and acked again when it is one that was received before.
OldPacket(s, pk) ==
    IF Ahead(s, pk) >= 65536 - REORDER_BUFFER_MAX_SIZE /\ pk.type # "ST_STATE"
    THEN schedule_ack(s) ELSE s
===============================================================================
