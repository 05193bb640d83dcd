-------------------------- MODULE UtpReceiverLemmas ---------------------------
(***************************************************************************)
(* The inductive invariant of the receiving half of a socket, and the      *)
(* handlers that keep it without consuming a packet: acks, keep-alives,    *)
(* reads, the FIN, and packets stored ahead of the expected one.           *)
(***************************************************************************)
EXTENDS UtpReceiver, CircularBufferProofs, FiniteSetTheorems, SequenceTheorems

\* The number of packets consumed by a socket t, the content of the slot of
\* packet k, and the packets in the reorder buffer.
Done(t) == Len(t.delivered)
Cell(t, k) == get(t.inbuf, WireSeq(k))
Held(t) == {k \in Done(t) .. Done(t) + t.inbuf.mask : Cell(t, k) # NULL}

\* The acks a socket has sent in this step claim only packets it holds.
AcksTruthful(t) ==
    \A pfa \in t.out : \A i \in pfa.sack : \E k \in Held(t) : Wrap(pfa.ack_nr + 2 + i) = WireSeq(k)

\* The facts that hold all the time, also inside the delivery loop.
Core(t) ==
    /\ t.inbuf.mask \in Masks /\ t \in Socket(t.inbuf.mask)
    /\ t.ack_nr = WireSeq(Done(t))
    /\ Done(t) <= LAST
    /\ \A i \in 1 .. Done(t) : \/ t.delivered[i] = Payload[i]
                               \/ t.read_shutdown /\ t.delivered[i] = {}
    /\ Cell(t, Done(t)) = NULL
    /\ \A k \in Held(t) : k <= LAST /\ Cell(t, k) = Payload[k]
    /\ t.reorder_count = Cardinality(Held(t))
    /\ t.got_fin => HASFIN /\ t.eof_pkt = WireSeq(LAST) /\ LAST <= Done(t) + 1024
    /\ HASFIN /\ (LAST = Done(t) \/ LAST \in Held(t)) => t.got_fin
    /\ AcksTruthful(t)
    /\ t.failed = {}

\* The inductive invariant: between two handlers the next packet is missing,
\* and EOF was posted when everything is consumed.
IInv(t) ==
    /\ Core(t)
    /\ Cell(t, Done(t) + 1) = NULL
    /\ t.got_fin_reached <=> HASFIN /\ Done(t) = LAST

\* At the start of the delivery loop: one packet was consumed, so the slot one
\* buffer before the next packet's is free.
Mid(t) ==
    /\ Core(t)
    /\ Cell(t, Done(t) + t.inbuf.mask) = NULL
    /\ ~t.got_fin_reached
    /\ t.out = {}

-------------------------------------------------------------------------------
\* The constants as numbers and bounds.
LEMMA ConstantTypes ==
    /\ IRS \in Nat /\ IRS <= 65535 /\ LAST \in Nat
    /\ REORDER_BUFFER_MAX_SIZE \in Nat
    /\ 1 <= REORDER_BUFFER_MAX_SIZE /\ REORDER_BUFFER_MAX_SIZE <= 1024
    /\ OUTGOING_BUFFER_MAX_SIZE \in Nat
    /\ 2 <= OUTGOING_BUFFER_MAX_SIZE /\ OUTGOING_BUFFER_MAX_SIZE <= 1024
<1>1. IRS \in SeqNr /\ LAST \in Nat
  BY StreamAssumption
<1> QED
  BY <1>1, SeqNrType, BufferLimitAssumption, SMT

\* Sequence numbers less than 2^16 apart are equal only for equal packets.
LEMMA WireSeqInjective ==
    ASSUME NEW j \in Int, NEW k \in Int, j <= k, k < j + 65536, WireSeq(j) = WireSeq(k)
    PROVE  j = k
<1>1. IRS + j \in Int /\ IRS + k \in Int /\ IRS + j <= IRS + k /\ IRS + k < IRS + j + 65536
  BY ConstantTypes
<1>2. IRS + j = IRS + k
  BY <1>1, WrapInjective DEF WireSeq
<1> QED
  BY <1>2, ConstantTypes

\* A packet's sequence number is a 16-bit number.
LEMMA WireSeqType ==
    ASSUME NEW k \in Int
    PROVE  WireSeq(k) \in SeqNr /\ WireSeq(k) \in Int
<1>1. IRS + k \in Int
  BY ConstantTypes
<1>2. Wrap(IRS + k) \in SeqNr
  BY <1>1, WrapType
<1>3. Wrap(IRS + k) \in Int
  BY <1>2, SeqNrType
<1> QED
  BY <1>2, <1>3 DEF WireSeq

\* Adding to a sequence number, modulo 2^16, is moving along the stream.
LEMMA WireSeqPlus ==
    ASSUME NEW k \in Int, NEW d \in Int
    PROVE  Wrap(WireSeq(k) + d) = WireSeq(k + d)
<1>1. IRS + k \in Int /\ IRS + k + d = IRS + (k + d)
  BY ConstantTypes
<1> QED
  BY <1>1, WrapPlus DEF WireSeq

\* How far ahead a packet in transit is: a packet in the reorder window is
\* that far ahead in the stream, and an old packet is outside the window.
LEMMA AheadExact ==
    ASSUME NEW A \in Nat, NEW k \in Nat,
           k <= A + OUTGOING_BUFFER_MAX_SIZE, k + 65536 - REORDER_BUFFER_MAX_SIZE > A,
           Wrap(WireSeq(k) - WireSeq(A) - 1) < REORDER_BUFFER_MAX_SIZE
    PROVE  k > A /\ Wrap(WireSeq(k) - WireSeq(A) - 1) = k - A - 1
<1> DEFINE d == k - A - 1
<1>1. IRS + k \in Int /\ IRS + A \in Int /\ (IRS + k) - (IRS + A) - 1 = d /\ d \in Int
  BY ConstantTypes
<1>2. Wrap(WireSeq(k) - WireSeq(A) - 1) = Wrap(d)
  BY <1>1, WrapMinus DEF WireSeq
<1>3. d < 1024 /\ d >= REORDER_BUFFER_MAX_SIZE - 65536
  BY ConstantTypes
<1>4. CASE d < 0
  <2>1. Wrap(d) = d + 65536
    BY <1>1, <1>3, <1>4, ConstantTypes, WrapNegative
  <2> QED
    BY <1>1, <1>2, <1>3, <2>1, ConstantTypes
<1>5. CASE d >= 0
  <2>1. Wrap(d) = d
    BY <1>1, <1>3, <1>5, WrapSmall
  <2> QED
    BY <1>1, <1>2, <1>5, <2>1
<1> QED
  BY <1>1, <1>4, <1>5

\* The record facts of a socket.
LEMMA SocketFields ==
    ASSUME NEW t, Core(t)
    PROVE  /\ t.ack_nr \in SeqNr /\ t.seq_nr \in SeqNr /\ t.eof_pkt \in SeqNr
           /\ t.inbuf.mask \in Masks /\ t.inbuf.mask \in Nat /\ t.inbuf.mask >= 1
           /\ t.inbuf \in Buffer(t.inbuf.mask, {NULL} \cup SUBSET Nat)
           /\ t.reorder_count \in Nat /\ t.readbuf \in Nat /\ t.last_rcv_win \in Nat
           /\ t.delivered \in Seq(SUBSET Nat) /\ Done(t) \in Nat
           /\ t.out \in SUBSET Ack /\ t.failed \in SUBSET STRING
<1>1. t \in Socket(t.inbuf.mask) /\ t.inbuf.mask \in Masks
  BY DEF Core
<1>2. t.inbuf.mask \in Nat /\ t.inbuf.mask >= 1
  BY <1>1, MaskType
<1>3. t.delivered \in Seq(SUBSET Nat)
  BY <1>1 DEF Socket
<1>4. Done(t) \in Nat
  BY <1>3, LenProperties DEF Done
<1> QED
  BY <1>1, <1>2, <1>3, <1>4 DEF Socket

\* An offset from a sequence number has the slot of that packet.
LEMMA SlotAt ==
    ASSUME NEW m \in Masks, NEW a \in Int, NEW d \in Int
    PROVE  Slot(WireSeq(a) + d, m) = Slot(WireSeq(a + d), m)
<1>1. IRS + a \in Int /\ IRS + (a + d) \in Int /\ IRS + (a + d) = IRS + a + d
  BY ConstantTypes
<1>2. Slot(Wrap(IRS + a) + d, m) = Slot(IRS + a + d, m)
  BY <1>1, SlotWrapPlus
<1>3. Slot(Wrap(IRS + (a + d)), m) = Slot(IRS + (a + d), m)
  BY <1>1, SlotWrap
<1> QED
  BY <1>1, <1>2, <1>3 DEF WireSeq

\* Looking up an offset from a sequence number finds that packet's slot.
LEMMA CellAt ==
    ASSUME NEW t, t.inbuf.mask \in Masks, NEW a \in Int, NEW d \in Int
    PROVE  get(t.inbuf, WireSeq(a) + d) = Cell(t, a + d)
BY SlotAt DEF get, Cell

\* The packets of one window have different slots.
LEMMA SlotsDiffer ==
    ASSUME NEW m \in Masks, NEW i \in Int, NEW j \in Int, i < j, j <= i + m
    PROVE  Slot(WireSeq(i), m) # Slot(WireSeq(j), m)
<1>1. IRS + i \in Int /\ IRS + j \in Int /\ IRS + i < IRS + j /\ IRS + j <= IRS + i + m
  BY ConstantTypes, MaskType
<1>2. Slot(Wrap(IRS + i), m) = Slot(IRS + i, m) /\ Slot(Wrap(IRS + j), m) = Slot(IRS + j, m)
  BY <1>1, SlotWrap
<1>3. Slot(IRS + i, m) # Slot(IRS + j, m)
  BY <1>1, SlotInjective
<1> QED
  BY <1>2, <1>3 DEF WireSeq

\* Packets one buffer size apart share a slot.
LEMMA CellPeriod ==
    ASSUME NEW t, t.inbuf.mask \in Masks, NEW k \in Int
    PROVE  Cell(t, k + t.inbuf.mask + 1) = Cell(t, k)
<1> DEFINE m == t.inbuf.mask
<1>1. IRS + k \in Int /\ m \in Nat /\ IRS + (k + m + 1) = (IRS + k) + m + 1
  BY ConstantTypes, MaskType
<1>2. Slot(Wrap(IRS + k), m) = Slot(IRS + k, m)
  BY <1>1, SlotWrap
<1>3. Slot(Wrap(IRS + k + m + 1), m) = Slot(IRS + k + m + 1, m)
  BY <1>1, SlotWrap
<1>4. Slot(IRS + k + m + 1, m) = Slot(IRS + k, m)
  BY <1>1, SlotPeriod
<1> QED
  BY <1>1, <1>2, <1>3, <1>4 DEF get, Cell, WireSeq

\* The reorder buffer holds finitely many packets.
LEMMA HeldFinite ==
    ASSUME NEW t, Core(t)
    PROVE  IsFiniteSet(Held(t)) /\ Cardinality(Held(t)) \in Nat
<1>1. Done(t) \in Nat /\ t.inbuf.mask \in Nat
  BY SocketFields
<1>2. IsFiniteSet(Done(t) .. Done(t) + t.inbuf.mask)
  BY <1>1, FS_Interval
<1>3. IsFiniteSet(Held(t))
  BY <1>2, FS_Subset DEF Held
<1> QED
  BY <1>3, FS_CardinalityType

\* A socket that differs from t only in fields the invariant does not mention
\* satisfies it too.
LEMMA IInvFrame ==
    ASSUME NEW t, IInv(t), NEW u, u \in Socket(t.inbuf.mask),
           u.inbuf = t.inbuf, u.delivered = t.delivered, u.ack_nr = t.ack_nr,
           u.reorder_count = t.reorder_count, u.got_fin = t.got_fin,
           u.eof_pkt = t.eof_pkt, u.got_fin_reached = t.got_fin_reached,
           t.read_shutdown => u.read_shutdown, u.failed = {}, AcksTruthful(u)
    PROVE  IInv(u)
<1>1. Done(u) = Done(t) /\ (\A k : Cell(u, k) = Cell(t, k)) /\ Held(u) = Held(t)
  BY DEF Done, Cell, Held
<1> QED
  BY <1>1 DEF IInv, Core

\* send_ack(t) in one piece, when its assertion holds.
LEMMA SendAckResult ==
    ASSUME NEW t, NEW m \in Masks, t \in Socket(m),
           get(t.inbuf, t.ack_nr + 1) = NULL
    PROVE  /\ send_ack(t) \in Socket(m)
           /\ send_ack(t).inbuf = t.inbuf /\ send_ack(t).delivered = t.delivered
           /\ send_ack(t).ack_nr = t.ack_nr /\ send_ack(t).reorder_count = t.reorder_count
           /\ send_ack(t).got_fin = t.got_fin /\ send_ack(t).eof_pkt = t.eof_pkt
           /\ send_ack(t).got_fin_reached = t.got_fin_reached
           /\ send_ack(t).read_shutdown = t.read_shutdown
           /\ send_ack(t).failed = t.failed
           /\ \A pfa \in send_ack(t).out \ t.out :
                  /\ pfa.ack_nr = t.ack_nr
                  /\ pfa.sack \subseteq SackBits(t)
                  /\ t.got_fin_reached => pfa.sack = {}
<1> DEFINE ext == t.reorder_count # 0 /\ ~t.got_fin_reached
           wnd == get_rcv_window(t)
           sack == IF ext THEN SackBits(t) ELSE {}
           pfa == [type |-> "ST_STATE", seq_nr |-> t.seq_nr, ack_nr |-> t.ack_nr,
                   wnd |-> wnd, ext |-> ext, sack |-> sack, data |-> {}]
<1>1. send_ack(t) = [t EXCEPT !.last_rcv_win = wnd, !.out = @ \cup {pfa}, !.ida = FALSE]
  BY DEF send_ack, Assert
<1>2. wnd \in Nat
  <2>1. t.readbuf \in Nat
    BY DEF Socket
  <2> QED
    BY <2>1, RcvbufAssumption DEF get_rcv_window
<1>3. SackBits(t) \in SUBSET (0 .. 29)
  <2>1. t.inbuf.mask = m /\ m \in Nat
    BY MaskType DEF Socket, Buffer
  <2> QED
    BY <2>1 DEF SackBits, SackWindow
<1>4. ext \in BOOLEAN /\ sack \in SUBSET (0 .. 29) /\ sack \subseteq SackBits(t)
  BY <1>3
<1>5. t.seq_nr \in SeqNr /\ t.ack_nr \in SeqNr /\ t.out \in SUBSET Ack
  BY DEF Socket
<1>6. pfa \in Ack
  BY <1>2, <1>4, <1>5 DEF Ack
<1> HIDE DEF pfa, wnd
<1>7. send_ack(t) \in Socket(m)
  <2> DEFINE out == t.out \cup {pfa}
  <2>1. out \in SUBSET Ack
    BY <1>5, <1>6
  <2>2. send_ack(t) = [t EXCEPT !.last_rcv_win = wnd, !.out = out, !.ida = FALSE]
    BY <1>1
  <2> HIDE DEF out
  <2> QED
    BY <1>2, <2>1, <2>2 DEF Socket
<1>8. send_ack(t).out = t.out \cup {pfa}
  BY <1>1 DEF Socket
<1>9. pfa.ack_nr = t.ack_nr /\ pfa.sack = sack
  BY DEF pfa
<1>10. \A p \in send_ack(t).out \ t.out :
           p.ack_nr = t.ack_nr /\ p.sack \subseteq SackBits(t) /\ (t.got_fin_reached => p.sack = {})
  BY <1>4, <1>8, <1>9
<1> QED
  BY <1>1, <1>7, <1>10 DEF Socket

\* The bits of an EACK stand for packets in the reorder buffer, also in a
\* keep-alive, whose ack_nr is one less.
LEMMA SackBitsHeld ==
    ASSUME NEW t, IInv(t), NEW a \in {Done(t) - 1, Done(t)},
           NEW u, u.inbuf = t.inbuf, u.ack_nr = WireSeq(a), NEW i \in SackBits(u)
    PROVE  a + 2 + i \in Held(t) /\ Wrap(WireSeq(a) + 2 + i) = WireSeq(a + 2 + i)
<1> DEFINE m == t.inbuf.mask
           D == Done(t)
<1>1. m \in Masks /\ m \in Nat /\ m >= 1 /\ D \in Nat /\ a \in Int
  BY SocketFields DEF IInv
<1>2. i \in Nat /\ i <= m /\ get(t.inbuf, WireSeq(a) + i + 2) # NULL
  BY <1>1 DEF SackBits, SackWindow
<1>3. WireSeq(a) \in Int
  BY <1>1, WireSeqType
<1>4. Cell(t, a + (i + 2)) # NULL
  <2>1. WireSeq(a) + i + 2 = WireSeq(a) + (i + 2) /\ i + 2 \in Int
    BY <1>2, <1>3
  <2> QED
    BY <1>1, <1>2, <2>1, CellAt
<1>5. Cell(t, D) = NULL /\ Cell(t, D + 1) = NULL
  BY DEF IInv, Core
<1>6. Cell(t, D + m + 1) = NULL
  BY <1>1, <1>5, CellPeriod
<1>7. Cell(t, D + 1 + m + 1) = NULL
  BY <1>1, <1>5, CellPeriod
<1>8. a + 2 + i \in Held(t)
  <2>1. a + (i + 2) # D + 1 /\ a + (i + 2) # D + m + 1 /\ a + (i + 2) # D + 1 + m + 1
    BY <1>4, <1>5, <1>6, <1>7
  <2>2. a + (i + 2) \in D .. D + m /\ a + (i + 2) = a + 2 + i
    BY <1>1, <1>2, <2>1
  <2> QED
    BY <1>4, <2>2 DEF Held
<1>9. Wrap(WireSeq(a) + (2 + i)) = WireSeq(a + (2 + i))
  BY <1>1, <1>2, WireSeqPlus
<1>10. WireSeq(a) + (2 + i) = WireSeq(a) + 2 + i /\ a + (2 + i) = a + 2 + i
  BY <1>1, <1>2, <1>3
<1> QED
  BY <1>8, <1>9, <1>10

\* The invariant as a fact about the fields, for the handlers below.
LEMMA IInvFields ==
    ASSUME NEW t, IInv(t)
    PROVE  /\ t.inbuf.mask \in Masks /\ t \in Socket(t.inbuf.mask) /\ Done(t) \in Nat
           /\ t.ack_nr = WireSeq(Done(t)) /\ t.failed = {} /\ AcksTruthful(t)
           /\ get(t.inbuf, t.ack_nr + 1) = NULL /\ Cell(t, Done(t)) = NULL
<1>1. Core(t) /\ Cell(t, Done(t) + 1) = NULL
  BY DEF IInv
<1>2. t.inbuf.mask \in Masks /\ Done(t) \in Nat
  BY <1>1, SocketFields
<1>3. get(t.inbuf, WireSeq(Done(t)) + 1) = NULL
  BY <1>1, <1>2, CellAt
<1> QED
  BY <1>1, <1>2, <1>3 DEF Core

\* The start of a handler, and schedule_ack.
LEMMA FreshInv ==
    ASSUME NEW t, IInv(t)
    PROVE  IInv([t EXCEPT !.out = {}])
<1> DEFINE u == [t EXCEPT !.out = {}]
<1>1. t \in Socket(t.inbuf.mask) /\ t.failed = {}
  BY IInvFields
<1>2. u \in Socket(t.inbuf.mask) /\ u.out = {}
  BY <1>1 DEF Socket
<1>3. AcksTruthful(u)
  BY <1>2 DEF AcksTruthful
<1>4. /\ u.inbuf = t.inbuf /\ u.delivered = t.delivered /\ u.ack_nr = t.ack_nr
      /\ u.reorder_count = t.reorder_count /\ u.got_fin = t.got_fin
      /\ u.eof_pkt = t.eof_pkt /\ u.got_fin_reached = t.got_fin_reached
      /\ u.read_shutdown = t.read_shutdown /\ u.failed = t.failed
  BY <1>1 DEF Socket
<1> HIDE DEF u
<1>5. IInv(u)
  BY <1>1, <1>2, <1>3, <1>4, IInvFrame
<1> QED
  BY <1>5 DEF u

\* schedule_ack only puts the socket on the ack list.
LEMMA ScheduleAckInv ==
    ASSUME NEW t, IInv(t)
    PROVE  IInv(schedule_ack(t))
<1> DEFINE u == schedule_ack(t)
<1>1. t \in Socket(t.inbuf.mask) /\ t.failed = {} /\ AcksTruthful(t)
  BY IInvFields
<1>2. u \in Socket(t.inbuf.mask)
  BY <1>1 DEF schedule_ack, Socket
<1>3. /\ u.inbuf = t.inbuf /\ u.delivered = t.delivered /\ u.ack_nr = t.ack_nr
      /\ u.reorder_count = t.reorder_count /\ u.got_fin = t.got_fin
      /\ u.eof_pkt = t.eof_pkt /\ u.got_fin_reached = t.got_fin_reached
      /\ u.read_shutdown = t.read_shutdown /\ u.failed = t.failed /\ u.out = t.out
  BY <1>1 DEF schedule_ack, Socket
<1> HIDE DEF u
<1>4. AcksTruthful(u)
  BY <1>1, <1>3 DEF AcksTruthful, Held, Done, Cell
<1>5. IInv(u)
  BY <1>1, <1>2, <1>3, <1>4, IInvFrame
<1> QED
  BY <1>5 DEF u

\* send_ack keeps the invariant: what it claims is in the reorder buffer.
LEMMA SendAckInv ==
    ASSUME NEW t, IInv(t)
    PROVE  IInv(send_ack(t))
<1> DEFINE u == send_ack(t)
           m == t.inbuf.mask
<1>1. /\ m \in Masks /\ t \in Socket(m) /\ t.failed = {} /\ AcksTruthful(t)
      /\ get(t.inbuf, t.ack_nr + 1) = NULL /\ t.ack_nr = WireSeq(Done(t))
  BY IInvFields
<1>2. /\ u \in Socket(m)
      /\ u.inbuf = t.inbuf /\ u.delivered = t.delivered /\ u.ack_nr = t.ack_nr
      /\ u.reorder_count = t.reorder_count /\ u.got_fin = t.got_fin
      /\ u.eof_pkt = t.eof_pkt /\ u.got_fin_reached = t.got_fin_reached
      /\ u.read_shutdown = t.read_shutdown /\ u.failed = t.failed
      /\ \A pfa \in u.out \ t.out : pfa.ack_nr = t.ack_nr /\ pfa.sack \subseteq SackBits(t)
  BY <1>1, SendAckResult
<1> HIDE DEF u
<1>3. Held(u) = Held(t)
  BY <1>2 DEF Held, Done, Cell
<1>4. AcksTruthful(u)
  <2> SUFFICES ASSUME NEW pfa \in u.out, NEW i \in pfa.sack
               PROVE  \E k \in Held(u) : Wrap(pfa.ack_nr + 2 + i) = WireSeq(k)
    BY DEF AcksTruthful
  <2>1. CASE pfa \in t.out
    BY <1>1, <1>3, <2>1 DEF AcksTruthful
  <2>2. CASE pfa \notin t.out
    <3>1. i \in SackBits(t) /\ pfa.ack_nr = WireSeq(Done(t))
      BY <1>1, <1>2, <2>2
    <3>2. /\ Done(t) + 2 + i \in Held(t)
          /\ Wrap(WireSeq(Done(t)) + 2 + i) = WireSeq(Done(t) + 2 + i)
      BY <1>1, <3>1, SackBitsHeld
    <3> QED
      BY <1>3, <3>1, <3>2
  <2> QED
    BY <2>1, <2>2
<1>5. IInv(u)
  BY <1>1, <1>2, <1>4, IInvFrame
<1> QED
  BY <1>5 DEF u

\* send_keep_alive keeps the invariant: with ack_nr - 1 its EACK bits still
\* stand for packets of the reorder buffer.
LEMMA KeepAliveInv ==
    ASSUME NEW t, IInv(t)
    PROVE  IInv(send_keep_alive(t))
<1> DEFINE m == t.inbuf.mask
           D == Done(t)
           v == [t EXCEPT !.ack_nr = Wrap(t.ack_nr - 1)]
           u == [send_ack(v) EXCEPT !.ack_nr = t.ack_nr]
<1>1. /\ m \in Masks /\ t \in Socket(m) /\ t.failed = {} /\ AcksTruthful(t)
      /\ t.ack_nr = WireSeq(D) /\ D \in Nat /\ Cell(t, D) = NULL
  BY IInvFields
<1>2. Wrap(t.ack_nr - 1) = WireSeq(D - 1) /\ WireSeq(D - 1) \in SeqNr
  <2>1. WireSeq(D) \in Int /\ WireSeq(D - 1) \in SeqNr
    BY <1>1, WireSeqType
  <2>2. Wrap(WireSeq(D) + (-1)) = WireSeq(D + (-1))
    BY <1>1, WireSeqPlus
  <2>3. WireSeq(D) + (-1) = WireSeq(D) - 1 /\ D + (-1) = D - 1
    BY <1>1, <2>1
  <2> QED
    BY <1>1, <2>1, <2>2, <2>3
<1>3. v \in Socket(m) /\ v.inbuf = t.inbuf /\ v.ack_nr = WireSeq(D - 1) /\ v.out = t.out
  BY <1>1, <1>2 DEF Socket
<1>4. get(v.inbuf, v.ack_nr + 1) = NULL
  <2>1. D - 1 \in Int /\ (D - 1) + 1 = D
    BY <1>1
  <2>2. get(t.inbuf, WireSeq(D - 1) + 1) = Cell(t, (D - 1) + 1)
    BY <1>1, <2>1, CellAt
  <2> QED
    BY <1>1, <1>3, <2>1, <2>2
<1>5. /\ v.delivered = t.delivered /\ v.reorder_count = t.reorder_count
      /\ v.got_fin = t.got_fin /\ v.eof_pkt = t.eof_pkt
      /\ v.got_fin_reached = t.got_fin_reached
      /\ v.read_shutdown = t.read_shutdown /\ v.failed = t.failed
  BY <1>1 DEF Socket
<1> HIDE DEF v
<1>6. /\ send_ack(v) \in Socket(m)
      /\ send_ack(v).inbuf = t.inbuf /\ send_ack(v).delivered = t.delivered
      /\ send_ack(v).reorder_count = t.reorder_count /\ send_ack(v).got_fin = t.got_fin
      /\ send_ack(v).eof_pkt = t.eof_pkt /\ send_ack(v).got_fin_reached = t.got_fin_reached
      /\ send_ack(v).read_shutdown = t.read_shutdown /\ send_ack(v).failed = t.failed
      /\ \A pfa \in send_ack(v).out \ t.out :
             pfa.ack_nr = WireSeq(D - 1) /\ pfa.sack \subseteq SackBits(v)
  BY <1>1, <1>3, <1>4, <1>5, SendAckResult
<1>7. /\ u \in Socket(m) /\ u.ack_nr = t.ack_nr
      /\ u.inbuf = t.inbuf /\ u.delivered = t.delivered
      /\ u.reorder_count = t.reorder_count /\ u.got_fin = t.got_fin
      /\ u.eof_pkt = t.eof_pkt /\ u.got_fin_reached = t.got_fin_reached
      /\ u.read_shutdown = t.read_shutdown /\ u.failed = t.failed
      /\ u.out = send_ack(v).out
  <2>1. t.ack_nr \in SeqNr
    BY <1>1 DEF Socket
  <2> QED
    BY <1>6, <2>1 DEF Socket
<1>8. send_keep_alive(t) = u
  BY DEF send_keep_alive, v
<1> HIDE DEF u
<1>9. Held(u) = Held(t)
  BY <1>7 DEF Held, Done, Cell
<1>10. AcksTruthful(u)
  <2> SUFFICES ASSUME NEW pfa \in u.out, NEW i \in pfa.sack
               PROVE  \E k \in Held(u) : Wrap(pfa.ack_nr + 2 + i) = WireSeq(k)
    BY DEF AcksTruthful
  <2>1. CASE pfa \in t.out
    BY <1>1, <1>9, <2>1 DEF AcksTruthful
  <2>2. CASE pfa \notin t.out
    <3>1. i \in SackBits(v) /\ pfa.ack_nr = WireSeq(D - 1)
      BY <1>6, <1>7, <2>2
    <3>2. D - 1 + 2 + i \in Held(t) /\ Wrap(WireSeq(D - 1) + 2 + i) = WireSeq(D - 1 + 2 + i)
      BY <1>3, <3>1, SackBitsHeld
    <3> QED
      BY <1>9, <3>1, <3>2
  <2> QED
    BY <2>1, <2>2
<1>11. IInv(u)
  BY <1>1, <1>7, <1>10, IInvFrame
<1> QED
  BY <1>8, <1>11

\* utp_read_drained keeps the invariant.
LEMMA ReadDrainedInv ==
    ASSUME NEW t, IInv(t)
    PROVE  IInv(utp_read_drained(t))
BY SendAckInv, ScheduleAckInv DEF utp_read_drained

\* Conn.Read takes bytes out of the upper layer's buffer.
LEMMA TakeInv ==
    ASSUME NEW t, IInv(t), NEW n \in 1 .. t.readbuf
    PROVE  IInv([t EXCEPT !.readbuf = t.readbuf - n])
<1> DEFINE u == [t EXCEPT !.readbuf = t.readbuf - n]
<1>1. t \in Socket(t.inbuf.mask) /\ t.failed = {} /\ AcksTruthful(t)
  BY IInvFields
<1>2. t.readbuf - n \in Nat
  BY <1>1 DEF Socket
<1>3. u \in Socket(t.inbuf.mask)
  BY <1>1, <1>2 DEF Socket
<1>4. /\ u.inbuf = t.inbuf /\ u.delivered = t.delivered /\ u.ack_nr = t.ack_nr
      /\ u.reorder_count = t.reorder_count /\ u.got_fin = t.got_fin
      /\ u.eof_pkt = t.eof_pkt /\ u.got_fin_reached = t.got_fin_reached
      /\ u.read_shutdown = t.read_shutdown /\ u.failed = t.failed /\ u.out = t.out
  BY <1>1 DEF Socket
<1> HIDE DEF u
<1>5. AcksTruthful(u)
  BY <1>1, <1>4 DEF AcksTruthful, Held, Done, Cell
<1>6. IInv(u)
  BY <1>1, <1>3, <1>4, <1>5, IInvFrame
<1> QED
  BY <1>6 DEF u

\* Once reading is shut down, packets may be consumed without an upcall.
LEMMA ShutdownInv ==
    ASSUME NEW t, IInv(t)
    PROVE  IInv([t EXCEPT !.read_shutdown = TRUE])
<1> DEFINE u == [t EXCEPT !.read_shutdown = TRUE]
<1>1. t \in Socket(t.inbuf.mask) /\ t.failed = {} /\ AcksTruthful(t)
  BY IInvFields
<1>2. u \in Socket(t.inbuf.mask)
  BY <1>1 DEF Socket
<1>3. /\ u.inbuf = t.inbuf /\ u.delivered = t.delivered /\ u.ack_nr = t.ack_nr
      /\ u.reorder_count = t.reorder_count /\ u.got_fin = t.got_fin
      /\ u.eof_pkt = t.eof_pkt /\ u.got_fin_reached = t.got_fin_reached
      /\ u.read_shutdown /\ u.failed = t.failed /\ u.out = t.out
  BY <1>1 DEF Socket
<1> HIDE DEF u
<1>4. AcksTruthful(u)
  BY <1>1, <1>3 DEF AcksTruthful, Held, Done, Cell
<1>5. IInv(u)
  BY <1>1, <1>2, <1>3, <1>4, IInvFrame
<1> QED
  BY <1>5 DEF u

-------------------------------------------------------------------------------
\* A packet of the stream that the reorder window admits.
Admitted(t, k) ==
    k \in 1 .. LAST /\ k > Done(t) /\ k <= Done(t) + 1024 /\ Ahead(t, Packet(k)) = k - Done(t) - 1

\* Every packet in transit is admitted, or is outside the reorder window.
LEMMA TransitAdmitted ==
    ASSUME NEW t, t.ack_nr = WireSeq(Done(t)), Done(t) \in Nat, NEW k \in 1 .. LAST,
           k <= Done(t) + OUTGOING_BUFFER_MAX_SIZE,
           k + 65536 - REORDER_BUFFER_MAX_SIZE > Done(t),
           Ahead(t, Packet(k)) < REORDER_BUFFER_MAX_SIZE
    PROVE  Admitted(t, k)
<1>1. k \in Nat
  BY ConstantTypes
<1>2. Ahead(t, Packet(k)) = Wrap(WireSeq(k) - WireSeq(Done(t)) - 1)
  BY DEF Ahead, Packet
<1>3. k > Done(t) /\ Wrap(WireSeq(k) - WireSeq(Done(t)) - 1) = k - Done(t) - 1
  BY <1>1, <1>2, AheadExact
<1>4. k <= Done(t) + 1024
  BY <1>1, ConstantTypes
<1> QED
  BY <1>2, <1>3, <1>4 DEF Admitted

\* The FIN fixes eof_pkt as soon as it is seen, whatever is missing before it
\* (lines 2358-2374).
LEMMA GotFinInv ==
    ASSUME NEW t, IInv(t), NEW k, Admitted(t, k)
    PROVE  LET u == GotFin(t, Packet(k))
           IN  /\ IInv(u) /\ Admitted(u, k)
               /\ HASFIN /\ k = LAST => u.got_fin
               /\ u.out = t.out /\ u.delivered = t.delivered /\ u.inbuf = t.inbuf
               /\ u.ack_nr = t.ack_nr
<1> DEFINE pk == Packet(k)
           u == [t EXCEPT !.got_fin = TRUE, !.eof_pkt = WireSeq(k)]
<1>1. t \in Socket(t.inbuf.mask) /\ Done(t) \in Nat /\ t.failed = {} /\ AcksTruthful(t)
  BY IInvFields
<1>2. pk.seq_nr = WireSeq(k) /\ (pk.type = "ST_FIN" <=> HASFIN /\ k = LAST)
  BY DEF Packet
<1>3. CASE pk.type = "ST_FIN" /\ ~t.got_fin
  <2>1. GotFin(t, pk) = u
    BY <1>2, <1>3 DEF GotFin
  <2>2. HASFIN /\ k = LAST /\ k \in Int /\ LAST <= Done(t) + 1024
    BY <1>2, <1>3, ConstantTypes DEF Admitted
  <2>3. WireSeq(k) \in SeqNr
    BY <2>2, WireSeqType
  <2>4. u \in Socket(t.inbuf.mask)
    BY <1>1, <2>3 DEF Socket
  <2>5. /\ u.inbuf = t.inbuf /\ u.delivered = t.delivered /\ u.ack_nr = t.ack_nr
        /\ u.reorder_count = t.reorder_count /\ u.got_fin
        /\ u.eof_pkt = WireSeq(LAST) /\ u.got_fin_reached = t.got_fin_reached
        /\ u.read_shutdown = t.read_shutdown /\ u.failed = t.failed /\ u.out = t.out
    BY <1>1, <2>2 DEF Socket
  <2> HIDE DEF u
  <2>6. Done(u) = Done(t) /\ (\A j : Cell(u, j) = Cell(t, j)) /\ Held(u) = Held(t)
    BY <2>5 DEF Done, Cell, Held
  <2>7. AcksTruthful(u)
    BY <1>1, <2>5, <2>6 DEF AcksTruthful
  <2>8. Core(u)
    BY <1>1, <2>2, <2>4, <2>5, <2>6, <2>7 DEF IInv, Core
  <2>9. IInv(u)
    BY <2>5, <2>6, <2>8 DEF IInv
  <2>10. Ahead(u, pk) = Ahead(t, pk)
    BY <2>5 DEF Ahead
  <2>11. Admitted(u, k)
    BY <2>6, <2>10 DEF Admitted
  <2> QED
    BY <2>1, <2>5, <2>9, <2>11
<1>4. CASE ~(pk.type = "ST_FIN" /\ ~t.got_fin)
  BY <1>2, <1>4 DEF GotFin
<1> QED
  BY <1>3, <1>4

\* Growing the reorder buffer keeps the invariant (ensure_size, line 2474).
LEMMA GrowInv ==
    ASSUME NEW t, IInv(t), NEW k, Admitted(t, k), k > Done(t) + 1
    PROVE  LET g == ensure_size(t.inbuf, WireSeq(k) + 1, k - Done(t))
           IN  /\ g.mask \in Masks /\ k <= Done(t) + g.mask
               /\ IInv([t EXCEPT !.inbuf = g])
<1> DEFINE D == Done(t)
           m == t.inbuf.mask
           T == {NULL} \cup SUBSET Nat
           item == WireSeq(k) + 1
           index == k - D
           g == ensure_size(t.inbuf, item, index)
           u == [t EXCEPT !.inbuf = g]
<1>1. /\ m \in Masks /\ m \in Nat /\ m >= 1 /\ D \in Nat /\ t \in Socket(m)
      /\ t.inbuf \in Buffer(m, T) /\ t.failed = {} /\ AcksTruthful(t)
      /\ Cell(t, D) = NULL /\ Cell(t, D + 1) = NULL
  BY SocketFields DEF IInv, Core
<1>2. k \in Nat /\ k <= D + 1024 /\ k > D + 1
  BY ConstantTypes DEF Admitted
<1>3. WireSeq(k) \in Int /\ item \in Int
  BY <1>2, WireSeqType
<1>4. index \in Nat /\ index <= 2047
  BY <1>1, <1>2
<1> HIDE DEF item, index
<1>5. /\ g.mask \in Masks /\ g.mask >= m /\ g.mask >= index /\ g \in Buffer(g.mask, T)
      /\ \A o \in 0 .. g.mask : get(g, item - index + o) =
             IF o <= m THEN get(t.inbuf, item - index + o) ELSE NULL
  BY <1>1, <1>3, <1>4, EnsureSizeKeepsWindow
<1> HIDE DEF g
<1>6. g.mask \in Nat
  BY <1>5, MaskType
<1>7. k <= D + g.mask
  BY <1>1, <1>2, <1>5, <1>6 DEF index
<1>8. u \in Socket(g.mask) /\ u.inbuf = g
  BY <1>1, <1>5 DEF Socket
<1>9. /\ u.delivered = t.delivered /\ u.ack_nr = t.ack_nr
      /\ u.reorder_count = t.reorder_count /\ u.got_fin = t.got_fin
      /\ u.eof_pkt = t.eof_pkt /\ u.got_fin_reached = t.got_fin_reached
      /\ u.read_shutdown = t.read_shutdown /\ u.failed = t.failed /\ u.out = t.out
  BY <1>1 DEF Socket
<1> HIDE DEF u
<1>10. ASSUME NEW o \in 0 .. g.mask
       PROVE  Cell(u, D + 1 + o) = IF o <= m THEN Cell(t, D + 1 + o) ELSE NULL
  <2>1. D + 1 - k + o \in Int /\ item - index + o = WireSeq(k) + (D + 1 - k + o)
        /\ k + (D + 1 - k + o) = D + 1 + o
    BY <1>1, <1>2, <1>3, <1>6 DEF item, index
  <2>2. get(u.inbuf, WireSeq(k) + (D + 1 - k + o)) = Cell(u, k + (D + 1 - k + o))
    BY <1>2, <1>5, <1>8, <2>1, CellAt
  <2>3. get(t.inbuf, WireSeq(k) + (D + 1 - k + o)) = Cell(t, k + (D + 1 - k + o))
    BY <1>1, <1>2, <2>1, CellAt
  <2> QED
    BY <1>5, <1>8, <2>1, <2>2, <2>3
<1>11. Cell(u, D + 1) = NULL
  <2>1. 0 \in 0 .. g.mask /\ 0 <= m /\ D + 1 + 0 = D + 1
    BY <1>1, <1>6
  <2> QED
    BY <1>1, <1>10, <2>1
<1>12. Cell(t, D + m + 1) = NULL
  BY <1>1, CellPeriod
<1>13. Cell(u, D) = NULL
  <2>1. Cell(u, D + g.mask + 1) = Cell(u, D)
    BY <1>1, <1>5, <1>8, CellPeriod
  <2>2. g.mask \in 0 .. g.mask /\ D + 1 + g.mask = D + g.mask + 1 /\ D + m + 1 = D + 1 + m
    BY <1>1, <1>6
  <2>3. Cell(u, D + 1 + g.mask) = IF g.mask <= m THEN Cell(t, D + 1 + g.mask) ELSE NULL
    BY <1>10, <2>2
  <2>4. g.mask <= m => g.mask = m
    BY <1>1, <1>5, <1>6
  <2> QED
    BY <1>12, <2>1, <2>2, <2>3, <2>4
<1>14. Done(u) = D
  BY <1>9 DEF Done
<1>15. ASSUME NEW j \in Int
       PROVE  /\ j \in Held(u) <=> j \in Held(t)
              /\ j \in Held(t) => Cell(u, j) = Cell(t, j)
  <2>1. j \in Held(t) <=> j >= D /\ j <= D + m /\ Cell(t, j) # NULL
    BY <1>1 DEF Held
  <2>2. j \in Held(u) <=> j >= D /\ j <= D + g.mask /\ Cell(u, j) # NULL
    BY <1>1, <1>6, <1>8, <1>14 DEF Held
  <2>3. CASE j > D /\ j <= D + g.mask
    <3>1. j - D - 1 \in 0 .. g.mask /\ D + 1 + (j - D - 1) = j
      BY <1>1, <1>6, <2>3
    <3>2. Cell(u, j) = IF j - D - 1 <= m THEN Cell(t, j) ELSE NULL
      BY <1>10, <3>1
    <3>3. CASE j - D - 1 < m
      BY <1>1, <1>5, <1>6, <2>1, <2>2, <2>3, <3>2, <3>3
    <3>4. CASE j - D - 1 = m
      <4>1. j = D + m + 1
        BY <1>1, <3>4
      <4> QED
        BY <1>1, <1>12, <2>1, <2>2, <3>2, <3>4, <4>1
    <3>5. CASE j - D - 1 > m
      BY <1>1, <2>1, <2>2, <3>2, <3>5
    <3> QED
      BY <1>1, <3>3, <3>4, <3>5
  <2>4. CASE j = D
    BY <1>1, <1>13, <2>1, <2>2, <2>4
  <2>5. CASE j < D \/ j > D + g.mask
    BY <1>1, <1>5, <1>6, <2>1, <2>2, <2>5
  <2> QED
    BY <1>1, <1>6, <2>3, <2>4, <2>5
<1>16. Held(u) = Held(t) /\ \A j \in Held(t) : Cell(u, j) = Cell(t, j)
  <2>1. Held(u) \subseteq Int /\ Held(t) \subseteq Int
    BY <1>1, <1>6, <1>8, <1>14 DEF Held
  <2> QED
    BY <1>15, <2>1
<1>17. AcksTruthful(u)
  BY <1>1, <1>9, <1>16 DEF AcksTruthful
<1>18. Core(u)
  BY <1>1, <1>5, <1>8, <1>9, <1>13, <1>14, <1>16, <1>17 DEF Core, IInv
<1>19. IInv(u)
  BY <1>9, <1>11, <1>14, <1>18 DEF IInv
<1> QED
  BY <1>5, <1>7, <1>19 DEF u, g, item, index

\* The payload of a packet is a finite set of bytes and not the null pointer.
LEMMA PayloadFacts ==
    ASSUME NEW k \in 1 .. LAST
    PROVE  Payload[k] \in SUBSET Nat /\ IsFiniteSet(Payload[k]) /\ Payload[k] # NULL
BY StreamAssumption

\* Storing a packet ahead of the next one keeps the invariant (lines 2484-2503).
LEMMA PutInv ==
    ASSUME NEW t, IInv(t), NEW k, Admitted(t, k), k > Done(t) + 1,
           k <= Done(t) + t.inbuf.mask, Cell(t, k) = NULL,
           HASFIN /\ k = LAST => t.got_fin
    PROVE  IInv([t EXCEPT !.inbuf = put(t.inbuf, WireSeq(k), Payload[k]),
                          !.reorder_count = t.reorder_count + 1])
<1> DEFINE D == Done(t)
           m == t.inbuf.mask
           T == {NULL} \cup SUBSET Nat
           b == put(t.inbuf, WireSeq(k), Payload[k])
           u == [t EXCEPT !.inbuf = b, !.reorder_count = t.reorder_count + 1]
<1>1. /\ m \in Masks /\ m \in Nat /\ m >= 1 /\ D \in Nat /\ t \in Socket(m)
      /\ t.inbuf \in Buffer(m, T) /\ t.failed = {} /\ AcksTruthful(t)
      /\ Cell(t, D) = NULL /\ Cell(t, D + 1) = NULL /\ t.reorder_count \in Nat
  BY SocketFields DEF IInv, Core
<1>2. k \in Int /\ k \in 1 .. LAST /\ k <= LAST
  BY ConstantTypes DEF Admitted
<1>3. Payload[k] \in T /\ Payload[k] # NULL
  BY <1>2, PayloadFacts
<1>4. WireSeq(k) \in Int
  BY <1>2, WireSeqType
<1>5. /\ b \in Buffer(m, T) /\ get(b, WireSeq(k)) = Payload[k]
      /\ \A j \in Int : Slot(j, m) # Slot(WireSeq(k), m) => get(b, j) = get(t.inbuf, j)
  BY <1>1, <1>3, <1>4, PutGet
<1> HIDE DEF b
<1>6. u \in Socket(m) /\ u.inbuf = b /\ u.reorder_count = t.reorder_count + 1
  <2> DEFINE c == t.reorder_count + 1
  <2>1. c \in Nat
    BY <1>1
  <2> HIDE DEF c
  <2>2. [t EXCEPT !.inbuf = b, !.reorder_count = c] \in Socket(m)
    BY <1>1, <1>5, <2>1 DEF Socket
  <2>3. /\ [t EXCEPT !.inbuf = b, !.reorder_count = c].inbuf = b
        /\ [t EXCEPT !.inbuf = b, !.reorder_count = c].reorder_count = c
    BY <1>1 DEF Socket
  <2> QED
    BY <2>2, <2>3 DEF c
<1>7. /\ u.delivered = t.delivered /\ u.ack_nr = t.ack_nr
      /\ u.got_fin = t.got_fin
      /\ u.eof_pkt = t.eof_pkt /\ u.got_fin_reached = t.got_fin_reached
      /\ u.read_shutdown = t.read_shutdown /\ u.failed = t.failed /\ u.out = t.out
  BY <1>1 DEF Socket
<1> HIDE DEF u
<1>8. b.mask = m /\ Done(u) = D
  BY <1>5, <1>7 DEF Buffer, Done
<1>9. ASSUME NEW j \in Int, j >= D, j <= D + m, j # k
      PROVE  Cell(u, j) = Cell(t, j)
  <2>1. Slot(WireSeq(j), m) # Slot(WireSeq(k), m)
    <3>1. CASE j < k
      <4>1. k <= j + m
        BY <1>1, <1>2, <1>9
      <4> QED
        BY <1>1, <1>2, <3>1, <4>1, SlotsDiffer
    <3>2. CASE k < j
      <4>1. j <= k + m
        BY <1>1, <1>2, <1>9
      <4> QED
        BY <1>1, <1>2, <3>2, <4>1, SlotsDiffer
    <3> QED
      BY <1>2, <1>9, <3>1, <3>2
  <2>2. WireSeq(j) \in Int
    BY WireSeqType
  <2> QED
    BY <1>5, <1>6, <2>1, <2>2 DEF Cell
<1>10. Cell(u, k) = Payload[k]
  BY <1>5, <1>6 DEF Cell
<1>11. Cell(u, D) = NULL /\ Cell(u, D + 1) = NULL
  BY <1>1, <1>2, <1>9
<1>12. Held(u) = Held(t) \cup {k} /\ k \notin Held(t)
  <2>1. k \in D .. D + m
    BY <1>1, <1>2
  <2>2. \A j \in D .. D + m : j # k => Cell(u, j) = Cell(t, j)
    BY <1>1, <1>9
  <2> QED
    BY <1>3, <1>6, <1>8, <1>10, <2>1, <2>2 DEF Held
<1>13. Cardinality(Held(u)) = Cardinality(Held(t)) + 1
  <2>1. IsFiniteSet(Held(t))
    BY HeldFinite DEF IInv
  <2> QED
    BY <1>12, <2>1, FS_AddElement
<1>14. \A j \in Held(u) : j <= LAST /\ Cell(u, j) = Payload[j]
  <2>1. ASSUME NEW j \in Held(t)
        PROVE  j <= LAST /\ Cell(u, j) = Payload[j]
    <3>1. j \in Int /\ j >= D /\ j <= D + m /\ j # k
      BY <1>1, <1>12 DEF Held
    <3>2. j <= LAST /\ Cell(t, j) = Payload[j]
      BY DEF IInv, Core
    <3> QED
      BY <1>9, <3>1, <3>2
  <2> QED
    BY <1>2, <1>10, <1>12, <2>1
<1>15. AcksTruthful(u)
  BY <1>1, <1>7, <1>12 DEF AcksTruthful
<1>16. HASFIN /\ (LAST = D \/ LAST \in Held(u)) => u.got_fin
  BY <1>7, <1>12 DEF IInv, Core
<1>17. Core(u)
  BY <1>1, <1>6, <1>7, <1>8, <1>11, <1>13, <1>14, <1>15, <1>16 DEF Core, IInv
<1>18. IInv(u)
  BY <1>7, <1>8, <1>11, <1>17 DEF IInv
<1> QED
  BY <1>18 DEF u, b

\* A packet ahead of the expected one keeps the invariant (lines 2440-2509).
LEMMA OutOfOrderInv ==
    ASSUME NEW t, IInv(t), NEW k, Admitted(t, k), k # Done(t) + 1,
           HASFIN /\ k = LAST => t.got_fin
    PROVE  IInv(OutOfOrder(t, Packet(k)))
<1> DEFINE D == Done(t)
           pk == Packet(k)
           g == ensure_size(t.inbuf, WireSeq(k) + 1, k - D)
           u == [t EXCEPT !.inbuf = g]
           full == [u EXCEPT !.inbuf = put(g, WireSeq(k), Payload[k]),
                             !.reorder_count = u.reorder_count + 1]
<1>1. t.inbuf.mask \in Masks /\ t \in Socket(t.inbuf.mask) /\ D \in Nat
      /\ t.ack_nr = WireSeq(D)
  BY IInvFields
<1>2. k \in Int /\ k > D + 1 /\ Ahead(t, pk) = k - D - 1 /\ Ahead(t, pk) + 1 = k - D
  BY <1>1, ConstantTypes DEF Admitted
<1>3. pk.seq_nr = WireSeq(k) /\ pk.data = Payload[k]
  BY DEF Packet
<1>4. g.mask \in Masks /\ k <= D + g.mask /\ IInv(u)
  BY <1>2, GrowInv
<1> HIDE DEF g
<1>5. /\ u.inbuf = g /\ u.delivered = t.delivered /\ u.ack_nr = t.ack_nr
      /\ u.reorder_count = t.reorder_count /\ u.got_fin = t.got_fin
  BY <1>1 DEF Socket
<1>6. Done(u) = D /\ Admitted(u, k)
  BY <1>5 DEF Done, Admitted, Ahead
<1>7. Slot(WireSeq(k), g.mask) # Slot(t.ack_nr + 1, g.mask)
  <2>1. Slot(WireSeq(D) + 1, g.mask) = Slot(WireSeq(D + 1), g.mask)
    BY <1>1, <1>4, SlotAt
  <2>2. g.mask \in Nat
    BY <1>4, MaskType
  <2>3. D + 1 \in Int /\ D + 1 < k /\ k <= D + 1 + g.mask
    BY <1>1, <1>2, <1>4, <2>2
  <2>4. Slot(WireSeq(D + 1), g.mask) # Slot(WireSeq(k), g.mask)
    BY <1>2, <1>4, <2>3, SlotsDiffer
  <2> QED
    BY <1>1, <2>1, <2>4
<1>8. ensure_size(t.inbuf, pk.seq_nr + 1, Ahead(t, pk) + 1) = g
  BY <1>2, <1>3 DEF g
<1>9. full = [u EXCEPT !.inbuf = put(g, pk.seq_nr, pk.data), !.reorder_count = @ + 1]
  BY <1>3
<1>10. \/ OutOfOrder(t, pk) = t
       \/ OutOfOrder(t, pk) = u
       \/ get(g, WireSeq(k)) = NULL /\ OutOfOrder(t, pk) = schedule_ack(full)
  <2>1. Assert(u, "inbuf: slot of ack_nr + 1 is free",
               Slot(pk.seq_nr, g.mask) # Slot(t.ack_nr + 1, g.mask)) = u
    BY <1>3, <1>7 DEF Assert
  <2> DEFINE dropped == (t.got_fin /\ pk.seq_nr > t.eof_pkt) \/ Ahead(t, pk) > 1023
  <2>2. OutOfOrder(t, pk) = IF dropped THEN t
                            ELSE IF get(g, pk.seq_nr) # NULL THEN u ELSE schedule_ack(full)
    <3> HIDE DEF pk
    <3> QED
      BY <1>8, <1>9, <2>1, Zenon DEF OutOfOrder
  <2> HIDE DEF dropped, full, u, pk
  <2> QED
    BY <1>3, <2>2
<1>11. get(g, WireSeq(k)) = NULL => IInv(full)
  <2>1. get(g, WireSeq(k)) = NULL => Cell(u, k) = NULL
    BY <1>5 DEF Cell
  <2>2. k > Done(u) + 1 /\ k <= Done(u) + u.inbuf.mask /\ (HASFIN /\ k = LAST => u.got_fin)
    BY <1>2, <1>4, <1>5, <1>6
  <2>3. full = [u EXCEPT !.inbuf = put(u.inbuf, WireSeq(k), Payload[k]),
                         !.reorder_count = u.reorder_count + 1]
    BY <1>5
  <2> HIDE DEF u, full
  <2> QED
    BY <1>4, <1>6, <2>1, <2>2, <2>3, PutInv
<1> HIDE DEF u, full
<1> QED
  BY <1>4, <1>10, <1>11, ScheduleAckInv
===============================================================================
