-------------------------- MODULE UtpReceiverProofs ---------------------------
(***************************************************************************)
(* The safety of the receiving half of a socket, for every initial         *)
(* sequence number, stream length, payload and buffer size.                *)
(***************************************************************************)
EXTENDS UtpDeliveryLemmas

\* What was consumed stays consumed.
Grows(t, u) == Done(u) >= Done(t) /\ \A i \in 1 .. Done(t) : u.delivered[i] = t.delivered[i]

\* The FIN was reached: EOF is posted, and nothing is left in the buffer.
LEMMA ReachFinInv ==
    ASSUME NEW v, Core(v), Cell(v, Done(v) + 1) = NULL, v.out = {},
           HASFIN, Done(v) = LAST, \A k \in Held(v) : k > Done(v)
    PROVE  IInv(ReachFin(v)) /\ ReachFin(v).delivered = v.delivered
<1> DEFINE m == v.inbuf.mask
           w == [v EXCEPT !.got_fin_reached = TRUE, !.rto_timeout = TRUE]
           x == send_ack(w)
           y == [x EXCEPT !.reorder_count = 0]
<1>1. v \in Socket(m) /\ m \in Masks /\ v.failed = {} /\ AcksTruthful(v)
      /\ v.reorder_count = Cardinality(Held(v))
  BY DEF Core
<1>2. w \in Socket(m)
  BY <1>1 DEF Socket
<1>3. /\ w.inbuf = v.inbuf /\ w.delivered = v.delivered /\ w.ack_nr = v.ack_nr
      /\ w.reorder_count = v.reorder_count /\ w.got_fin = v.got_fin
      /\ w.eof_pkt = v.eof_pkt /\ w.got_fin_reached = TRUE
      /\ w.read_shutdown = v.read_shutdown /\ w.failed = v.failed /\ w.out = v.out
  BY <1>1 DEF Socket
<1> HIDE DEF w
<1>4. AcksTruthful(w)
  BY <1>3 DEF AcksTruthful
<1>5. Core(w) /\ Done(w) = Done(v) /\ (\A k : Cell(w, k) = Cell(v, k)) /\ Held(w) = Held(v)
  BY <1>1, <1>2, <1>3, <1>4, CoreFrame
<1>6. IInv(w)
  BY <1>3, <1>5 DEF IInv
<1>7. IInv(x)
  BY <1>6, SendAckInv
<1>8. get(w.inbuf, w.ack_nr + 1) = NULL
  BY <1>6, IInvFields
<1>9. /\ x \in Socket(m) /\ x.inbuf = w.inbuf /\ x.delivered = w.delivered
      /\ x.reorder_count = w.reorder_count /\ x.failed = w.failed
      /\ x.inbuf.mask = m
  BY <1>1, <1>2, <1>3, <1>8, SendAckResult
<1> HIDE DEF x
<1>10. x.reorder_count = 0
  <2>1. Held(v) = {}
    <3>1. \A k \in Held(v) : k <= LAST /\ k \in Int
      BY SocketFields DEF Core, Held
    <3>2. \A k \in Held(v) : FALSE
      BY <3>1, ConstantTypes
    <3> QED
      BY <3>2
  <2> QED
    BY <1>1, <1>3, <1>9, <2>1, FS_EmptySet
<1>11. y = x
  BY <1>9, <1>10 DEF Socket
<1>12. ReachFin(v) = y
  BY DEF ReachFin, x, w
<1> QED
  BY <1>3, <1>7, <1>9, <1>11, <1>12

\* The delivery loop, to its end.
LEMMA DrainInv ==
    ASSUME NEW t, Mid(t)
    PROVE  IInv(Drain(t)) /\ Grows(t, Drain(t))
<1> DEFINE n == Drained(t)
           posted == [i \in 1 .. n |-> Posted(t, get(t.inbuf, t.ack_nr + i))]
           v == [t EXCEPT !.ack_nr = Wrap(t.ack_nr + n), !.inbuf = Emptied(t, n),
                          !.reorder_count = t.reorder_count - n,
                          !.delivered = t.delivered \o posted,
                          !.readbuf = t.readbuf
                                      + Cardinality(UNION {posted[i] : i \in 1 .. n})]
<1>1. /\ Core(v) /\ Done(v) = Done(t) + n /\ Cell(v, Done(v) + 1) = NULL
      /\ v.got_fin_reached = FALSE /\ v.out = {}
      /\ \A k \in Held(v) : k > Done(v)
      /\ \A i \in 1 .. Done(t) : v.delivered[i] = t.delivered[i]
  BY DrainedCore, Zenon
<1>2. n \in Nat /\ Done(t) \in Nat
  BY DrainedHeld, SocketFields DEF Mid
<1>3. EofAt(t, n) <=> HASFIN /\ Done(v) = LAST
  BY <1>1, EofExact
<1>4. Drain(t) = IF EofAt(t, n) THEN ReachFin(v) ELSE v
  BY Zenon DEF Drain
<1> HIDE DEF v, n
<1>5. Grows(t, v)
  BY <1>1, <1>2 DEF Grows
<1>6. CASE EofAt(t, n)
  <2>1. IInv(ReachFin(v)) /\ ReachFin(v).delivered = v.delivered
    BY <1>1, <1>3, <1>6, ReachFinInv
  <2>2. Grows(t, ReachFin(v))
    BY <1>5, <2>1 DEF Grows, Done
  <2> QED
    BY <1>4, <1>6, <2>1, <2>2
<1>7. CASE ~EofAt(t, n)
  <2>1. IInv(v)
    BY <1>1, <1>3, <1>7 DEF IInv
  <2> QED
    BY <1>4, <1>5, <1>7, <2>1
<1> QED
  BY <1>6, <1>7

\* The expected packet: consumed, with the buffered ones that follow it.
LEMMA InOrderInv ==
    ASSUME NEW t, IInv(t), t.out = {}, Admitted(t, Done(t) + 1),
           HASFIN /\ Done(t) + 1 = LAST => t.got_fin
    PROVE  LET u == InOrder(t, Packet(Done(t) + 1))
           IN  IInv(u) /\ Grows(t, u)
<1> DEFINE D == Done(t)
           p == Posted(t, Payload[D + 1])
           d == Append(t.delivered, p)
           w == [t EXCEPT !.ack_nr = Wrap(t.ack_nr + 1), !.delivered = d,
                          !.readbuf = t.readbuf + Cardinality(p)]
           x == Drain(w)
<1>1. Mid(w)
  BY AdvanceMid, Zenon
<1>2. InOrder(t, Packet(D + 1)) = schedule_ack(x)
  <2>1. Packet(D + 1).data = Payload[D + 1]
    BY DEF Packet
  <2> QED
    BY <2>1, Zenon DEF InOrder
<1>3. t \in Socket(t.inbuf.mask) /\ D \in Nat /\ t.delivered \in Seq(SUBSET Nat)
      /\ D = Len(t.delivered)
  BY SocketFields DEF IInv, Core, Done
<1>4. w.delivered = d
  BY <1>3 DEF Socket
<1>5. p \in SUBSET Nat
  <2>1. t.read_shutdown \in BOOLEAN /\ D + 1 \in 1 .. LAST
    BY <1>3 DEF Socket, Admitted
  <2> QED
    BY <2>1, PostedFacts
<1> HIDE DEF w, p
<1>6. Len(d) = D + 1 /\ \A i \in 1 .. D : d[i] = t.delivered[i]
  BY <1>3, <1>5, AppendProperties
<1> HIDE DEF d
<1>7. IInv(x) /\ Grows(w, x)
  BY <1>1, DrainInv
<1>8. x \in Socket(x.inbuf.mask) /\ Done(x) \in Nat
  BY <1>7, IInvFields
<1> HIDE DEF x
<1>9. schedule_ack(x).delivered = x.delivered
  BY <1>8 DEF schedule_ack, Socket
<1>10. Done(x) >= D + 1 /\ \A i \in 1 .. D + 1 : x.delivered[i] = d[i]
  BY <1>4, <1>6, <1>7 DEF Grows, Done
<1>11. Grows(t, schedule_ack(x))
  <2>1. \A i \in 1 .. D : i \in 1 .. D + 1
    BY <1>3
  <2>2. Done(x) >= D
    BY <1>3, <1>8, <1>10
  <2>3. Done(schedule_ack(x)) = Done(x)
    BY <1>9 DEF Done
  <2> QED
    BY <1>6, <1>9, <1>10, <2>1, <2>2, <2>3 DEF Grows
<1> QED
  BY <1>2, <1>7, <1>11, ScheduleAckInv

\* The fields the other handlers leave alone.
LEMMA OutOfOrderDelivered ==
    ASSUME NEW t, NEW m, t \in Socket(m), NEW pk
    PROVE  OutOfOrder(t, pk).delivered = t.delivered
<1> DEFINE g == ensure_size(t.inbuf, pk.seq_nr + 1, Ahead(t, pk) + 1)
           u == [t EXCEPT !.inbuf = g]
           s1 == Assert(u, "inbuf: slot of ack_nr + 1 is free",
                        Slot(pk.seq_nr, g.mask) # Slot(t.ack_nr + 1, g.mask))
           b == put(g, pk.seq_nr, pk.data)
           full == [s1 EXCEPT !.inbuf = b, !.reorder_count = @ + 1]
<1> HIDE DEF g
<1>1. DOMAIN u = DOMAIN t /\ u.delivered = t.delivered
  BY DEF Socket
<1>2. s1 = u \/ s1 = [u EXCEPT !.failed = @ \cup {"inbuf: slot of ack_nr + 1 is free"}]
  BY Zenon DEF Assert
<1>3. s1.delivered = t.delivered /\ DOMAIN s1 = DOMAIN t
  BY <1>1, <1>2 DEF Socket
<1> HIDE DEF s1, b
<1>4. schedule_ack(full).delivered = t.delivered
  BY <1>3 DEF schedule_ack, Socket
<1>5. OutOfOrder(t, pk) \in {t, u, schedule_ack(full)}
  BY Zenon DEF OutOfOrder, s1, g, b
<1> QED
  BY <1>1, <1>4, <1>5

\* utp_process_incoming for a packet in the reorder window.
LEMMA ReceivePayloadInv ==
    ASSUME NEW t, IInv(t), t.out = {}, NEW k, Admitted(t, k)
    PROVE  LET u == ReceivePayload(t, Packet(k)) IN IInv(u) /\ Grows(t, u)
<1> DEFINE pk == Packet(k)
           g == GotFin(t, pk)
<1>1. /\ IInv(g) /\ Admitted(g, k) /\ (HASFIN /\ k = LAST => g.got_fin)
      /\ g.out = {} /\ g.delivered = t.delivered
  BY GotFinInv
<1>2. Done(g) = Done(t) /\ g \in Socket(g.inbuf.mask) /\ Done(t) \in Nat
  BY <1>1, IInvFields DEF Done
<1>3. ReceivePayload(t, pk) = IF Ahead(t, pk) = 0 THEN InOrder(g, pk) ELSE OutOfOrder(g, pk)
  BY Zenon DEF ReceivePayload
<1>4. Ahead(t, pk) = k - Done(t) - 1 /\ k \in Int
  BY ConstantTypes DEF Admitted
<1> HIDE DEF g
<1>5. CASE Ahead(t, pk) = 0
  <2>1. k = Done(g) + 1
    BY <1>2, <1>4, <1>5
  <2>2. IInv(InOrder(g, pk)) /\ Grows(g, InOrder(g, pk))
    BY <1>1, <2>1, InOrderInv
  <2>3. Grows(t, InOrder(g, pk))
    BY <1>1, <1>2, <2>2 DEF Grows
  <2> QED
    BY <1>3, <1>5, <2>2, <2>3
<1>6. CASE Ahead(t, pk) # 0
  <2>1. k # Done(g) + 1
    BY <1>2, <1>4, <1>6
  <2>2. IInv(OutOfOrder(g, pk))
    BY <1>1, <2>1, OutOfOrderInv
  <2>3. OutOfOrder(g, pk).delivered = t.delivered
    BY <1>1, <1>2, OutOfOrderDelivered
  <2>4. Grows(t, OutOfOrder(g, pk))
    BY <1>2, <2>3 DEF Grows, Done
  <2> QED
    BY <1>3, <1>6, <2>2, <2>4
<1> QED
  BY <1>5, <1>6

-------------------------------------------------------------------------------
\* A new socket satisfies the invariant.
LEMMA InitInv ==
    ASSUME Init
    PROVE  IInv(s)
<1> DEFINE T == {NULL} \cup SUBSET Nat
<1>1. /\ s.inbuf = EmptyBuffer /\ s.delivered = << >> /\ s.ack_nr = IRS /\ s.out = {}
      /\ s.failed = {} /\ s.reorder_count = 0 /\ s.got_fin = FALSE
      /\ s.got_fin_reached = FALSE
  BY DEF Init
<1>2. /\ EmptyBuffer.mask = INITIAL_MASK /\ EmptyBuffer \in Buffer(INITIAL_MASK, T)
      /\ INITIAL_MASK \in Masks /\ INITIAL_MASK \in Nat
  BY InitialMaskAssumption, MaskType DEF EmptyBuffer, Buffer
<1>3. IRS \in SeqNr /\ 1 \in SeqNr /\ 0 \in SeqNr
  <2>1. 1 \in SeqNr /\ 0 \in SeqNr
    <3>1. SEQ_NR_MASK \in Int /\ 1 <= SEQ_NR_MASK
      BY DEF SEQ_NR_MASK
    <3> QED
      BY <3>1 DEF SeqNr
  <2> QED
    BY <2>1, StreamAssumption
<1>4. << >> \in Seq(SUBSET Nat) /\ Len(<< >>) = 0
  BY EmptySeq
<1>5. s \in Socket(INITIAL_MASK)
  BY <1>2, <1>3, <1>4, RcvbufAssumption, SMT DEF Init, Socket
<1>6. Done(s) = 0
  BY <1>1, <1>4 DEF Done
<1>7. WireSeq(0) = IRS
  <2>1. IRS \in Int /\ IRS >= 0 /\ IRS < 65536 /\ IRS + 0 = IRS
    BY ConstantTypes
  <2> QED
    BY <2>1, WrapSmall DEF WireSeq
<1>8. \A k \in Int : Cell(s, k) = NULL
  <2> SUFFICES ASSUME NEW k \in Int
               PROVE  Cell(s, k) = NULL
    OBVIOUS
  <2>1. Slot(WireSeq(k), INITIAL_MASK) \in 0 .. INITIAL_MASK
    BY <1>2, WireSeqType, SlotType
  <2> QED
    BY <1>1, <1>2, <2>1 DEF Cell, get, EmptyBuffer
<1>9. Held(s) = {} /\ Cardinality(Held(s)) = 0
  <2>1. Held(s) = {}
    BY <1>1, <1>2, <1>6, <1>8 DEF Held
  <2> QED
    BY <2>1, FS_EmptySet
<1>10. Core(s)
  <2>1. AcksTruthful(s)
    BY <1>1 DEF AcksTruthful
  <2>2. HASFIN => LAST # 0
    BY StreamAssumption
  <2>3. 0 <= LAST /\ \A i \in 1 .. 0 : FALSE
    BY ConstantTypes
  <2> QED
    BY <1>1, <1>2, <1>5, <1>6, <1>7, <1>8, <1>9, <2>1, <2>2, <2>3 DEF Core
<1> QED
  <2>1. HASFIN => LAST # 0
    BY StreamAssumption
  <2> QED
    BY <1>1, <1>6, <1>8, <1>10, <2>1 DEF IInv

\* Handlers that consume nothing.
LEMMA GrowsSame ==
    ASSUME NEW t, NEW u, Done(t) \in Nat, u.delivered = t.delivered
    PROVE  Grows(t, u)
BY DEF Grows, Done

\* send_ack delivers nothing.
LEMMA SendAckDelivered ==
    ASSUME NEW t, IInv(t)
    PROVE  send_ack(t).delivered = t.delivered
BY IInvFields, SendAckResult

\* send_keep_alive delivers nothing.
LEMMA KeepAliveDelivered ==
    ASSUME NEW t, NEW m, t \in Socket(m)
    PROVE  send_keep_alive(t).delivered = t.delivered
<1> DEFINE v == [t EXCEPT !.ack_nr = Wrap(t.ack_nr - 1)]
           x == send_ack(v)
<1>1. DOMAIN v = DOMAIN t /\ v.delivered = t.delivered
  BY DEF Socket
<1> HIDE DEF v
<1>2. x.delivered = v.delivered /\ DOMAIN x = DOMAIN v
  BY <1>1 DEF send_ack, Assert, Socket
<1>3. send_keep_alive(t) = [x EXCEPT !.ack_nr = t.ack_nr]
  BY DEF send_keep_alive, v
<1> HIDE DEF x
<1> QED
  BY <1>1, <1>2, <1>3 DEF Socket

\* Every step of the socket keeps the invariant, and what was consumed.
LEMMA NextInv ==
    ASSUME IInv(s), [Next]_s
    PROVE  IInv(s') /\ Grows(s, s')
<1>1. /\ Done(s) \in Nat /\ s \in Socket(s.inbuf.mask) /\ s.ack_nr = WireSeq(Done(s))
      /\ s.inbuf.mask \in Masks
  BY IInvFields
<1>2. IInv(Fresh) /\ Fresh.out = {} /\ Fresh.delivered = s.delivered
      /\ Fresh.ack_nr = s.ack_nr /\ Fresh.readbuf = s.readbuf
  BY <1>1, FreshInv DEF Fresh, Socket
<1>3. Done(Fresh) = Done(s)
  BY <1>2 DEF Done
<1>4. \A u : u.delivered = s.delivered => Grows(s, u)
  BY <1>1, GrowsSame
<1>5. ASSUME NEW k \in InTransit, Receive(k)
      PROVE  IInv(s') /\ Grows(s, s')
  <2> DEFINE pk == Packet(k)
  <2>1. CASE Ahead(s, pk) >= REORDER_BUFFER_MAX_SIZE
    <3>1. s' = OldPacket(Fresh, pk)
      BY <1>5, <2>1 DEF Receive
    <3>2. s' = schedule_ack(Fresh) \/ s' = Fresh
      BY <3>1 DEF OldPacket
    <3>3. schedule_ack(Fresh).delivered = s.delivered
      BY <1>1 DEF schedule_ack, Fresh, Socket
    <3> QED
      BY <1>2, <1>4, <3>2, <3>3, ScheduleAckInv
  <2>2. CASE ~(Ahead(s, pk) >= REORDER_BUFFER_MAX_SIZE)
    <3>1. s' = ReceivePayload(Fresh, pk)
      BY <1>5, <2>2 DEF Receive
    <3>2. Ahead(Fresh, pk) = Ahead(s, pk)
      BY <1>2 DEF Ahead
    <3>3. Ahead(Fresh, pk) < REORDER_BUFFER_MAX_SIZE
      <4>1. Ahead(s, pk) \in Int
        <5>1. k \in Int
          BY ConstantTypes DEF InTransit
        <5>2. WireSeq(k) \in Int /\ WireSeq(Done(s)) \in Int
          BY <1>1, <5>1, WireSeqType
        <5>3. WireSeq(k) - WireSeq(Done(s)) - 1 \in Int
          BY <5>2
        <5>4. Wrap(WireSeq(k) - WireSeq(Done(s)) - 1) \in SeqNr
          BY <5>3, WrapType
        <5>5. Ahead(s, pk) \in SeqNr
          BY <1>1, <5>4 DEF Ahead, Packet
        <5> QED
          BY <5>5, SeqNrType
      <4> QED
        BY <2>2, <3>2, <4>1, ConstantTypes
    <3>4. Admitted(Fresh, k)
      BY <1>1, <1>2, <1>3, <3>3, TransitAdmitted DEF InTransit, Consumed, Done
    <3>5. IInv(s') /\ Grows(Fresh, s')
      BY <1>2, <3>1, <3>4, ReceivePayloadInv
    <3> QED
      BY <1>2, <1>3, <3>5 DEF Grows
  <2> QED
    BY <2>1, <2>2
<1>6. CASE IssueDeferredAck
  BY <1>2, <1>4, <1>6, SendAckInv, SendAckDelivered DEF IssueDeferredAck
<1>7. CASE KeepAlive
  <2> DEFINE f == Fresh
             v == [f EXCEPT !.ack_nr = Wrap(f.ack_nr - 1)]
  <2>1. s' = send_keep_alive(f) /\ IInv(s')
    BY <1>2, <1>7, KeepAliveInv DEF KeepAlive
  <2>2. f \in Socket(f.inbuf.mask) /\ f.delivered = s.delivered
    BY <1>2, IInvFields
  <2>3. send_keep_alive(f).delivered = f.delivered
    BY <2>2, KeepAliveDelivered
  <2> QED
    BY <1>4, <2>1, <2>2, <2>3
<1>8. ASSUME NEW n \in 1 .. s.readbuf, Read(n)
      PROVE  IInv(s') /\ Grows(s, s')
  <2> DEFINE f == Fresh
             u == [f EXCEPT !.readbuf = f.readbuf - n]
  <2>1. IInv(u)
    BY <1>2, TakeInv
  <2>2. s' = u \/ s' = utp_read_drained(u)
    BY <1>8 DEF Read
  <2>3. u.delivered = s.delivered
    BY <1>1 DEF Fresh, Socket
  <2>4. u \in Socket(u.inbuf.mask)
    BY <2>1, IInvFields
  <2> HIDE DEF u
  <2>5. utp_read_drained(u).delivered = u.delivered
    <3>1. schedule_ack(u).delivered = u.delivered
      BY <2>4 DEF schedule_ack, Socket
    <3>2. send_ack(u).delivered = u.delivered
      BY <2>1, SendAckDelivered
    <3> QED
      BY <3>1, <3>2 DEF utp_read_drained
  <2> QED
    BY <1>4, <2>1, <2>2, <2>3, <2>5, ReadDrainedInv
<1>9. CASE ShutdownRead
  <2>1. s' = [Fresh EXCEPT !.read_shutdown = TRUE]
    BY <1>9 DEF ShutdownRead
  <2>2. s'.delivered = s.delivered
    BY <1>1, <2>1 DEF Fresh, Socket
  <2> QED
    BY <1>2, <1>4, <2>1, <2>2, ShutdownInv
<1>10. CASE s' = s
  BY <1>4, <1>10
<1> QED
  BY <1>5, <1>6, <1>7, <1>8, <1>9, <1>10 DEF Next

-------------------------------------------------------------------------------
\* The inductive invariant of the receiving half, as a predicate of its state.
ReceiverInv == IInv(s)

\* The inductive invariant holds in every state of the receiving half.
THEOREM ReceiverInvHolds == Spec => []ReceiverInv
<1>1. Init => ReceiverInv
  BY InitInv DEF ReceiverInv
<1>2. ReceiverInv /\ [Next]_s => ReceiverInv'
  BY NextInv DEF ReceiverInv
<1> QED
  BY <1>1, <1>2, PTL DEF Spec

\* The socket record keeps its type: 16-bit sequence numbers, a reorder buffer
\* whose size is a power of two, and acks with at most 30 EACK bits.
THEOREM TypeCorrect == Spec => []TypeOK
<1>1. ReceiverInv => TypeOK
  BY DEF ReceiverInv, IInv, Core, TypeOK
<1> QED
  BY <1>1, ReceiverInvHolds, PTL

\* utp_process_incoming consumes each packet once and in order, whatever the
\* network does to the packets in transit.
THEOREM StreamDelivered == Spec => []InOrderExactlyOnce
<1>1. ReceiverInv => InOrderExactlyOnce
  BY DEF ReceiverInv, IInv, Core, Done, InOrderExactlyOnce, Consumed
<1> QED
  BY <1>1, ReceiverInvHolds, PTL

\* reorder_count counts the packets of the reorder buffer, and each of them is
\* a packet after the expected one, in its own slot.
THEOREM ReorderBufferCorrect == Spec => []ReorderBufferSound
<1>1. ReceiverInv => ReorderBufferSound
  <2> SUFFICES ASSUME IInv(s)
               PROVE  ReorderBufferSound
    BY DEF ReceiverInv
  <2>1. BufferedPackets = Held(s) /\ Consumed = Done(s)
    BY DEF BufferedPackets, Held, Cell, Consumed, Done
  <2>2. s.reorder_count = Cardinality(Held(s)) /\ s.inbuf.mask \in Nat /\ Done(s) \in Nat
    BY SocketFields DEF IInv, Core
  <2>3. ASSUME NEW k \in Held(s)
        PROVE  k \in Done(s) + 2 .. LAST /\ Cell(s, k) = Payload[k]
    <3>1. k \in Int /\ k >= Done(s) /\ Cell(s, k) # NULL
      BY <2>2 DEF Held
    <3>2. k <= LAST /\ Cell(s, k) = Payload[k]
      BY DEF IInv, Core
    <3>3. Cell(s, Done(s)) = NULL /\ Cell(s, Done(s) + 1) = NULL
      BY DEF IInv, Core
    <3>4. k # Done(s) /\ k # Done(s) + 1
      BY <3>1, <3>3
    <3> QED
      BY <2>2, <3>1, <3>2, <3>4, ConstantTypes
  <2> QED
    BY <2>1, <2>2, <2>3 DEF ReorderBufferSound, Cell
<1> QED
  BY <1>1, ReceiverInvHolds, PTL

\* EOF is posted exactly when the whole stream and its FIN are consumed.
THEOREM EofCorrect == Spec => []EofAfterEverything
<1>1. ReceiverInv => EofAfterEverything
  BY DEF ReceiverInv, IInv, Done, EofAfterEverything, Consumed
<1> QED
  BY <1>1, ReceiverInvHolds, PTL

\* send_ack and send_keep_alive claim only packets of the reorder buffer.
THEOREM EackCorrect == Spec => []EackTruthful
<1>1. ReceiverInv => EackTruthful
  <2> SUFFICES ASSUME IInv(s)
               PROVE  EackTruthful
    BY DEF ReceiverInv
  <2>1. BufferedPackets = Held(s)
    BY DEF BufferedPackets, Held, Cell, Consumed, Done
  <2>2. AcksTruthful(s)
    BY DEF IInv, Core
  <2> QED
    BY <2>1, <2>2 DEF AcksTruthful, EackTruthful
<1> QED
  BY <1>1, ReceiverInvHolds, PTL

\* The assertions of send_ack and of the out-of-order branch hold.
THEOREM AssertionsHold == Spec => []NoAssertFails
<1>1. ReceiverInv => NoAssertFails
  BY DEF ReceiverInv, IInv, Core, NoAssertFails
<1> QED
  BY <1>1, ReceiverInvHolds, PTL

\* ack_nr moves forward by the number of packets consumed in the step.
THEOREM AckMovesForward == Spec => AckNeverRetreats
<1> DEFINE A == /\ Consumed' >= Consumed
                /\ s'.ack_nr = Wrap(s.ack_nr + Consumed' - Consumed)
                /\ \A i \in 1 .. Consumed : s'.delivered[i] = s.delivered[i]
<1>1. ReceiverInv /\ ReceiverInv' /\ [Next]_s => [A]_s
  <2> SUFFICES ASSUME IInv(s), IInv(s'), [Next]_s
               PROVE  A
    BY DEF ReceiverInv
  <2>1. Grows(s, s')
    BY NextInv
  <2> DEFINE D == Done(s)
             E == Done(s')
  <2>2. /\ D \in Nat /\ s.ack_nr = WireSeq(D)
        /\ E \in Nat /\ s'.ack_nr = WireSeq(E)
    BY IInvFields
  <2>3. Consumed = D /\ Consumed' = E
    BY DEF Consumed, Done
  <2> HIDE DEF D, E
  <2>4. D \in Int /\ E - D \in Int /\ D + (E - D) = E
    BY <2>2
  <2>5. WireSeq(D) \in Int
    BY <2>4, WireSeqType
  <2>6. WireSeq(D) + (E - D) = WireSeq(D) + E - D
    BY <2>2, <2>5
  <2>7. Wrap(WireSeq(D) + (E - D)) = WireSeq(D + (E - D))
    BY <2>4, WireSeqPlus
  <2>8. s'.ack_nr = Wrap(s.ack_nr + E - D)
    BY <2>2, <2>4, <2>6, <2>7
  <2>9. E >= D /\ \A i \in 1 .. D : s'.delivered[i] = s.delivered[i]
    BY <2>1 DEF Grows, D, E
  <2> QED
    BY <2>3, <2>8, <2>9
<1>2. Spec => [][A]_s
  BY <1>1, ReceiverInvHolds, PTL DEF Spec
<1> QED
  BY <1>2 DEF AckNeverRetreats
===============================================================================
