-------------------------- MODULE UtpDeliveryLemmas ---------------------------
(***************************************************************************)
(* The delivery loop of utp_process_incoming: which packets it takes out   *)
(* of the reorder buffer, and what it leaves there.                        *)
(***************************************************************************)
EXTENDS UtpReceiverLemmas, WellFoundedInduction

\* A set of natural numbers has a least element.
LEMMA LeastNumber ==
    ASSUME NEW T \in SUBSET Nat, T # {}
    PROVE  \E x \in T : \A y \in T : x <= y
<1> DEFINE R == OpToRel(<, Nat)
<1>1. IsWellFoundedOn(R, Nat)
  BY NatLessThanWellFounded
<1>2. \A x, y \in Nat : x < y => <<x, y>> \in R
  BY DEF OpToRel
<1> HIDE DEF R
<1>3. PICK x \in T : \A y \in T : ~(<<y, x>> \in R)
  BY <1>1, WFMin
<1>4. ASSUME NEW y \in T
      PROVE  x <= y
  <2>1. x \in Nat /\ y \in Nat
    OBVIOUS
  <2>2. ~(y < x)
    BY <1>2, <1>3, <2>1
  <2> QED
    BY <2>1, <2>2
<1> QED
  BY <1>4

\* The delivery loop leaves at the first place where it can.
LEMMA DrainedFirst ==
    ASSUME NEW t, t.reorder_count \in Nat
    PROVE  /\ Drained(t) \in 0 .. t.reorder_count
           /\ DrainStops(t, Drained(t))
           /\ \A j \in 0 .. Drained(t) - 1 : ~DrainStops(t, j)
<1> DEFINE T == {j \in 0 .. t.reorder_count : DrainStops(t, j)}
<1>1. t.reorder_count \in T
  BY DEF DrainStops
<1>2. T \in SUBSET Nat
  OBVIOUS
<1>4. PICK x \in T : \A y \in T : x <= y
  <2> HIDE DEF T
  <2> QED
    BY <1>1, <1>2, LeastNumber
<1>3. x \in 0 .. t.reorder_count /\ DrainStops(t, x) /\ \A j \in 0 .. x - 1 : ~DrainStops(t, j)
  BY <1>4
<1> QED
  BY <1>3 DEF Drained

\* A function on 1 .. n is a sequence of length n.
LEMMA FunctionIsSeq ==
    ASSUME NEW S, NEW n \in Nat, NEW f \in [1 .. n -> S]
    PROVE  f \in Seq(S) /\ Len(f) = n
<1>1. f \in Seq(S)
  OBVIOUS
<1>2. DOMAIN f = 1 .. n /\ DOMAIN f = 1 .. Len(f) /\ Len(f) \in Nat
  BY <1>1, LenProperties
<1> QED
  BY <1>1, <1>2

\* The number of packets of an interval of the stream.
LEMMA IntervalSize ==
    ASSUME NEW a \in Nat, NEW n \in Nat
    PROVE  Cardinality(a + 1 .. a + n) = n
<1> DEFINE lo == a + 1
           hi == a + n
<1>1. lo \in Int /\ hi \in Int /\ n = (IF lo > hi THEN 0 ELSE hi - lo + 1)
  OBVIOUS
<1> HIDE DEF lo, hi
<1>2. Cardinality(lo .. hi) = IF lo > hi THEN 0 ELSE hi - lo + 1
  BY <1>1, FS_Interval, Zenon
<1>3. Cardinality(lo .. hi) = n
  BY <1>1, <1>2
<1> QED
  BY <1>3 DEF lo, hi

\* The bytes of finitely many finite payloads are finitely many.
LEMMA FiniteBytes ==
    ASSUME NEW n \in Nat, NEW f, \A i \in 1 .. n : IsFiniteSet(f[i])
    PROVE  Cardinality(UNION {f[i] : i \in 1 .. n}) \in Nat
<1> DEFINE S == {f[i] : i \in 1 .. n}
           g == [i \in 1 .. n |-> f[i]]
<1>1. g \in Surjection(1 .. n, S)
  BY DEF Surjection
<1>2. IsFiniteSet(1 .. n)
  <2>1. 1 \in Int /\ n \in Int
    OBVIOUS
  <2> QED
    BY <2>1, FS_Interval, Zenon
<1>3. IsFiniteSet(S)
  BY <1>1, <1>2, FS_Surjection
<1>4. \A T \in S : IsFiniteSet(T)
  OBVIOUS
<1> HIDE DEF S
<1>5. IsFiniteSet(UNION S)
  BY <1>3, <1>4, FS_UNION
<1>6. Cardinality(UNION S) \in Nat
  BY <1>5, FS_CardinalityType
<1> QED
  BY <1>6 DEF S

\* A socket that differs from t only in fields Core does not mention satisfies
\* it too.
LEMMA CoreFrame ==
    ASSUME NEW t, Core(t), NEW u, u \in Socket(t.inbuf.mask),
           u.inbuf = t.inbuf, u.delivered = t.delivered, u.ack_nr = t.ack_nr,
           u.reorder_count = t.reorder_count, u.got_fin = t.got_fin,
           u.eof_pkt = t.eof_pkt,
           t.read_shutdown => u.read_shutdown, u.failed = {}, AcksTruthful(u)
    PROVE  Core(u) /\ Done(u) = Done(t) /\ (\A k : Cell(u, k) = Cell(t, k)) /\ Held(u) = Held(t)
<1>1. Done(u) = Done(t) /\ (\A k : Cell(u, k) = Cell(t, k)) /\ Held(u) = Held(t)
  BY DEF Done, Cell, Held
<1> QED
  BY <1>1 DEF Core

\* What the delivery loop takes out: the packets that follow without a gap.
LEMMA DrainedHeld ==
    ASSUME NEW t, Mid(t)
    PROVE  /\ Drained(t) \in Nat /\ Drained(t) < t.inbuf.mask
           /\ Drained(t) <= t.reorder_count
           /\ \A i \in 1 .. Drained(t) : Done(t) + i \in Held(t)
<1> DEFINE n == Drained(t)
           D == Done(t)
           m == t.inbuf.mask
<1>1. /\ m \in Masks /\ m \in Nat /\ m >= 1 /\ D \in Nat /\ t.reorder_count \in Nat
      /\ t.ack_nr = WireSeq(D) /\ Cell(t, D + m) = NULL
  BY SocketFields DEF Mid, Core
<1>2. n \in 0 .. t.reorder_count /\ \A j \in 0 .. n - 1 : ~DrainStops(t, j)
  BY <1>1, DrainedFirst
<1>3. n \in Nat /\ n <= t.reorder_count
  BY <1>1, <1>2
<1> HIDE DEF n
<1>4. ASSUME NEW i \in 1 .. n
      PROVE  Cell(t, D + i) # NULL
  <2>1. i - 1 \in 0 .. n - 1 /\ i \in Int
    BY <1>3
  <2>2. get(t.inbuf, t.ack_nr + 1 + (i - 1)) # NULL
    BY <1>2, <2>1 DEF DrainStops
  <2>3. WireSeq(D) \in Int
    BY <1>1, WireSeqType
  <2>4. t.ack_nr + 1 + (i - 1) = WireSeq(D) + i
    BY <1>1, <2>1, <2>3
  <2> QED
    BY <1>1, <2>1, <2>2, <2>4, CellAt
<1>5. n < m
  <2>1. SUFFICES ASSUME n >= m
                 PROVE  FALSE
    BY <1>1, <1>3
  <2>2. m \in 1 .. n
    BY <1>1, <1>3, <2>1
  <2> QED
    BY <1>1, <1>4, <2>2
<1>6. \A i \in 1 .. n : D + i \in D .. D + m
  BY <1>1, <1>3, <1>5
<1> QED
  BY <1>3, <1>4, <1>5, <1>6 DEF n, Held

\* The slots after the packets D + 1 .. D + n were taken out.
LEMMA EmptiedCells ==
    ASSUME NEW t, Core(t), NEW n \in Nat, NEW u, u.inbuf = Emptied(t, n)
    PROVE  /\ Emptied(t, n) \in Buffer(t.inbuf.mask, {NULL} \cup SUBSET Nat)
           /\ \A o \in 0 .. t.inbuf.mask :
                  Cell(u, Done(t) + 1 + o) = IF o < n THEN NULL ELSE Cell(t, Done(t) + 1 + o)
<1> DEFINE D == Done(t)
           m == t.inbuf.mask
           T == {NULL} \cup SUBSET Nat
<1>1. /\ m \in Masks /\ m \in Nat /\ D \in Nat /\ t.ack_nr = WireSeq(D)
      /\ t.inbuf \in Buffer(m, T)
  BY SocketFields DEF Core
<1>2. t.inbuf.elements \in [0 .. m -> T]
  BY <1>1 DEF Buffer
<1>3. Emptied(t, n) \in Buffer(m, T)
  BY <1>2 DEF Emptied, Buffer
<1>4. ASSUME NEW o \in 0 .. m
      PROVE  Cell(u, D + 1 + o) = IF o < n THEN NULL ELSE Cell(t, D + 1 + o)
  <2> DEFINE w == WireSeq(D + 1 + o)
             j == Slot(w, m)
  <2>1. D + 1 + o \in Int /\ WireSeq(D) \in Int
    BY <1>1, WireSeqType
  <2>2. w \in Int
    BY <2>1, WireSeqType
  <2>3. j \in 0 .. m
    BY <1>1, <2>2, SlotType
  <2>4. Slot(j - t.ack_nr - 1, m) = o
    <3>1. j \in Int /\ j - t.ack_nr - 1 = j - (WireSeq(D) + 1) /\ WireSeq(D) + 1 \in Int
      BY <1>1, <2>1, <2>3
    <3>2. Slot(j - (WireSeq(D) + 1), m) = Slot(w - (WireSeq(D) + 1), m)
      BY <1>1, <2>2, <3>1, SlotMinus
    <3>3. o - w \in Int /\ -(WireSeq(D) + 1) \in Int
      BY <1>1, <2>1, <2>2
    <3>4. Slot(w - (WireSeq(D) + 1), m) = Slot(o, m)
      <4>1. IRS + (D + 1 + o) \in Int /\ IRS + D \in Int
            /\ (IRS + (D + 1 + o)) - (IRS + D) - 1 = o
        BY <1>1, ConstantTypes
      <4>2. Wrap(w - WireSeq(D) - 1) = Wrap(o)
        BY <4>1, WrapMinus DEF WireSeq
      <4>3. w - WireSeq(D) - 1 \in Int /\ w - WireSeq(D) - 1 = w - (WireSeq(D) + 1) /\ o \in Int
        BY <1>1, <2>1, <2>2
      <4>4. Slot(Wrap(w - WireSeq(D) - 1), m) = Slot(w - WireSeq(D) - 1, m)
        BY <1>1, <4>3, SlotWrap
      <4>5. Slot(Wrap(o), m) = Slot(o, m)
        BY <1>1, <4>3, SlotWrap
      <4> QED
        BY <4>2, <4>3, <4>4, <4>5
    <3>5. Slot(o, m) = o
      BY <1>1 DEF Slot
    <3> QED
      BY <3>1, <3>2, <3>4, <3>5
  <2>5. Cell(u, D + 1 + o) = Emptied(t, n).elements[j]
    BY DEF Cell, get, Emptied
  <2>6. Cell(t, D + 1 + o) = t.inbuf.elements[j]
    BY DEF Cell, get
  <2> HIDE DEF j
  <2> QED
    BY <2>3, <2>4, <2>5, <2>6 DEF Emptied
<1> QED
  BY <1>3, <1>4

\* What is posted for a packet: its payload, or nothing after read_shutdown.
LEMMA PostedFacts ==
    ASSUME NEW t, t.read_shutdown \in BOOLEAN, NEW k \in 1 .. LAST
    PROVE  LET p == Posted(t, Payload[k])
           IN  /\ p \in SUBSET Nat /\ IsFiniteSet(p) /\ Cardinality(p) \in Nat
               /\ p = Payload[k] \/ (t.read_shutdown /\ p = {})
<1> DEFINE p == Posted(t, Payload[k])
<1>1. Payload[k] \in SUBSET Nat /\ IsFiniteSet(Payload[k])
  BY PayloadFacts
<1>2. IsFiniteSet({})
  BY FS_EmptySet
<1>3. p = Payload[k] \/ (t.read_shutdown /\ p = {})
  BY DEF Posted
<1>4. p \in SUBSET Nat /\ IsFiniteSet(p)
  BY <1>1, <1>2, <1>3
<1>5. Cardinality(p) \in Nat
  BY <1>4, FS_CardinalityType
<1> QED
  BY <1>3, <1>4, <1>5

\* Consuming the expected packet leads to the start of the delivery loop.
LEMMA AdvanceMid ==
    ASSUME NEW t, IInv(t), t.out = {}, Admitted(t, Done(t) + 1),
           HASFIN /\ Done(t) + 1 = LAST => t.got_fin
    PROVE  LET p == Posted(t, Payload[Done(t) + 1])
           IN  Mid([t EXCEPT !.ack_nr = Wrap(t.ack_nr + 1),
                             !.delivered = Append(t.delivered, p),
                             !.readbuf = t.readbuf + Cardinality(p)])
<1> DEFINE D == Done(t)
           m == t.inbuf.mask
           p == Posted(t, Payload[D + 1])
           a == Wrap(t.ack_nr + 1)
           d == Append(t.delivered, p)
           r == t.readbuf + Cardinality(p)
           u == [t EXCEPT !.ack_nr = a, !.delivered = d, !.readbuf = r]
<1>1. /\ m \in Masks /\ m \in Nat /\ m >= 1 /\ D \in Nat /\ t \in Socket(m)
      /\ t.failed = {} /\ t.delivered \in Seq(SUBSET Nat) /\ D = Len(t.delivered)
      /\ Cell(t, D) = NULL /\ Cell(t, D + 1) = NULL /\ t.readbuf \in Nat
      /\ t.ack_nr = WireSeq(D)
  BY SocketFields DEF IInv, Core, Done
<1>2. D + 1 \in 1 .. LAST /\ D + 1 <= LAST
  BY ConstantTypes DEF Admitted
<1>3. /\ p \in SUBSET Nat /\ Cardinality(p) \in Nat
      /\ p = Payload[D + 1] \/ (t.read_shutdown /\ p = {})
  <2>1. t.read_shutdown \in BOOLEAN
    BY <1>1 DEF Socket
  <2> QED
    BY <1>2, <2>1, PostedFacts
<1> HIDE DEF p
<1>4. a = WireSeq(D + 1) /\ a \in SeqNr
  <2>0. D \in Int /\ 1 \in Int /\ D + 1 \in Int
    BY <1>1
  <2>1. Wrap(WireSeq(D) + 1) = WireSeq(D + 1)
    BY <2>0, WireSeqPlus, Zenon
  <2>2. WireSeq(D + 1) \in SeqNr
    BY <2>0, WireSeqType
  <2> QED
    BY <1>1, <2>1, <2>2
<1>5. /\ d \in Seq(SUBSET Nat) /\ Len(d) = D + 1 /\ d[D + 1] = p
      /\ \A i \in 1 .. D : d[i] = t.delivered[i]
  BY <1>1, <1>3, AppendProperties
<1>6. r \in Nat
  BY <1>1, <1>3
<1> HIDE DEF a, d, r
<1>7. u \in Socket(m)
  BY <1>1, <1>4, <1>5, <1>6 DEF Socket
<1>8. /\ u.ack_nr = a /\ u.delivered = d /\ u.inbuf = t.inbuf
      /\ u.reorder_count = t.reorder_count /\ u.got_fin = t.got_fin
      /\ u.eof_pkt = t.eof_pkt /\ u.got_fin_reached = t.got_fin_reached
      /\ u.read_shutdown = t.read_shutdown /\ u.failed = t.failed /\ u.out = t.out
  BY <1>1 DEF Socket
<1> HIDE DEF u
<1>9. Done(u) = D + 1 /\ \A j : Cell(u, j) = Cell(t, j)
  BY <1>5, <1>8 DEF Done, Cell
<1>10. Cell(t, D + m + 1) = NULL /\ D + m + 1 = D + 1 + m
  <2>1. Cell(t, D + m + 1) = NULL
    BY <1>1, CellPeriod
  <2> QED
    BY <1>1, <2>1
<1>11. Held(u) = Held(t)
  <2>1. ASSUME NEW j \in Int
        PROVE  j \in Held(u) <=> j \in Held(t)
    <3>1. j \in Held(t) <=> j >= D /\ j <= D + m /\ Cell(t, j) # NULL
      BY <1>1 DEF Held
    <3>2. j \in Held(u) <=> j >= D + 1 /\ j <= D + 1 + m /\ Cell(t, j) # NULL
      BY <1>1, <1>8, <1>9 DEF Held
    <3>3. j # D => (j >= D <=> j >= D + 1)
      BY <1>1
    <3>4. j # D + 1 + m => (j <= D + m <=> j <= D + 1 + m)
      BY <1>1
    <3>5. j = D + 1 + m \/ j = D => Cell(t, j) = NULL
      BY <1>1, <1>10
    <3> QED
      BY <3>1, <3>2, <3>3, <3>4, <3>5
  <2>2. Held(u) \subseteq Int /\ Held(t) \subseteq Int
    BY <1>1, <1>8, <1>9 DEF Held
  <2> QED
    BY <2>1, <2>2
<1>12. \A i \in 1 .. D + 1 : d[i] = Payload[i] \/ (t.read_shutdown /\ d[i] = {})
  <2>1. \A i \in 1 .. D : t.delivered[i] = Payload[i] \/ (t.read_shutdown /\ t.delivered[i] = {})
    BY DEF IInv, Core
  <2>2. \A i \in 1 .. D + 1 : i \in 1 .. D \/ i = D + 1
    BY <1>1
  <2> QED
    BY <1>3, <1>5, <2>1, <2>2
<1>13. u.got_fin => HASFIN /\ u.eof_pkt = WireSeq(LAST) /\ LAST <= D + 1 + 1024
  <2>1. t.got_fin => HASFIN /\ t.eof_pkt = WireSeq(LAST) /\ LAST <= D + 1024
    BY DEF IInv, Core
  <2> QED
    BY <1>1, <1>8, <2>1, ConstantTypes
<1>14. HASFIN /\ (LAST = D + 1 \/ LAST \in Held(u)) => u.got_fin
  BY <1>8, <1>11 DEF IInv, Core
<1>15. AcksTruthful(u)
  BY <1>8 DEF AcksTruthful
<1>16. \A k \in Held(u) : k <= LAST /\ Cell(u, k) = Payload[k]
  BY <1>9, <1>11 DEF IInv, Core
<1>17. u.reorder_count = Cardinality(Held(u))
  BY <1>8, <1>11 DEF IInv, Core
<1>18. Core(u)
  BY <1>1, <1>2, <1>4, <1>7, <1>8, <1>9, <1>12, <1>13, <1>14, <1>15, <1>16, <1>17 DEF Core
<1>19. ~t.got_fin_reached
  <2>1. D # LAST
    BY <1>1, <1>2, ConstantTypes
  <2> QED
    BY <2>1 DEF IInv
<1>20. Mid(u)
  BY <1>8, <1>9, <1>10, <1>18, <1>19 DEF Mid
<1> QED
  BY <1>20 DEF u, a, d, r, p

\* The packets left in the reorder buffer when the loop has taken n out.
LEMMA DrainedLeaves ==
    ASSUME NEW t, Mid(t), NEW u, u.inbuf = Emptied(t, Drained(t)),
           Done(u) = Done(t) + Drained(t)
    PROVE  /\ Cell(u, Done(u)) = NULL
           /\ Held(u) = Held(t) \ (Done(t) + 1 .. Done(t) + Drained(t))
           /\ \A k \in Held(u) : k > Done(u) /\ Cell(u, k) = Cell(t, k)
           /\ Cell(u, Done(u) + 1) = Cell(t, Done(t) + 1 + Drained(t))
<1> DEFINE n == Drained(t)
           D == Done(t)
           m == t.inbuf.mask
<1>1. /\ m \in Masks /\ m \in Nat /\ m >= 1 /\ D \in Nat /\ Core(t)
      /\ Cell(t, D) = NULL /\ Cell(t, D + m) = NULL
  BY SocketFields DEF Mid, Core
<1>2. n \in Nat /\ n < m
  BY DrainedHeld
<1>3. /\ u.inbuf.mask = m
      /\ \A o \in 0 .. m : Cell(u, D + 1 + o) = IF o < n THEN NULL ELSE Cell(t, D + 1 + o)
  <2>1. u.inbuf.mask = m
    BY DEF Emptied
  <2> QED
    BY <1>1, <1>2, <2>1, EmptiedCells
<1>4. Done(u) = D + n
  OBVIOUS
<1> HIDE DEF n
<1>5. Cell(t, D + m + 1) = NULL
  BY <1>1, CellPeriod
<1>6. ASSUME NEW j \in Int, j >= D + 1, j <= D + m + 1
      PROVE  Cell(u, j) = IF j <= D + n THEN NULL ELSE Cell(t, j)
  <2>1. j - D - 1 \in 0 .. m /\ D + 1 + (j - D - 1) = j /\ (j - D - 1 < n <=> j <= D + n)
    BY <1>1, <1>2, <1>6
  <2> QED
    BY <1>3, <2>1
<1>7. Cell(u, D) = NULL
  <2>1. Cell(u, D + m + 1) = Cell(u, D)
    BY <1>1, <1>3, CellPeriod
  <2>2. D + m + 1 \in Int /\ D + m + 1 >= D + 1 /\ D + m + 1 <= D + m + 1
    BY <1>1
  <2>3. Cell(u, D + m + 1) = IF D + m + 1 <= D + n THEN NULL ELSE Cell(t, D + m + 1)
    BY <1>6, <2>2
  <2> QED
    BY <1>5, <2>1, <2>3
<1>8. Cell(u, D + n) = NULL
  <2>1. CASE n = 0
    <3>1. D + n = D
      BY <1>1, <2>1
    <3> QED
      BY <1>7, <3>1
  <2>2. CASE n # 0
    <3>1. D + n \in Int /\ D + n >= D + 1 /\ D + n <= D + m + 1
      BY <1>1, <1>2, <2>2
    <3>2. Cell(u, D + n) = IF D + n <= D + n THEN NULL ELSE Cell(t, D + n)
      BY <1>6, <3>1
    <3> QED
      BY <3>1, <3>2
  <2> QED
    BY <2>1, <2>2
<1>9. ASSUME NEW j \in Int
      PROVE  /\ j \in Held(u) <=> j \in Held(t) /\ j > D + n
             /\ j \in Held(u) => Cell(u, j) = Cell(t, j)
  <2>1. j \in Held(t) <=> j >= D /\ j <= D + m /\ Cell(t, j) # NULL
    BY <1>1 DEF Held
  <2>2. j \in Held(u) <=> j >= D + n /\ j <= D + n + m /\ Cell(u, j) # NULL
    BY <1>1, <1>2, <1>3, <1>4 DEF Held
  <2>3. CASE j <= D + n
    <3>1. j = D + n \/ j < D + n
      BY <1>1, <1>2, <2>3
    <3>2. j \notin Held(u)
      BY <1>1, <1>2, <1>8, <2>2, <3>1
    <3> QED
      BY <1>1, <1>2, <2>3, <3>2
  <2>4. CASE j > D + n /\ j <= D + m + 1
    <3>1. j >= D + 1
      BY <1>1, <1>2, <2>4
    <3>2. Cell(u, j) = Cell(t, j)
      <4>1. ~(j <= D + n)
        BY <1>1, <1>2, <2>4
      <4> QED
        BY <1>6, <2>4, <3>1, <4>1
    <3>3. j <= D + m \/ j = D + m + 1
      BY <1>1, <2>4
    <3>4. j >= D + n /\ j <= D + n + m + 1 /\ (j <= D + m => j <= D + n + m) /\ j >= D
      BY <1>1, <1>2, <2>4
    <3> QED
      BY <1>5, <2>1, <2>2, <2>4, <3>2, <3>3, <3>4
  <2>5. CASE j > D + m + 1
    <3>1. j \notin Held(t)
      BY <1>1, <2>1, <2>5
    <3>2. ASSUME j <= D + n + m
          PROVE  Cell(u, j) = NULL
      <4> DEFINE i == j - m - 1
      <4>1. i \in Int /\ i >= D + 1 /\ i <= D + m + 1 /\ i <= D + n /\ i + m + 1 = j
        BY <1>1, <1>2, <2>5, <3>2
      <4> HIDE DEF i
      <4>2. Cell(u, i) = NULL
        BY <1>6, <4>1
      <4>3. Cell(u, i + m + 1) = Cell(u, i)
        BY <1>1, <1>3, <4>1, CellPeriod
      <4> QED
        BY <4>1, <4>2, <4>3
    <3> QED
      BY <2>2, <3>1, <3>2
  <2> QED
    BY <1>1, <1>2, <2>3, <2>4, <2>5
<1>10. Held(u) \subseteq Int /\ Held(t) \subseteq Int
  BY <1>1, <1>2, <1>3, <1>4 DEF Held
<1>11. Held(u) = Held(t) \ (D + 1 .. D + n)
  <2>1. ASSUME NEW j \in Held(t)
        PROVE  j > D + n <=> j \notin D + 1 .. D + n
    <3>1. j \in Int /\ j >= D /\ Cell(t, j) # NULL
      BY <1>1 DEF Held
    <3>2. j # D
      BY <1>1, <3>1
    <3> QED
      BY <1>1, <1>2, <3>1, <3>2
  <2> QED
    BY <1>9, <1>10, <2>1
<1>12. Cell(u, D + n + 1) = Cell(t, D + 1 + n)
  <2>1. D + n + 1 \in Int /\ D + n + 1 >= D + 1 /\ D + n + 1 <= D + m + 1
        /\ ~(D + n + 1 <= D + n) /\ D + n + 1 = D + 1 + n
    BY <1>1, <1>2
  <2> QED
    BY <1>6, <2>1
<1> QED
  BY <1>4, <1>8, <1>9, <1>10, <1>11, <1>12 DEF n

\* The FIN is reached exactly when the packets taken out complete the stream.
LEMMA EofExact ==
    ASSUME NEW t, Mid(t)
    PROVE  EofAt(t, Drained(t)) <=> HASFIN /\ Done(t) + Drained(t) = LAST
<1> DEFINE n == Drained(t)
           D == Done(t)
<1>1. /\ D \in Nat /\ t.ack_nr = WireSeq(D) /\ ~t.got_fin_reached /\ D <= LAST
      /\ t.got_fin => HASFIN /\ t.eof_pkt = WireSeq(LAST) /\ LAST <= D + 1024
      /\ HASFIN /\ (LAST = D \/ LAST \in Held(t)) => t.got_fin
      /\ \A k \in Held(t) : k <= LAST
  BY SocketFields DEF Mid, Core
<1>2. n \in Nat /\ \A i \in 1 .. n : D + i \in Held(t)
  BY DrainedHeld
<1> HIDE DEF n
<1>3. D + n <= LAST
  <2>1. CASE n = 0
    BY <1>1, <2>1
  <2>2. CASE n # 0
    <3>1. n \in 1 .. n
      BY <1>2, <2>2
    <3> QED
      BY <1>1, <1>2, <3>1
  <2> QED
    BY <2>1, <2>2
<1>4. Wrap(t.ack_nr + n) = WireSeq(D + n)
  <2>1. D \in Int /\ n \in Int
    BY <1>1, <1>2
  <2> QED
    BY <1>1, <2>1, WireSeqPlus
<1>5. ASSUME EofAt(t, n)
      PROVE  HASFIN /\ D + n = LAST
  <2>1. HASFIN /\ WireSeq(D + n) = WireSeq(LAST) /\ LAST <= D + 1024
    BY <1>1, <1>4, <1>5 DEF EofAt
  <2>2. D + n \in Int /\ LAST \in Int /\ LAST < D + n + 65536
    BY <1>1, <1>2, <2>1, ConstantTypes
  <2> QED
    BY <1>3, <2>1, <2>2, WireSeqInjective
<1>6. ASSUME HASFIN, D + n = LAST
      PROVE  EofAt(t, n)
  <2>1. t.got_fin
    <3>1. CASE n = 0
      BY <1>1, <1>6, <3>1
    <3>2. CASE n # 0
      <4>1. n \in 1 .. n
        BY <1>2, <3>2
      <4> QED
        BY <1>1, <1>2, <1>6, <4>1
    <3> QED
      BY <3>1, <3>2
  <2> QED
    BY <1>1, <1>4, <1>6, <2>1 DEF EofAt
<1> QED
  BY <1>5, <1>6 DEF n

\* The socket after the delivery loop, before the FIN is looked at.
LEMMA DrainedCore ==
    ASSUME NEW t, Mid(t)
    PROVE  LET n == Drained(t)
               posted == [i \in 1 .. n |-> Posted(t, get(t.inbuf, t.ack_nr + i))]
               v == [t EXCEPT !.ack_nr = Wrap(t.ack_nr + n), !.inbuf = Emptied(t, n),
                              !.reorder_count = t.reorder_count - n,
                              !.delivered = t.delivered \o posted,
                              !.readbuf = t.readbuf
                                          + Cardinality(UNION {posted[i] : i \in 1 .. n})]
           IN  /\ Core(v) /\ Done(v) = Done(t) + n /\ Cell(v, Done(v) + 1) = NULL
               /\ v.got_fin_reached = FALSE /\ v.out = {}
               /\ \A k \in Held(v) : k > Done(v)
               /\ \A i \in 1 .. Done(t) : v.delivered[i] = t.delivered[i]
<1> DEFINE n == Drained(t)
           D == Done(t)
           m == t.inbuf.mask
           T == {NULL} \cup SUBSET Nat
           posted == [i \in 1 .. n |-> Posted(t, get(t.inbuf, t.ack_nr + i))]
           a == Wrap(t.ack_nr + n)
           b == Emptied(t, n)
           c == t.reorder_count - n
           d == t.delivered \o posted
           r == t.readbuf + Cardinality(UNION {posted[i] : i \in 1 .. n})
           v == [t EXCEPT !.ack_nr = a, !.inbuf = b, !.reorder_count = c,
                          !.delivered = d, !.readbuf = r]
<1>1. /\ m \in Masks /\ m \in Nat /\ m >= 1 /\ D \in Nat /\ t \in Socket(m) /\ Core(t)
      /\ t.failed = {} /\ t.delivered \in Seq(SUBSET Nat) /\ D = Len(t.delivered)
      /\ t.readbuf \in Nat /\ t.reorder_count \in Nat /\ t.ack_nr = WireSeq(D)
      /\ ~t.got_fin_reached /\ t.out = {}
  BY SocketFields DEF Mid, Core, Done
<1>2. /\ n \in Nat /\ n < m /\ n <= t.reorder_count
      /\ \A i \in 1 .. n : D + i \in Held(t)
  BY DrainedHeld
<1>3. DrainStops(t, n)
  BY <1>1, DrainedFirst
<1>4. EofAt(t, n) <=> HASFIN /\ D + n = LAST
  BY EofExact
<1>5. \A k \in Held(t) : k <= LAST /\ Cell(t, k) = Payload[k]
  BY <1>1 DEF Core
<1>6. b \in Buffer(m, T)
  <2> DEFINE u == [inbuf |-> b]
  <2>1. u.inbuf = b
    OBVIOUS
  <2> HIDE DEF u
  <2> QED
    BY <1>1, <1>2, <2>1, EmptiedCells
<1> HIDE DEF n
<1>7. a = WireSeq(D + n) /\ a \in SeqNr
  <2>1. D \in Int /\ n \in Int /\ D + n \in Int
    BY <1>1, <1>2
  <2>2. Wrap(WireSeq(D) + n) = WireSeq(D + n)
    BY <2>1, WireSeqPlus
  <2>3. WireSeq(D + n) \in SeqNr
    BY <2>1, WireSeqType
  <2> QED
    BY <1>1, <2>2, <2>3
<1>8. ASSUME NEW i \in 1 .. n
      PROVE  /\ posted[i] \in SUBSET Nat /\ IsFiniteSet(posted[i]) /\ D + i <= LAST
             /\ posted[i] = Payload[D + i] \/ (t.read_shutdown /\ posted[i] = {})
  <2>1. D \in Int /\ i \in Int
    BY <1>1, <1>2
  <2>2. get(t.inbuf, t.ack_nr + i) = Cell(t, D + i)
    BY <1>1, <2>1, CellAt
  <2>3. posted[i] = Posted(t, Payload[D + i])
    BY <1>2, <1>5, <2>2
  <2>4. D + i \in 1 .. LAST
    BY <1>1, <1>2, <1>5, ConstantTypes
  <2>5. t.read_shutdown \in BOOLEAN
    BY <1>1 DEF Socket
  <2> QED
    BY <1>2, <1>5, <2>3, <2>4, <2>5, PostedFacts
<1>9. posted \in Seq(SUBSET Nat) /\ Len(posted) = n
  <2>1. posted \in [1 .. n -> SUBSET Nat]
    BY <1>8
  <2> HIDE DEF posted
  <2> QED
    BY <1>2, <2>1, FunctionIsSeq
<1> HIDE DEF posted
<1>10. Cardinality(UNION {posted[i] : i \in 1 .. n}) \in Nat
  BY <1>2, <1>8, FiniteBytes
<1>11. r \in Nat /\ c \in Nat
  BY <1>1, <1>2, <1>10
<1>12. /\ d \in Seq(SUBSET Nat) /\ Len(d) = D + n
       /\ \A i \in 1 .. D + n : d[i] = IF i <= D THEN t.delivered[i] ELSE posted[i - D]
  <2>1. /\ d \in Seq(SUBSET Nat) /\ Len(d) = Len(t.delivered) + Len(posted)
        /\ \A i \in 1 .. Len(t.delivered) + Len(posted) :
               d[i] = IF i <= Len(t.delivered) THEN t.delivered[i]
                      ELSE posted[i - Len(t.delivered)]
    <3>1. t.delivered \in Seq(SUBSET Nat) /\ posted \in Seq(SUBSET Nat)
      BY <1>1, <1>9
    <3> QED
      BY <3>1, ConcatProperties, Zenon
  <2> QED
    BY <1>1, <1>9, <2>1, Zenon
<1> HIDE DEF a, b, d, r
<1>13. v \in Socket(m)
  <2> HIDE DEF c
  <2> QED
    BY <1>1, <1>6, <1>7, <1>11, <1>12 DEF Socket
<1>14. /\ v.ack_nr = a /\ v.inbuf = b /\ v.reorder_count = c /\ v.delivered = d
       /\ v.got_fin = t.got_fin /\ v.eof_pkt = t.eof_pkt
       /\ v.got_fin_reached = FALSE
       /\ v.read_shutdown = t.read_shutdown /\ v.failed = t.failed /\ v.out = t.out
  <2>1. t.got_fin_reached = FALSE
    BY <1>1 DEF Socket
  <2> QED
    BY <1>1, <2>1 DEF Socket
<1> HIDE DEF v
<1>15. Done(v) = D + n
  BY <1>12, <1>14 DEF Done
<1>16. /\ Cell(v, D + n) = NULL
       /\ Held(v) = Held(t) \ (D + 1 .. D + n)
       /\ \A k \in Held(v) : k > D + n /\ Cell(v, k) = Cell(t, k)
       /\ Cell(v, D + n + 1) = Cell(t, D + 1 + n)
  BY <1>14, <1>15, DrainedLeaves DEF n, b
<1>17. v.reorder_count = Cardinality(Held(v))
  <2>1. IsFiniteSet(Held(t)) /\ t.reorder_count = Cardinality(Held(t))
    BY <1>1, HeldFinite DEF Core
  <2>2. Held(t) \cap (D + 1 .. D + n) = D + 1 .. D + n
    <3>1. ASSUME NEW j \in D + 1 .. D + n
          PROVE  j \in Held(t)
      <4>1. j - D \in 1 .. n /\ D + (j - D) = j
        BY <1>1, <1>2
      <4> QED
        BY <1>2, <4>1
    <3> QED
      BY <3>1
  <2>4. Cardinality(D + 1 .. D + n) = n
    BY <1>1, <1>2, IntervalSize
  <2>5. Cardinality(Held(t) \ (D + 1 .. D + n))
            = Cardinality(Held(t)) - Cardinality(Held(t) \cap (D + 1 .. D + n))
    BY <2>1, FS_Difference
  <2> QED
    BY <1>14, <1>16, <2>1, <2>2, <2>4, <2>5
<1>18. D + n <= LAST
  <2>1. CASE n = 0
    BY <1>1, <2>1 DEF Core
  <2>2. CASE n # 0
    <3>1. n \in 1 .. n
      BY <1>2, <2>2
    <3> QED
      BY <1>8, <3>1
  <2> QED
    BY <2>1, <2>2
<1>19. \A i \in 1 .. D + n : d[i] = Payload[i] \/ (t.read_shutdown /\ d[i] = {})
  <2>1. \A i \in 1 .. D : t.delivered[i] = Payload[i] \/ (t.read_shutdown /\ t.delivered[i] = {})
    BY <1>1 DEF Core
  <2> SUFFICES ASSUME NEW i \in 1 .. D + n
               PROVE  d[i] = Payload[i] \/ (t.read_shutdown /\ d[i] = {})
    OBVIOUS
  <2>2. CASE i <= D
    BY <1>1, <1>12, <2>1, <2>2
  <2>3. CASE ~(i <= D)
    <3>1. i - D \in 1 .. n /\ D + (i - D) = i
      BY <1>1, <1>2, <2>3
    <3> QED
      BY <1>8, <1>12, <2>3, <3>1
  <2> QED
    BY <2>2, <2>3
<1>20. \A k \in Held(v) : k <= LAST /\ Cell(v, k) = Payload[k]
  BY <1>5, <1>16
<1>21. v.got_fin => HASFIN /\ v.eof_pkt = WireSeq(LAST) /\ LAST <= D + n + 1024
  <2>1. t.got_fin => HASFIN /\ t.eof_pkt = WireSeq(LAST) /\ LAST <= D + 1024
    BY <1>1 DEF Core
  <2> QED
    BY <1>1, <1>2, <1>14, <2>1, ConstantTypes
<1>22. HASFIN /\ (LAST = D + n \/ LAST \in Held(v)) => v.got_fin
  <2>1. HASFIN /\ LAST \in Held(t) => t.got_fin
    BY <1>1 DEF Core
  <2>2. HASFIN /\ LAST = D + n => t.got_fin
    BY <1>4 DEF EofAt
  <2> QED
    BY <1>14, <1>16, <2>1, <2>2
<1>23. AcksTruthful(v)
  BY <1>1, <1>14 DEF AcksTruthful
<1>24. Core(v)
  <2>1. b.mask = m
    BY <1>6 DEF Buffer
  <2> QED
    BY <1>1, <1>7, <1>13, <1>14, <1>15, <1>16, <1>17, <1>18, <1>19, <1>20, <1>21,
       <1>22, <1>23, <2>1 DEF Core
<1>25. Cell(v, D + n + 1) = NULL
  <2>1. D + n + 1 \in Held(v) \/ Cell(v, D + n + 1) = NULL
    <3>1. b.mask = m /\ D + n + 1 \in D + n .. D + n + m
      BY <1>1, <1>2, <1>6 DEF Buffer
    <3> QED
      BY <1>14, <1>15, <3>1 DEF Held
  <2>2. CASE EofAt(t, n)
    <3>1. ~(D + n + 1 <= LAST)
      BY <1>1, <1>2, <1>4, <2>2, ConstantTypes
    <3> QED
      BY <1>20, <2>1, <3>1
  <2>3. CASE t.reorder_count - n = 0
    <3>1. IsFiniteSet(Held(v)) /\ Cardinality(Held(v)) = 0
      BY <1>14, <1>17, <1>24, <2>3, HeldFinite
    <3>2. Held(v) = {}
      BY <3>1, FS_EmptySet
    <3> QED
      BY <2>1, <3>2
  <2>4. CASE get(t.inbuf, t.ack_nr + 1 + n) = NULL
    <3>0. D \in Int /\ n \in Int
      BY <1>1, <1>2
    <3>1. WireSeq(D) \in Int /\ D \in Int /\ 1 + n \in Int /\ D + (1 + n) = D + 1 + n
      <4>1. 1 + n \in Int /\ D + (1 + n) = D + 1 + n
        BY <3>0
      <4> QED
        BY <3>0, <4>1, WireSeqType
    <3>2. t.ack_nr + 1 + n = WireSeq(D) + (1 + n)
      BY <1>1, <1>2, <3>1
    <3>3. get(t.inbuf, WireSeq(D) + (1 + n)) = Cell(t, D + (1 + n))
      BY <1>1, <3>1, CellAt
    <3> QED
      BY <1>16, <2>4, <3>1, <3>2, <3>3
  <2> QED
    BY <1>3, <2>2, <2>3, <2>4 DEF DrainStops
<1>26. \A i \in 1 .. D : v.delivered[i] = t.delivered[i]
  <2>1. \A i \in 1 .. D : i \in 1 .. D + n /\ i <= D
    BY <1>1, <1>2
  <2> QED
    BY <1>12, <1>14, <2>1
<1>27. /\ Core(v) /\ Done(v) = Done(t) + n /\ Cell(v, Done(v) + 1) = NULL
       /\ v.got_fin_reached = FALSE /\ v.out = {}
       /\ \A k \in Held(v) : k > Done(v)
       /\ \A i \in 1 .. Done(t) : v.delivered[i] = t.delivered[i]
  BY <1>1, <1>14, <1>15, <1>16, <1>24, <1>25, <1>26
<1> QED
  BY <1>27 DEF v, a, b, c, d, r, posted, n
===============================================================================
