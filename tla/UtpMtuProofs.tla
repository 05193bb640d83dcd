----------------------------- MODULE UtpMtuProofs -----------------------------
(***************************************************************************)
(* The range of the MTU search is sound and only narrows, for every        *)
(* interface MTU, path, window and amount of faults.                       *)
(***************************************************************************)
EXTENDS UtpMtu, TLAPS, FiniteSetTheorems, WellFoundedInduction

SRec == [mtu_ceiling : Int, mtu_floor : Int, mtu_last : Int, mtu_probe_seq : Nat, mtu_probe_size : Int,
         due : BOOLEAN, duplicate_ack : Nat, fast_timeout : BOOLEAN]
PRec == [length : Int, transmissions : Nat, need_resend : BOOLEAN,
         at : {"queue", "network", "lost", "peer", "freed"}]

\* A range that is sound, whatever probe is in flight.
Bounds(x) ==
    /\ LowestFloor <= x.mtu_floor /\ x.mtu_floor <= x.mtu_last
    /\ x.mtu_last <= x.mtu_ceiling /\ x.mtu_ceiling <= UdpMtu
ProbeInside(x) == x.mtu_probe_seq # 0 => x.mtu_floor < x.mtu_probe_size /\ x.mtu_probe_size <= x.mtu_ceiling
Good(x) == x \in SRec /\ Bounds(x) /\ ProbeInside(x)

\* y is good, and comes from x without a new search.
Follows(x, y) ==
    /\ Good(y) /\ y.mtu_floor >= x.mtu_floor /\ y.mtu_ceiling <= x.mtu_ceiling /\ (y.due => x.due)

MtuInv == Good(s) /\ q \in Seq(PRec) /\ seq_nr \in Int /\ path \in Int

\* The lowest floor is 576 or the interface's MTU.
LEMMA LowestFloorType ==
    LowestFloor \in Nat /\ LowestFloor <= 576 /\ LowestFloor <= UdpMtu /\ UdpMtu \in Nat
BY MtuAssumption DEF LowestFloor, min, MTU_FLOOR_MIN

\* Repaired sets both ends of the range to values of their types.
LEMMA SetRange ==
    ASSUME NEW x \in SRec, NEW c \in Int, NEW f \in Int
    PROVE  [x EXCEPT !.mtu_ceiling = c, !.mtu_floor = f] \in SRec
BY DEF SRec

\* Bisected, at the end of the search, leaves a record of the same type.
LEMMA SetEnd ==
    ASSUME NEW x \in SRec, NEW l \in Int, NEW c \in Int, NEW d, d \in BOOLEAN
    PROVE  [x EXCEPT !.mtu_last = l, !.mtu_ceiling = c, !.due = d] \in SRec
BY DEF SRec

\* mtu_reset leaves a record of the same type.
LEMMA SetNew ==
    ASSUME NEW x \in SRec, NEW c \in Int, NEW f \in Int, NEW d, d \in BOOLEAN
    PROVE  [x EXCEPT !.mtu_ceiling = c, !.mtu_floor = f, !.due = d] \in SRec
BY DEF SRec

\* Setting and clearing the probe leaves a record of the same type.
LEMMA SetProbe ==
    ASSUME NEW x \in SRec, NEW n \in Nat, NEW z \in Int
    PROVE  [x EXCEPT !.mtu_probe_seq = n, !.mtu_probe_size = z] \in SRec
BY DEF SRec

\* The counters of utp_process_incoming are set to values of their types.
LEMMA SetAcks ==
    ASSUME NEW x \in SRec, NEW b \in BOOLEAN, NEW n \in Nat
    PROVE  [x EXCEPT !.fast_timeout = b, !.duplicate_ack = n] \in SRec
BY DEF SRec

\* The types of the fields.
LEMMA SFields ==
    ASSUME NEW x \in SRec
    PROVE  /\ x.mtu_ceiling \in Int /\ x.mtu_floor \in Int /\ x.mtu_last \in Int
           /\ x.mtu_probe_seq \in Nat /\ x.mtu_probe_size \in Int /\ x.due \in BOOLEAN
           /\ x.duplicate_ack \in Nat /\ x.fast_timeout \in BOOLEAN
BY DEF SRec

\* What mtu_search_update makes of any range: the search goes on inside it.
LEMMA SearchUpdate ==
    ASSUME NEW x \in SRec, LowestFloor <= x.mtu_floor, x.mtu_floor <= UdpMtu,
           LowestFloor <= x.mtu_ceiling, x.mtu_ceiling <= UdpMtu
    PROVE  /\ Good(mtu_search_update(x))
           /\ mtu_search_update(x).due => x.due
           /\ x.mtu_floor <= x.mtu_ceiling =>
                 /\ mtu_search_update(x).mtu_floor = x.mtu_floor
                 /\ mtu_search_update(x).mtu_ceiling <= x.mtu_ceiling
<1> DEFINE y == Repaired(x)
           z == Bisected(y)
           u == NoProbe(z)
<1>0. x.mtu_ceiling \in Int /\ x.mtu_floor \in Int /\ LowestFloor \in Nat /\ LowestFloor <= 576 /\ UdpMtu \in Nat
  BY SFields, LowestFloorType
<1>1. Halved(x.mtu_floor) \in Int /\ LowestFloor <= Halved(x.mtu_floor) /\ Halved(x.mtu_floor) <= x.mtu_floor
  BY <1>0 DEF Halved, MTU_FLOOR_MIN
<1>2. /\ y \in SRec /\ y.due = x.due
      /\ y.mtu_ceiling = IF x.mtu_floor > x.mtu_ceiling THEN x.mtu_floor ELSE x.mtu_ceiling
      /\ y.mtu_floor = IF x.mtu_floor > x.mtu_ceiling THEN Halved(x.mtu_floor) ELSE x.mtu_floor
  <2>1. CASE x.mtu_floor > x.mtu_ceiling
    <3>1. y = [x EXCEPT !.mtu_ceiling = x.mtu_floor, !.mtu_floor = Halved(x.mtu_floor)]
      BY <2>1 DEF Repaired
    <3>2. y \in SRec
      BY <1>0, <1>1, <3>1, SetRange
    <3> QED
      BY <2>1, <3>1, <3>2 DEF SRec
  <2>2. CASE ~(x.mtu_floor > x.mtu_ceiling)
    BY <2>2 DEF Repaired
  <2> QED
    BY <2>1, <2>2
<1> HIDE DEF y
<1>3. /\ y.mtu_ceiling \in Int /\ y.mtu_floor \in Int
      /\ LowestFloor <= y.mtu_floor /\ y.mtu_floor <= y.mtu_ceiling /\ y.mtu_ceiling <= UdpMtu
  BY <1>0, <1>1, <1>2
<1>4. /\ z \in SRec /\ (z.due => y.due) /\ z.mtu_floor = y.mtu_floor /\ z.mtu_ceiling <= y.mtu_ceiling
      /\ z.mtu_floor <= z.mtu_last /\ z.mtu_last <= z.mtu_ceiling
  <2>1. CASE y.mtu_floor <= y.mtu_ceiling /\ y.mtu_ceiling - y.mtu_floor <= 16
    <3>1. z = [y EXCEPT !.mtu_last = y.mtu_floor, !.mtu_ceiling = y.mtu_floor, !.due = FALSE]
      BY <2>1 DEF Bisected
    <3>2. z \in SRec
      <4>1. [y EXCEPT !.mtu_last = y.mtu_floor, !.mtu_ceiling = y.mtu_floor, !.due = FALSE] \in SRec
        BY <1>2, <1>3, SetEnd, Zenon
      <4> QED
        BY <3>1, <4>1, Zenon
    <3>3. z.mtu_floor = y.mtu_floor /\ z.mtu_ceiling = y.mtu_floor /\ z.mtu_last = y.mtu_floor /\ z.due = FALSE
      BY <1>2, <3>1 DEF SRec
    <3> QED
      BY <1>3, <3>2, <3>3
  <2>2. CASE ~(y.mtu_floor <= y.mtu_ceiling /\ y.mtu_ceiling - y.mtu_floor <= 16)
    <3> DEFINE m == (y.mtu_floor + y.mtu_ceiling) \div 2
    <3>1. z = [y EXCEPT !.mtu_last = m]
      BY <2>2 DEF Bisected
    <3>2. m \in Int /\ y.mtu_floor <= m /\ m <= y.mtu_ceiling
      BY <1>3
    <3> HIDE DEF m
    <3>3. z \in SRec /\ z.mtu_floor = y.mtu_floor /\ z.mtu_ceiling = y.mtu_ceiling /\ z.mtu_last = m /\ z.due = y.due
      BY <1>2, <3>1, <3>2 DEF SRec
    <3> QED
      BY <1>3, <3>2, <3>3
  <2> QED
    BY <2>1, <2>2
<1> HIDE DEF z
<1>5. /\ u \in SRec /\ u.mtu_probe_seq = 0 /\ u.due = z.due /\ u.mtu_floor = z.mtu_floor
      /\ u.mtu_ceiling = z.mtu_ceiling /\ u.mtu_last = z.mtu_last
  <2>1. u = [z EXCEPT !.mtu_probe_seq = 0, !.mtu_probe_size = 0]
    BY DEF NoProbe
  <2>2. 0 \in Nat /\ 0 \in Int
    OBVIOUS
  <2>3. u \in SRec
    BY <1>4, <2>1, <2>2, SetProbe
  <2> QED
    BY <1>4, <2>1, <2>3 DEF SRec
<1>6. mtu_search_update(x) = u
  BY DEF mtu_search_update, y, z
<1> HIDE DEF u
<1>7. u.mtu_ceiling \in Int /\ u.mtu_floor \in Int /\ u.mtu_last \in Int
  BY <1>5, SFields
<1>8. Good(u)
  BY <1>0, <1>3, <1>4, <1>5, <1>7 DEF Good, Bounds, ProbeInside
<1> QED
  BY <1>0, <1>2, <1>3, <1>4, <1>5, <1>6, <1>8

\* Follows goes on from step to step.
LEMMA FollowsTwice ==
    ASSUME NEW x \in SRec, NEW y, NEW z, Follows(x, y), Follows(y, z)
    PROVE  Follows(x, z)
<1>1. /\ y \in SRec /\ z \in SRec
  BY DEF Follows, Good
<1>2. /\ x.mtu_ceiling \in Int /\ x.mtu_floor \in Int /\ y.mtu_ceiling \in Int /\ y.mtu_floor \in Int
      /\ z.mtu_ceiling \in Int /\ z.mtu_floor \in Int
  BY <1>1, SFields
<1> QED
  BY <1>2 DEF Follows

\* A good search follows itself, and so does one whose counters change.
LEMMA FollowsSame ==
    ASSUME NEW x, NEW y \in SRec, Good(x), y.mtu_ceiling = x.mtu_ceiling, y.mtu_floor = x.mtu_floor,
           y.mtu_last = x.mtu_last, y.mtu_probe_seq = x.mtu_probe_seq,
           y.mtu_probe_size = x.mtu_probe_size, y.due = x.due
    PROVE  Follows(x, y)
<1>1. x.mtu_ceiling \in Int /\ x.mtu_floor \in Int
  BY SFields DEF Good
<1> QED
  BY <1>1 DEF Follows, Good, Bounds, ProbeInside

\* Forgetting the probe leaves the range as it is.
LEMMA FollowsNoProbe ==
    ASSUME NEW x, Good(x)
    PROVE  Follows(x, NoProbe(x))
<1> DEFINE u == NoProbe(x)
<1>1. x \in SRec /\ x.mtu_ceiling \in Int /\ x.mtu_floor \in Int /\ 0 \in Nat /\ 0 \in Int
  BY SFields DEF Good
<1>2. u = [x EXCEPT !.mtu_probe_seq = 0, !.mtu_probe_size = 0]
  BY DEF NoProbe
<1>3. u \in SRec
  BY <1>1, <1>2, SetProbe
<1>4. /\ u.mtu_probe_seq = 0 /\ u.due = x.due /\ u.mtu_floor = x.mtu_floor
      /\ u.mtu_ceiling = x.mtu_ceiling /\ u.mtu_last = x.mtu_last
  BY <1>1, <1>2 DEF SRec
<1> HIDE DEF u
<1>5. Follows(x, u)
  BY <1>1, <1>3, <1>4 DEF Follows, Good, Bounds, ProbeInside
<1> QED
  BY <1>5 DEF u

\* A probe that is lost takes the ceiling below it, one that is acked the floor
\* up to it.
LEMMA FollowsProbe ==
    ASSUME NEW x, Good(x), x.mtu_probe_seq # 0
    PROVE  Follows(x, ProbeLost(x)) /\ Follows(x, ProbeAcked(x))
<1> DEFINE c == x.mtu_probe_size - 1
           f == x.mtu_probe_size
           u == [x EXCEPT !.mtu_ceiling = c]
           v == [x EXCEPT !.mtu_floor = f]
<1>1. /\ x \in SRec /\ x.mtu_ceiling \in Int /\ x.mtu_floor \in Int /\ f \in Int /\ c \in Int
      /\ LowestFloor \in Nat /\ UdpMtu \in Nat
  BY SFields, LowestFloorType DEF Good
<1>2. /\ LowestFloor <= x.mtu_floor /\ x.mtu_floor <= c /\ x.mtu_floor < f /\ f <= x.mtu_ceiling
      /\ c <= x.mtu_ceiling /\ x.mtu_ceiling <= UdpMtu
  BY <1>1 DEF Good, Bounds, ProbeInside
<1> HIDE DEF c, f
<1>3. u \in SRec /\ u.mtu_ceiling = c /\ u.mtu_floor = x.mtu_floor /\ u.due = x.due
  BY <1>1 DEF SRec
<1>4. v \in SRec /\ v.mtu_floor = f /\ v.mtu_ceiling = x.mtu_ceiling /\ v.due = x.due
  BY <1>1 DEF SRec
<1>5. ProbeLost(x) = mtu_search_update(u) /\ ProbeAcked(x) = mtu_search_update(v)
  BY DEF ProbeLost, ProbeAcked, c, f
<1> HIDE DEF u, v
<1>6. /\ Good(mtu_search_update(u)) /\ (mtu_search_update(u).due => u.due)
      /\ mtu_search_update(u).mtu_floor = u.mtu_floor /\ mtu_search_update(u).mtu_ceiling <= u.mtu_ceiling
  <2>1. /\ LowestFloor <= u.mtu_floor /\ u.mtu_floor <= UdpMtu /\ LowestFloor <= u.mtu_ceiling
        /\ u.mtu_ceiling <= UdpMtu /\ u.mtu_floor <= u.mtu_ceiling
    BY <1>1, <1>2, <1>3
  <2> QED
    BY <1>3, <2>1, SearchUpdate
<1>7. /\ Good(mtu_search_update(v)) /\ (mtu_search_update(v).due => v.due)
      /\ mtu_search_update(v).mtu_floor = v.mtu_floor /\ mtu_search_update(v).mtu_ceiling <= v.mtu_ceiling
  <2>1. /\ LowestFloor <= v.mtu_floor /\ v.mtu_floor <= UdpMtu /\ LowestFloor <= v.mtu_ceiling
        /\ v.mtu_ceiling <= UdpMtu /\ v.mtu_floor <= v.mtu_ceiling
    BY <1>1, <1>2, <1>4
  <2> QED
    BY <1>4, <2>1, SearchUpdate
<1>8. mtu_search_update(u).mtu_ceiling \in Int /\ mtu_search_update(v).mtu_ceiling \in Int
  BY <1>6, <1>7, SFields DEF Good
<1> QED
  BY <1>1, <1>2, <1>3, <1>4, <1>5, <1>6, <1>7, <1>8 DEF Follows

\* A new search starts from the whole range.
LEMMA TimelyGood ==
    ASSUME NEW x, Good(x), NEW I
    PROVE  Good(Timely(x, I)) /\ (~x.due => Timely(x, I) = x)
<1> DEFINE u == mtu_reset(x)
<1>1. /\ x \in SRec /\ x.mtu_ceiling \in Int /\ x.mtu_floor \in Int /\ x.mtu_last \in Int
      /\ x.mtu_probe_size \in Int
      /\ LowestFloor \in Int /\ LowestFloor <= UdpMtu /\ UdpMtu \in Int /\ FALSE \in BOOLEAN
  BY SFields, LowestFloorType DEF Good
<1>2. u = [x EXCEPT !.mtu_ceiling = UdpMtu, !.mtu_floor = LowestFloor, !.due = FALSE]
  BY DEF mtu_reset
<1>3. u \in SRec
  <2>1. [x EXCEPT !.mtu_ceiling = UdpMtu, !.mtu_floor = LowestFloor, !.due = FALSE] \in SRec
    BY <1>1, SetNew, Zenon
  <2> QED
    BY <1>2, <2>1, Zenon
<1>4. /\ u.mtu_ceiling = UdpMtu /\ u.mtu_floor = LowestFloor /\ u.mtu_last = x.mtu_last
      /\ u.mtu_probe_seq = x.mtu_probe_seq /\ u.mtu_probe_size = x.mtu_probe_size
  BY <1>1, <1>2 DEF SRec
<1> HIDE DEF u
<1>5. Good(u)
  BY <1>1, <1>3, <1>4 DEF Good, Bounds, ProbeInside
<1> QED
  BY <1>5 DEF Timely, u

\* A set of packet numbers that is not empty has a least one.
LEMMA LeastPacket ==
    ASSUME NEW T, T \subseteq Nat, T # {}
    PROVE  Min(T) \in T /\ \A u \in T : Min(T) <= u
<1> DEFINE R == OpToRel(<, Nat)
<1>1. IsWellFoundedOn(R, Nat)
  BY NatLessThanWellFounded
<1>2. \A i, j \in Nat : i < j => <<i, j>> \in R
  BY DEF OpToRel
<1> HIDE DEF R
<1>3. PICK t \in T : \A u \in T : ~(<<u, t>> \in R)
  BY <1>1, WFMin
<1>4. ASSUME NEW u \in T
      PROVE  t <= u
  <2>1. t \in Nat /\ u \in Nat
    OBVIOUS
  <2>2. ~(u < t)
    BY <1>2, <1>3, <2>1
  <2> QED
    BY <2>1, <2>2
<1> QED
  BY <1>4 DEF Min

\* A packet that becomes the probe lies inside the range.
LEMMA ProbingGood ==
    ASSUME NEW x, Good(x), NEW p \in Seq(PRec), NEW n \in Int, NEW I \in SUBSET DOMAIN p
    PROVE  Follows(x, Probing(x, p, n, I))
<1> DEFINE T == Probes(x, p, n, I)
           l == p[Min(T)].length
           m == (n - 1) % SEQS
           u == [x EXCEPT !.mtu_probe_seq = m, !.mtu_probe_size = l]
<1>1. x \in SRec /\ x.mtu_ceiling \in Int /\ x.mtu_floor \in Int
  BY SFields DEF Good
<1>2. CASE T = {}
  <2>1. Probing(x, p, n, I) = x
    BY <1>2 DEF Probing
  <2> QED
    BY <1>1, <2>1 DEF Follows
<1>3. CASE T # {}
  <2>1. T \subseteq I /\ I \subseteq Nat
    BY DEF Probes
  <2>2. Min(T) \in T
    BY <1>3, <2>1, LeastPacket
  <2>3. l > x.mtu_floor /\ l <= x.mtu_ceiling
    BY <2>2 DEF Probes
  <2>4. l \in Int
    <3>1. Min(T) \in DOMAIN p
      BY <2>1, <2>2
    <3> HIDE DEF T
    <3>2. p[Min(T)] \in PRec
      BY <3>1
    <3> QED
      BY <3>2 DEF PRec
  <2>5. m \in Nat
    BY MtuAssumption
  <2>6. Probing(x, p, n, I) = u
    BY <1>3 DEF Probing
  <2> HIDE DEF l, m, T
  <2>7. u \in SRec
    BY <1>1, <2>4, <2>5, SetProbe
  <2>8. /\ u.mtu_probe_size = l /\ u.mtu_floor = x.mtu_floor /\ u.mtu_ceiling = x.mtu_ceiling
        /\ u.mtu_last = x.mtu_last /\ u.due = x.due
    BY <1>1 DEF SRec
  <2> HIDE DEF u
  <2> QED
    BY <1>1, <2>3, <2>6, <2>7, <2>8 DEF Follows, Good, Bounds, ProbeInside
<1> QED
  BY <1>2, <1>3

\* What is sent stays a queue of packets.
LEMMA SentType ==
    ASSUME NEW x, NEW p \in Seq(PRec), NEW n, NEW I
    PROVE  Sent(x, p, n, I) \in Seq(PRec) /\ DOMAIN Sent(x, p, n, I) = DOMAIN p
<1> DEFINE at(i) == IF p[i].at = "peer" THEN p[i].at
                    ELSE IF IsProbe(x, p, n, I, i) /\ p[i].length > path THEN "lost"
                    ELSE "network"
           t(i) == min(p[i].transmissions + 1, 2)
           r(i) == IF i \notin I THEN p[i]
                   ELSE [p[i] EXCEPT !.transmissions = t(i), !.need_resend = FALSE, !.at = at(i)]
<1>1. ASSUME NEW i \in DOMAIN p
      PROVE  r(i) \in PRec
  <2>1. p[i] \in PRec
    OBVIOUS
  <2>2. t(i) \in Nat /\ at(i) \in {"queue", "network", "lost", "peer", "freed"} /\ FALSE \in BOOLEAN
    BY <2>1 DEF PRec, min
  <2> HIDE DEF t, at
  <2> QED
    BY <2>1, <2>2 DEF PRec
<1>2. Sent(x, p, n, I) = [i \in 1 .. Len(p) |-> r(i)] /\ DOMAIN p = 1 .. Len(p)
  BY DEF Sent
<1> HIDE DEF r
<1> QED
  BY <1>1, <1>2

\* Sending keeps the invariant, and the range unless a new search starts.
LEMMA SendKeeps ==
    ASSUME NEW x, Good(x), NEW p \in Seq(PRec), NEW n \in Int, NEW I \in SUBSET DOMAIN p,
           path \in Int, Send(x, p, n, I)
    PROVE  MtuInv' /\ (~x.due => Follows(x, s'))
<1>1. Good(Timely(x, I)) /\ (~x.due => Timely(x, I) = x)
  BY TimelyGood
<1>2. Follows(Timely(x, I), Probing(Timely(x, I), p, n, I))
  BY <1>1, ProbingGood
<1>3. Good(s') /\ (~x.due => Follows(x, s'))
  BY <1>1, <1>2 DEF Follows, Send
<1>4. q' \in Seq(PRec)
  BY SentType DEF Send
<1> QED
  BY <1>3, <1>4 DEF Send, MtuInv, Good, Bounds, ProbeInside

\* What a step keeps.
Keeps == MtuInv' /\ (~s.due => Follows(s, s'))

\* A handler that leaves a search that follows s, and then sends.
LEMMA SendAfter ==
    ASSUME MtuInv, NEW x, Follows(s, x), NEW p \in Seq(PRec), NEW n \in Int,
           NEW I \in SUBSET DOMAIN p, Send(x, p, n, I)
    PROVE  Keeps
<1>1. MtuInv' /\ (~x.due => Follows(x, s'))
  BY SendKeeps DEF MtuInv, Follows
<1>2. ASSUME ~s.due
      PROVE  Follows(s, s')
  <2>1. Follows(x, s')
    BY <1>1, <1>2 DEF Follows
  <2> QED
    BY <2>1, FollowsTwice DEF MtuInv, Good
<1> QED
  BY <1>1, <1>2 DEF Keeps

\* A step that leaves the search alone.
LEMMA SearchAlone ==
    ASSUME MtuInv, s' = s, q' \in Seq(PRec), seq_nr' \in Int, path' = path
    PROVE  Keeps
<1>1. Follows(s, s)
  BY FollowsSame DEF MtuInv, Good
<1>2. MtuInv'
  BY DEF MtuInv, Good, Bounds, ProbeInside
<1> QED
  BY <1>1, <1>2 DEF Keeps

\* A queue in which one packet changes its place.
LEMMA MovePacket ==
    ASSUME q \in Seq(PRec), NEW i \in DOMAIN q, NEW a \in {"peer", "lost"}
    PROVE  [q EXCEPT ![i].at = a] \in Seq(PRec)
<1> DEFINE r == [q[i] EXCEPT !.at = a]
<1>1. q[i] \in PRec
  OBVIOUS
<1>2. r \in PRec
  BY <1>1 DEF PRec
<1>3. [q EXCEPT ![i].at = a] = [q EXCEPT ![i] = r]
  OBVIOUS
<1> HIDE DEF r
<1> QED
  BY <1>2, <1>3

\* The network's steps.
LEMMA NetworkKeeps ==
    ASSUME MtuInv, \/ \E i \in DOMAIN q : Arrive(i) \/ Lose(i)
                   \/ LoseAck
    PROVE  Keeps
<1>1. ASSUME NEW i \in DOMAIN q, Arrive(i)
      PROVE  Keeps
  BY <1>1, MovePacket, SearchAlone DEF MtuInv, Arrive
<1>2. ASSUME NEW i \in DOMAIN q, Lose(i)
      PROVE  Keeps
  BY <1>2, MovePacket, SearchAlone DEF MtuInv, Lose
<1>3. CASE LoseAck
  BY <1>3, SearchAlone DEF MtuInv, LoseAck
<1> QED
  BY <1>1, <1>2, <1>3

\* flush_packets sends packets of the queue.
LEMMA FlushedType ==
    ASSUME NEW x, NEW p, NEW I \in Flushed(x, p)
    PROVE  I \in SUBSET DOMAIN p
BY DEF Flushed, Waiting

\* check_timeouts that only flushes keeps the invariant and the range.
LEMMA CheckTimeoutsKeeps ==
    ASSUME MtuInv, CheckTimeouts
    PROVE  Keeps
<1>1. Follows(s, s)
  BY FollowsSame DEF MtuInv, Good
<1>2. PICK I \in Flushed(s, q) : Send(s, q, seq_nr, I)
  BY DEF CheckTimeouts
<1>3. I \in SUBSET DOMAIN q
  BY FlushedType
<1> QED
  BY <1>1, <1>2, <1>3, SendAfter DEF MtuInv

\* write_outgoing_packet leaves a queue of packets.
LEMMA AppendedType ==
    ASSUME MtuInv, NEW n \in Int
    PROVE  Appended(q, n) \in Seq(PRec)
<1>1. q \in Seq(PRec) /\ s.mtu_last \in Int
  BY SFields DEF MtuInv, Good
<1>2. Room(q) \in Int
  <2>1. CASE q = << >>
    BY <2>1 DEF Room
  <2>2. CASE q # << >>
    <3>1. q[Len(q)] \in PRec
      BY <1>1, <2>2
    <3>2. q[Len(q)].length \in Int
      BY <3>1 DEF PRec
    <3> QED
      BY <1>1, <2>2, <3>2 DEF Room
  <2> QED
    BY <2>1, <2>2
<1>3. Filled(q, n) \in Seq(PRec)
  <2>1. CASE Room(q) = 0
    BY <1>1, <2>1 DEF Filled
  <2>2. CASE Room(q) # 0
    <3> DEFINE k == Len(q)
               l == q[k].length + min(n, Room(q))
               r == [q[k] EXCEPT !.length = l]
    <3>1. q # << >>
      BY <2>2 DEF Room
    <3>2. k \in DOMAIN q /\ q[k] \in PRec
      BY <1>1, <3>1
    <3>3. l \in Int
      BY <1>2, <3>2 DEF PRec, min
    <3>4. Filled(q, n) = [q EXCEPT ![k] = r]
      BY <2>2 DEF Filled
    <3> HIDE DEF l
    <3>5. r \in PRec
      BY <3>2, <3>3 DEF PRec
    <3> HIDE DEF r, k
    <3> QED
      BY <1>1, <3>2, <3>4, <3>5
  <2> QED
    BY <2>1, <2>2
<1>4. Packet(n - Room(q)) \in PRec
  BY <1>2 DEF Packet, PRec, HEADER
<1> QED
  BY <1>3, <1>4 DEF Appended

\* utp_writev keeps the invariant and the range.
LEMMA WriteKeeps ==
    ASSUME MtuInv, NEW n \in Sizes, Write(n)
    PROVE  Keeps
<1> DEFINE bytes == min(n, get_packet_size)
           p == Appended(q, bytes)
           m == (seq_nr + Len(p) - Len(q)) % SEQS
<1>1. s.mtu_last \in Int /\ n \in Int
  BY SFields, MtuAssumption DEF MtuInv, Good
<1>2. bytes \in Int
  BY <1>1 DEF min, get_packet_size, HEADER
<1>3. PICK I \in Flushed(s, p) : Send(s, p, m, I)
  BY DEF Write
<1> HIDE DEF bytes
<1>4. p \in Seq(PRec)
  BY <1>2, AppendedType
<1> HIDE DEF p
<1>5. m \in Int
  BY <1>4, MtuAssumption DEF MtuInv
<1> HIDE DEF m
<1>6. I \in SUBSET DOMAIN p
  BY FlushedType
<1>7. Follows(s, s)
  BY FollowsSame DEF MtuInv, Good
<1> QED
  BY <1>3, <1>4, <1>5, <1>6, <1>7, SendAfter

\* Setting one of the fields that are not of the range.
LEMMA SetDuplicates ==
    ASSUME NEW x, Good(x), NEW n \in Nat
    PROVE  Follows(x, [x EXCEPT !.duplicate_ack = n])
<1> DEFINE y == [x EXCEPT !.duplicate_ack = n]
<1>1. x \in SRec
  BY DEF Good
<1>2. /\ y \in SRec /\ y.mtu_ceiling = x.mtu_ceiling /\ y.mtu_floor = x.mtu_floor /\ y.mtu_last = x.mtu_last
      /\ y.mtu_probe_seq = x.mtu_probe_seq /\ y.mtu_probe_size = x.mtu_probe_size /\ y.due = x.due
  BY <1>1 DEF SRec
<1> HIDE DEF y
<1>3. Follows(x, y)
  BY <1>2, FollowsSame
<1> QED
  BY <1>3 DEF y

\* Setting fast_timeout leaves the range as it is.
LEMMA SetRetry ==
    ASSUME NEW x, Good(x), NEW b, b \in BOOLEAN
    PROVE  Follows(x, [x EXCEPT !.fast_timeout = b])
<1> DEFINE y == [x EXCEPT !.fast_timeout = b]
<1>1. x \in SRec
  BY DEF Good
<1>2. /\ y \in SRec /\ y.mtu_ceiling = x.mtu_ceiling /\ y.mtu_floor = x.mtu_floor /\ y.mtu_last = x.mtu_last
      /\ y.mtu_probe_seq = x.mtu_probe_seq /\ y.mtu_probe_size = x.mtu_probe_size /\ y.due = x.due
  BY <1>1 DEF SRec
<1> HIDE DEF y
<1>3. Follows(x, y)
  BY <1>2, FollowsSame
<1> QED
  BY <1>3 DEF y

\* The retransmission timeout learns from a lone probe, and forgets any other.
LEMMA TimedOutFollows ==
    ASSUME NEW w, Good(w)
    PROVE  Follows(w, TimedOut(w))
<1>1. w \in SRec
  BY DEF Good
<1>2. CASE Len(q) = 1 /\ w.mtu_probe_seq # 0 /\ (seq_nr - 1) % SEQS = w.mtu_probe_seq
  <2>1. Follows(w, ProbeLost(w))
    BY <1>2, FollowsProbe
  <2>2. Follows(ProbeLost(w), NoProbe(ProbeLost(w)))
    BY <2>1, FollowsNoProbe DEF Follows
  <2>3. Follows(w, NoProbe(ProbeLost(w)))
    BY <1>1, <2>1, <2>2, FollowsTwice
  <2> QED
    BY <1>2, <2>3 DEF TimedOut
<1>3. CASE ~(Len(q) = 1 /\ w.mtu_probe_seq # 0 /\ (seq_nr - 1) % SEQS = w.mtu_probe_seq)
  <2> DEFINE x == NoProbe(w)
             y == [x EXCEPT !.duplicate_ack = 0]
  <2>1. TimedOut(w) = y
    BY <1>3 DEF TimedOut
  <2>2. Follows(w, x)
    BY FollowsNoProbe
  <2>3. 0 \in Nat
    OBVIOUS
  <2> HIDE DEF x
  <2>4. Follows(x, y)
    BY <2>2, <2>3, SetDuplicates DEF Follows
  <2> HIDE DEF y
  <2>5. Follows(w, y)
    BY <1>1, <2>2, <2>4, FollowsTwice
  <2> QED
    BY <2>1, <2>5
<1> QED
  BY <1>2, <1>3

\* Counting every packet as lost leaves a queue of packets.
LEMMA LostType ==
    ASSUME NEW p \in Seq(PRec)
    PROVE  Lost(p) \in Seq(PRec) /\ DOMAIN Lost(p) = DOMAIN p
<1> DEFINE d(i) == p[i].transmissions > 0 /\ p[i].at # "freed"
           r(i) == [p[i] EXCEPT !.need_resend = d(i)]
<1>1. ASSUME NEW i \in DOMAIN p
      PROVE  r(i) \in PRec
  <2>1. p[i] \in PRec
    OBVIOUS
  <2>2. d(i) \in BOOLEAN
    OBVIOUS
  <2> HIDE DEF d
  <2> QED
    BY <2>1, <2>2 DEF PRec
<1>2. Lost(p) = [i \in 1 .. Len(p) |-> r(i)] /\ DOMAIN p = 1 .. Len(p)
  BY DEF Lost
<1> HIDE DEF r
<1> QED
  BY <1>1, <1>2

\* The retransmission timeout of check_timeouts keeps the invariant and the range.
LEMMA RtoKeeps ==
    ASSUME MtuInv, RtoExpires
    PROVE  Keeps
<1>1. PICK I \in Flushed(s, q) :
          Send([TimedOut(Probing(Timely(s, I), q, seq_nr, I)) EXCEPT !.fast_timeout = @ \/ q # << >>],
               Lost(Sent(Timely(s, I), q, seq_nr, I)), seq_nr, {1} \cap DOMAIN q)
  BY DEF RtoExpires
<1> DEFINE v == Timely(s, I)
           w == Probing(v, q, seq_nr, I)
           x == TimedOut(w)
           b == x.fast_timeout \/ q # << >>
           y == [x EXCEPT !.fast_timeout = b]
           t == Sent(v, q, seq_nr, I)
           p == Lost(t)
           J == {1} \cap DOMAIN q
<1>2. Send(y, p, seq_nr, J)
  BY <1>1
<1>3. /\ Good(s) /\ s \in SRec /\ q \in Seq(PRec) /\ seq_nr \in Int /\ path \in Int
      /\ I \in SUBSET DOMAIN q
  BY FlushedType DEF MtuInv, Good
<1>4. Good(v) /\ (~s.due => v = s)
  BY <1>3, TimelyGood
<1>5. t \in Seq(PRec) /\ DOMAIN t = DOMAIN q
  BY <1>3, SentType
<1> HIDE DEF v
<1>6. Follows(v, w)
  BY <1>3, <1>4, ProbingGood
<1> HIDE DEF t, w
<1>7. Follows(w, x)
  BY <1>6, TimedOutFollows DEF Follows
<1> HIDE DEF x
<1>8. b \in BOOLEAN
  OBVIOUS
<1> HIDE DEF b
<1>9. Follows(x, y)
  BY <1>7, <1>8, SetRetry DEF Follows
<1> HIDE DEF y
<1>10. Follows(v, y)
  <2>1. v \in SRec
    BY <1>4 DEF Good
  <2>2. Follows(v, x)
    BY <1>6, <1>7, <2>1, FollowsTwice
  <2> QED
    BY <1>9, <2>1, <2>2, FollowsTwice
<1>11. p \in Seq(PRec) /\ J \in SUBSET DOMAIN p
  BY <1>5, LostType
<1> HIDE DEF p, J
<1>12. CASE s.due
  <2>1. MtuInv'
    BY <1>2, <1>3, <1>10, <1>11, SendKeeps DEF Follows
  <2> QED
    BY <1>12, <2>1 DEF Keeps
<1>13. CASE ~s.due
  <2>1. Follows(s, y)
    BY <1>4, <1>10, <1>13
  <2> QED
    BY <1>2, <1>3, <1>11, <2>1, SendAfter
<1> QED
  BY <1>12, <1>13

\* A set of counts up to N that is not empty has a greatest one.
LEMMA GreatestCount ==
    ASSUME NEW N \in Nat, NEW T \in SUBSET (0 .. N), T # {}
    PROVE  Max(T) \in T
<1> DEFINE U == {N - k : k \in T}
<1>1. U \subseteq Nat /\ U # {}
  <2>1. \A k \in 0 .. N : N - k \in Nat
    OBVIOUS
  <2>2. \A k \in T : N - k \in Nat
    BY <2>1
  <2> QED
    BY <2>2, Zenon
<1>2. Min(U) \in U /\ \A u \in U : Min(U) <= u
  BY <1>1, LeastPacket
<1>3. PICK t \in T : Min(U) = N - t
  BY <1>2
<1>4. ASSUME NEW u \in T
      PROVE  t >= u
  <2>1. N - u \in U
    OBVIOUS
  <2>2. N - t <= N - u
    BY <1>2, <1>3, <2>1
  <2> QED
    BY <2>2
<1> QED
  BY <1>4 DEF Max

\* The ack covers a part of the queue, and the EACK names finitely many packets.
LEMMA AcksType ==
    ASSUME MtuInv
    PROVE  Acks \in Nat /\ Acks <= Len(q) /\ Cardinality(Eack) \in Nat
<1> DEFINE T == {k \in 0 .. Len(q) : \A i \in 1 .. k : Has(i)}
<1>1. Len(q) \in Nat
  BY DEF MtuInv
<1>2. 0 \in T
  BY <1>1
<1>3. T \in SUBSET (0 .. Len(q)) /\ T # {}
  BY <1>2
<1>4. Acks = Max(T)
  BY DEF Acks
<1> HIDE DEF T
<1>5. Acks \in 0 .. Len(q)
  BY <1>1, <1>3, <1>4, GreatestCount
<1>6. IsFiniteSet(Acks + 2 .. Len(q))
  BY <1>1, <1>5, FS_Interval
<1>7. Eack \subseteq Acks + 2 .. Len(q)
  BY DEF Eack
<1>8. Cardinality(Eack) \in Nat
  BY <1>6, <1>7, FS_Subset, FS_CardinalityType
<1> QED
  BY <1>1, <1>5, <1>8

\* Duplicate acks, and the acks that cover a probe.
LEMMA CountDuplicateFollows ==
    ASSUME MtuInv, NEW type
    PROVE  Follows(s, CountDuplicate(type))
<1>1. Good(s) /\ s \in SRec /\ s.duplicate_ack \in Nat /\ s.duplicate_ack + 1 \in Nat /\ 0 \in Nat
  BY SFields DEF MtuInv, Good
<1>2. Follows(s, s)
  BY <1>1, FollowsSame
<1>3. Follows(s, [s EXCEPT !.duplicate_ack = 0])
  BY <1>1, SetDuplicates
<1>4. ASSUME NEW x, Good(x)
      PROVE  Follows(x, ThirdDuplicate(x))
  <2>1. Follows(x, x)
    BY <1>4, FollowsSame DEF Good
  <2>2. Follows(x, NoProbe(x))
    BY <1>4, FollowsNoProbe
  <2>3. x.mtu_probe_seq # 0 => Follows(x, ProbeLost(x))
    BY <1>4, FollowsProbe
  <2> QED
    BY <2>1, <2>2, <2>3 DEF ThirdDuplicate
<1>5. Follows(s, ThirdDuplicate([s EXCEPT !.duplicate_ack = @ + 1]))
  <2> DEFINE x == [s EXCEPT !.duplicate_ack = s.duplicate_ack + 1]
  <2>1. Follows(s, x)
    BY <1>1, SetDuplicates
  <2>2. Good(x)
    BY <2>1 DEF Follows
  <2> HIDE DEF x
  <2>3. Follows(x, ThirdDuplicate(x))
    BY <1>4, <2>2
  <2>4. Follows(s, ThirdDuplicate(x))
    BY <1>1, <2>1, <2>3, FollowsTwice
  <2> QED
    BY <2>4 DEF x
<1> QED
  BY <1>2, <1>3, <1>5 DEF CountDuplicate

\* An ack that covers the probe narrows the range, any other leaves it.
LEMMA AckProbeFollows ==
    ASSUME NEW x, Good(x)
    PROVE  Follows(x, AckProbe(x))
<1>1. Follows(x, x)
  BY FollowsSame DEF Good
<1>2. x.mtu_probe_seq # 0 => Follows(x, ProbeAcked(x))
  BY FollowsProbe
<1> QED
  BY <1>1, <1>2 DEF AckProbe

\* utp_process_incoming keeps the invariant and the range.
LEMMA IncomingKeeps ==
    ASSUME MtuInv, NEW type, NEW retry \in BOOLEAN, Incoming(type, retry)
    PROVE  Keeps
<1> DEFINE w == CountDuplicate(type)
           x == AckProbe(w)
           n == IF Eack # {} THEN Cardinality(Eack) ELSE x.duplicate_ack
           y == [x EXCEPT !.fast_timeout = retry, !.duplicate_ack = n]
           p == Rest(Eack)
<1>1. PICK again \in SUBSET {i \in Missing : q[i].transmissions > 1} :
          Send(y, p, seq_nr, {i - Acks : i \in {i \in Missing : q[i].transmissions = 1}
                                               \cup again \cup Unsent \cup Oldest(retry)})
  BY DEF Incoming
<1> DEFINE I == {i - Acks : i \in {i \in Missing : q[i].transmissions = 1}
                                   \cup again \cup Unsent \cup Oldest(retry)}
<1>2. Acks \in Nat /\ Acks <= Len(q) /\ Cardinality(Eack) \in Nat /\ Len(q) \in Nat
  BY AcksType DEF MtuInv
<1>3. Follows(s, w)
  BY CountDuplicateFollows
<1> HIDE DEF w
<1>4. Follows(w, x)
  BY <1>3, AckProbeFollows DEF Follows
<1> HIDE DEF x
<1>5. Follows(s, x)
  BY <1>3, <1>4, FollowsTwice DEF MtuInv, Good
<1>6. x \in SRec /\ Good(x) /\ n \in Nat
  BY <1>2, <1>5, SFields DEF Follows, Good
<1> HIDE DEF n
<1>7. y \in SRec
  BY <1>6, SetAcks
<1>8. /\ y.mtu_ceiling = x.mtu_ceiling /\ y.mtu_floor = x.mtu_floor /\ y.mtu_last = x.mtu_last
      /\ y.mtu_probe_seq = x.mtu_probe_seq /\ y.mtu_probe_size = x.mtu_probe_size /\ y.due = x.due
  BY <1>6 DEF SRec
<1> HIDE DEF y
<1>9. Follows(x, y)
  BY <1>6, <1>7, <1>8, FollowsSame
<1>10. Follows(s, y)
  BY <1>5, <1>9, FollowsTwice DEF MtuInv, Good
<1>11. p \in Seq(PRec) /\ DOMAIN p = 1 .. Len(q) - Acks
  <2> DEFINE r(i) == IF i + Acks \in Eack THEN [q[i + Acks] EXCEPT !.at = "freed"] ELSE q[i + Acks]
  <2>1. ASSUME NEW i \in 1 .. Len(q) - Acks
        PROVE  r(i) \in PRec
    <3>1. i + Acks \in DOMAIN q
      BY <1>2 DEF MtuInv
    <3> DEFINE j == i + Acks
    <3> HIDE DEF j
    <3>2. q[j] \in PRec
      BY <3>1 DEF MtuInv, j
    <3>3. [q[j] EXCEPT !.at = "freed"] \in PRec
      BY <3>2 DEF PRec
    <3> QED
      BY <3>2, <3>3 DEF j
  <2>2. p = [i \in 1 .. Len(q) - Acks |-> r(i)] /\ Len(q) - Acks \in Nat
    BY <1>2 DEF Rest
  <2> HIDE DEF p, r
  <2> QED
    BY <2>1, <2>2
<1> HIDE DEF p
<1>12. I \in SUBSET DOMAIN p
  <2>1. Missing \subseteq Acks + 1 .. Len(q)
    BY DEF Missing
  <2>2. Unsent \subseteq Acks + 1 .. Len(q) /\ Oldest(retry) \subseteq Acks + 1 .. Len(q)
    BY <1>2 DEF Unsent, Oldest
  <2>3. \A i \in Acks + 1 .. Len(q) : i - Acks \in 1 .. Len(q) - Acks
    BY <1>2
  <2> QED
    BY <1>11, <2>1, <2>2, <2>3
<1>13. Send(y, p, seq_nr, I)
  BY <1>1
<1> HIDE DEF I
<1> QED
  BY <1>10, <1>11, <1>12, <1>13, SendAfter DEF MtuInv

\* An ICMP message may widen the range below the floor, but leaves it sound.
LEMMA IcmpGood ==
    ASSUME MtuInv, NEW hop \in NextHops, utp_process_icmp_fragmentation(hop)
    PROVE  MtuInv'
<1> DEFINE c == min(hop, s.mtu_ceiling)
           d == (s.mtu_floor + s.mtu_ceiling) \div 2
           u == [s EXCEPT !.mtu_ceiling = c]
           v == [s EXCEPT !.mtu_ceiling = d]
           x == mtu_search_update(u)
           y == [x EXCEPT !.mtu_last = x.mtu_ceiling]
<1>1. /\ s \in SRec /\ s.mtu_floor \in Int /\ s.mtu_ceiling \in Int /\ s.mtu_last \in Int /\ hop \in Nat
      /\ LowestFloor \in Nat /\ LowestFloor <= 576 /\ UdpMtu \in Nat
  BY SFields, LowestFloorType, MtuAssumption DEF MtuInv, Good
<1>2. /\ LowestFloor <= s.mtu_floor /\ s.mtu_floor <= s.mtu_ceiling /\ s.mtu_ceiling <= UdpMtu
  BY <1>1 DEF MtuInv, Good, Bounds
<1>3. s' = IF hop >= 576 /\ hop < 8192 THEN y ELSE mtu_search_update(v)
  BY DEF utp_process_icmp_fragmentation
<1>4. Good(s')
  <2>1. CASE hop >= 576 /\ hop < 8192
    <3>1. c \in Int /\ LowestFloor <= c /\ c <= UdpMtu
      BY <1>1, <1>2, <2>1 DEF min
    <3> HIDE DEF c
    <3>2. u \in SRec /\ u.mtu_ceiling = c /\ u.mtu_floor = s.mtu_floor
      BY <1>1, <3>1 DEF SRec
    <3> HIDE DEF u
    <3>3. Good(x)
      <4>1. /\ LowestFloor <= u.mtu_floor /\ u.mtu_floor <= UdpMtu
            /\ LowestFloor <= u.mtu_ceiling /\ u.mtu_ceiling <= UdpMtu
        BY <1>1, <1>2, <3>1, <3>2
      <4> QED
        BY <3>2, <4>1, SearchUpdate
    <3> HIDE DEF x
    <3>4. x \in SRec /\ x.mtu_ceiling \in Int /\ x.mtu_floor \in Int /\ x.mtu_last \in Int
      BY <3>3, SFields DEF Good
    <3>5. /\ y \in SRec /\ y.mtu_last = x.mtu_ceiling /\ y.mtu_ceiling = x.mtu_ceiling
          /\ y.mtu_floor = x.mtu_floor /\ y.mtu_probe_seq = x.mtu_probe_seq
          /\ y.mtu_probe_size = x.mtu_probe_size
      BY <3>4 DEF SRec
    <3>6. s' = y
      BY <1>3, <2>1
    <3> HIDE DEF y
    <3>7. Good(y)
      BY <1>1, <3>3, <3>4, <3>5 DEF Good, Bounds, ProbeInside
    <3> QED
      BY <3>6, <3>7
  <2>2. CASE ~(hop >= 576 /\ hop < 8192)
    <3>1. d \in Int /\ LowestFloor <= d /\ d <= UdpMtu
      BY <1>1, <1>2
    <3> HIDE DEF d
    <3>2. v \in SRec /\ v.mtu_ceiling = d /\ v.mtu_floor = s.mtu_floor
      BY <1>1, <3>1 DEF SRec
    <3> HIDE DEF v
    <3>3. /\ LowestFloor <= v.mtu_floor /\ v.mtu_floor <= UdpMtu
          /\ LowestFloor <= v.mtu_ceiling /\ v.mtu_ceiling <= UdpMtu
      BY <1>1, <1>2, <3>1, <3>2
    <3>4. Good(mtu_search_update(v))
      BY <3>2, <3>3, SearchUpdate
    <3>5. s' = mtu_search_update(v)
      BY <1>3, <2>2
    <3> QED
      BY <3>4, <3>5
  <2> QED
    BY <2>1, <2>2
<1> QED
  BY <1>4 DEF utp_process_icmp_fragmentation, MtuInv, Good, Bounds, ProbeInside

\* The time for a new search comes: the range stays as it is.
LEMMA DiscoverGood ==
    ASSUME MtuInv, DiscoverTimePasses
    PROVE  MtuInv' /\ s'.mtu_floor = s.mtu_floor /\ s'.mtu_ceiling = s.mtu_ceiling
<1>1. s \in SRec /\ s' = [s EXCEPT !.due = TRUE]
  BY DEF MtuInv, Good, DiscoverTimePasses
<1>2. s' \in SRec
  BY <1>1 DEF SRec
<1>3. /\ s'.mtu_floor = s.mtu_floor /\ s'.mtu_ceiling = s.mtu_ceiling /\ s'.mtu_last = s.mtu_last
      /\ s'.mtu_probe_seq = s.mtu_probe_seq /\ s'.mtu_probe_size = s.mtu_probe_size
  BY <1>1 DEF SRec
<1> QED
  BY <1>2, <1>3 DEF DiscoverTimePasses, MtuInv, Good, Bounds, ProbeInside

\* One step of the system.
LEMMA MtuStep ==
    ASSUME MtuInv, [Next]_vars
    PROVE  /\ MtuInv'
           /\ \/ s'.mtu_floor >= s.mtu_floor /\ s'.mtu_ceiling <= s.mtu_ceiling
              \/ s.due \/ \E n \in NextHops : utp_process_icmp_fragmentation(n)
<1>1. s.mtu_floor \in Int /\ s.mtu_ceiling \in Int
  BY SFields DEF MtuInv, Good
<1>2. CASE Keeps
  BY <1>2 DEF Keeps, Follows
<1>3. CASE CheckTimeouts
  BY <1>2, <1>3, CheckTimeoutsKeeps
<1>4. CASE RtoExpires
  BY <1>2, <1>4, RtoKeeps
<1>5. CASE LoseAck \/ \E i \in DOMAIN q : Arrive(i) \/ Lose(i)
  BY <1>2, <1>5, NetworkKeeps
<1>6. CASE DiscoverTimePasses
  BY <1>1, <1>6, DiscoverGood
<1>7. CASE \E n \in Sizes : Write(n)
  BY <1>2, <1>7, WriteKeeps
<1>8. CASE \E type \in {"ST_STATE", "ST_DATA"}, retry \in BOOLEAN : Incoming(type, retry)
  BY <1>2, <1>8, IncomingKeeps
<1>9. CASE \E n \in NextHops : utp_process_icmp_fragmentation(n)
  BY <1>9, IcmpGood
<1>10. CASE UNCHANGED vars
  <2>1. MtuInv'
    BY <1>10 DEF vars, MtuInv, Good, Bounds, ProbeInside
  <2> QED
    BY <1>1, <1>10, <2>1 DEF vars
<1> QED
  BY <1>3, <1>4, <1>5, <1>6, <1>7, <1>8, <1>9, <1>10 DEF Next

\* A new socket starts with the whole range.
LEMMA MtuInit ==
    ASSUME Init
    PROVE  MtuInv
<1>1. LowestFloor \in Int /\ UdpMtu \in Int /\ LowestFloor <= UdpMtu
  BY LowestFloorType
<1>2. s \in SRec
  BY <1>1 DEF Init, SRec
<1>3. /\ s.mtu_ceiling = UdpMtu /\ s.mtu_floor = LowestFloor /\ s.mtu_last = UdpMtu /\ s.mtu_probe_seq = 0
  BY DEF Init
<1>4. q \in Seq(PRec) /\ seq_nr \in Int /\ path \in Int
  BY MtuAssumption DEF Init
<1> QED
  BY <1>1, <1>2, <1>3, <1>4 DEF MtuInv, Good, Bounds, ProbeInside

\* The search is sound whatever the network does: the asserts of
\* mtu_search_update and mtu_reset never fail, and a probe in flight narrows the
\* range whichever way it ends.
THEOREM SearchSound == Spec => []RangeSound
<1>1. Init => MtuInv
  BY MtuInit
<1>2. MtuInv /\ [Next]_vars => MtuInv'
  BY MtuStep
<1>3. MtuInv => RangeSound
  BY DEF MtuInv, Good, Bounds, ProbeInside, RangeSound
<1> QED
  BY <1>1, <1>2, <1>3, PTL DEF Spec

\* Between two searches only an ICMP message widens the range again.
THEOREM SearchNarrows == Spec => RangeNarrows
<1>1. Init => MtuInv
  BY MtuInit
<1>2. MtuInv /\ [Next]_vars => MtuInv'
  BY MtuStep
<1>3. MtuInv /\ [Next]_vars =>
          [\/ s'.mtu_floor >= s.mtu_floor /\ s'.mtu_ceiling <= s.mtu_ceiling
           \/ s.due \/ \E n \in NextHops : utp_process_icmp_fragmentation(n)]_vars
  BY MtuStep
<1> QED
  BY <1>1, <1>2, <1>3, PTL DEF Spec, RangeNarrows
===============================================================================
