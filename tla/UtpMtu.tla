-------------------------------- MODULE UtpMtu --------------------------------
(***************************************************************************)
(* The path MTU search of a sending socket.  A first transmission that is  *)
(* larger than mtu_floor is sent as a probe, with the don't-fragment flag; *)
(* what becomes of it moves the floor or the ceiling of a binary search.   *)
(* q is the send queue, oldest packet first; s has the fields of the       *)
(* search.  Packets above the path's MTU get through only as fragments.    *)
(***************************************************************************)
EXTENDS Integers, Sequences, FiniteSets, FiniteSetsExt

CONSTANTS
    UdpMtu,     \* what get_udp_mtu returns
    Paths,      \* sizes that pass the path whole, one per behaviour
    Sizes,      \* bytes the user writes at a time
    NextHops,   \* next hop MTUs that ICMP messages report
    SEQS,       \* how many sequence numbers there are
    MaxQueue,   \* packets the window holds
    MaxFaults   \* losses, short writes, early timeouts, ICMP messages, resets

VARIABLES
    s,          \* the fields of the search, and duplicate_ack
    q,          \* the send queue
    seq_nr,     \* the sequence number of the next packet
    owed,       \* does the peer owe an ack?
    path,       \* the MTU of the path
    faults      \* faults so far

vars == <<s, q, seq_nr, owed, path, faults>>

ASSUME MtuAssumption ==
    /\ UdpMtu \in Nat \ {0} /\ Paths \subseteq Nat /\ Sizes \subseteq Nat \ {0}
    /\ NextHops \subseteq Nat /\ SEQS \in Nat \ {0, 1} /\ MaxQueue \in Nat /\ MaxFaults \in Nat

MTU_FLOOR_MIN == 576
DUPLICATE_ACKS_BEFORE_RESEND == 3
HEADER == 20

-------------------------------------------------------------------------------
min(a, b) == IF a < b THEN a ELSE b

\* The smallest size the search goes down to.
LowestFloor == min(MTU_FLOOR_MIN, UdpMtu)

\* Half way down from a ceiling.
Halved(c) == IF c > MTU_FLOOR_MIN THEN (MTU_FLOOR_MIN + c) \div 2 ELSE c

\* A range that was inverted is repaired.
Repaired(x) ==
    IF x.mtu_floor > x.mtu_ceiling
    THEN [x EXCEPT !.mtu_ceiling = x.mtu_floor, !.mtu_floor = Halved(x.mtu_floor)]
    ELSE x

\* The search goes on in the middle, or is over.  The numbers are unsigned: the
\* difference of an inverted range would be large.
Bisected(x) ==
    IF x.mtu_floor <= x.mtu_ceiling /\ x.mtu_ceiling - x.mtu_floor <= 16
    THEN [x EXCEPT !.mtu_last = x.mtu_floor, !.mtu_ceiling = x.mtu_floor, !.due = FALSE]
    ELSE [x EXCEPT !.mtu_last = (x.mtu_floor + x.mtu_ceiling) \div 2]

NoProbe(x) == [x EXCEPT !.mtu_probe_seq = 0, !.mtu_probe_size = 0]

\* Mutant of mtu_search_update: the range is not repaired.
mtu_search_updateInverted(x) == NoProbe(Bisected(x))

mtu_search_update(x) == NoProbe(Bisected(Repaired(x)))

mtu_reset(x) ==
    [x EXCEPT !.mtu_ceiling = UdpMtu, !.mtu_floor = LowestFloor, !.due = FALSE]

Init ==
    /\ s = [mtu_ceiling |-> UdpMtu, mtu_floor |-> LowestFloor, mtu_last |-> UdpMtu,
            mtu_probe_seq |-> 0, mtu_probe_size |-> 0,
            due |-> FALSE, duplicate_ack |-> 0, fast_timeout |-> FALSE]
    /\ q = << >> /\ seq_nr \in 0 .. SEQS - 1 /\ owed = FALSE /\ path \in Paths /\ faults = 0

-------------------------------------------------------------------------------
\* The sequence number of the i-th packet of a queue before number n.
SeqOf(p, n, i) == (n - Len(p) + i - 1) % SEQS

\* The probe fits and was too large, or was acked.
ProbeLost(x) == mtu_search_update([x EXCEPT !.mtu_ceiling = x.mtu_probe_size - 1])
ProbeAcked(x) == mtu_search_update([x EXCEPT !.mtu_floor = x.mtu_probe_size])

\* The packets of I, of queue p before number n, that may be a probe for x.
Probes(x, p, n, I) ==
    {i \in I : /\ x.mtu_floor < x.mtu_ceiling
               /\ p[i].length > x.mtu_floor /\ p[i].length <= x.mtu_ceiling
               /\ x.mtu_probe_seq = 0 /\ n # 1 /\ p[i].transmissions = 0}

\* Mutant of Timely: the time is not looked at.
TimelyAlways(x, I) == IF I # {} THEN mtu_reset(x) ELSE x

\* What send_packet does to the search, for the packets of I in turn: the first
\* may find that it is time for a new search, and the first that can be a probe
\* is one.
Timely(x, I) == IF I # {} /\ x.due THEN mtu_reset(x) ELSE x
Probing(x, p, n, I) ==
    IF Probes(x, p, n, I) = {} THEN x
    ELSE [x EXCEPT !.mtu_probe_seq = (n - 1) % SEQS, !.mtu_probe_size = p[Min(Probes(x, p, n, I))].length]

\* And to the queue; a probe above the path's MTU gets lost.
IsProbe(x, p, n, I, i) == Probes(x, p, n, I) # {} /\ i = Min(Probes(x, p, n, I))
Sent(x, p, n, I) ==
    [i \in DOMAIN p |->
        IF i \notin I THEN p[i]
        ELSE [p[i] EXCEPT !.transmissions = min(@ + 1, 2), !.need_resend = FALSE,
                          !.at = IF @ = "peer" THEN @
                                 ELSE IF IsProbe(x, p, n, I, i) /\ p[i].length > path THEN "lost"
                                 ELSE "network"]]

\* The handler that is left in x, queue p and number n sends the packets of I;
\* the peer acks again what it has.
Send(x, p, n, I) ==
    /\ s' = Probing(Timely(x, I), p, n, I)
    /\ q' = Sent(Timely(x, I), p, n, I)
    /\ seq_nr' = n /\ UNCHANGED path
Repeats(I) == \E i \in I : q[i].at = "peer"

\* flush_packets sends what waits, oldest first, as far as the window goes; a
\* short last packet waits while others are in flight.
Waiting(p) == {i \in DOMAIN p : p[i].transmissions = 0 \/ p[i].need_resend}
NagleHolds(x, p, i) == i = Len(p) /\ Len(p) > 1 /\ p[i].length < x.mtu_last
Flushed(x, p) ==
    {{i \in Waiting(p) : i <= k /\ ~NagleHolds(x, p, i)} : k \in 0 .. Len(p)}

-------------------------------------------------------------------------------
Packet(n) == [length |-> HEADER + n, transmissions |-> 0, need_resend |-> FALSE, at |-> "queue"]
Fault == faults < MaxFaults /\ faults' = faults + 1

\* The room in the last packet, if it was not sent yet.
Room(p) ==
    IF p = << >> THEN 0
    ELSE IF p[Len(p)].transmissions = 0 /\ p[Len(p)].length < s.mtu_last THEN s.mtu_last - p[Len(p)].length
    ELSE 0

\* write_outgoing_packet of n bytes fills the last packet, and a new one.
Filled(p, n) ==
    IF Room(p) = 0 THEN p ELSE [p EXCEPT ![Len(p)].length = @ + min(n, Room(p))]
Appended(p, n) == IF n > Room(p) THEN Append(Filled(p, n), Packet(n - Room(p))) ELSE Filled(p, n)

\* The bytes of a full packet.
get_packet_size == s.mtu_last - HEADER

\* utp_writev for one packet.  The window has room for it, so that a full packet
\* goes out at once unless older ones wait.
Write(n) ==
    LET bytes == min(n, get_packet_size)
        p == Appended(q, bytes)
    IN  /\ Len(q) < MaxQueue
        /\ IF bytes < get_packet_size THEN Fault ELSE UNCHANGED faults
        /\ \E I \in Flushed(s, p) :
               /\ (Waiting(q) = {} /\ bytes >= get_packet_size) => I = {Len(p)}
               /\ Send(s, p, (seq_nr + Len(p) - Len(q)) % SEQS, I)
               /\ owed' = (owed \/ Repeats(I \cap DOMAIN q))

\* The network delivers packets in order, and the peer owes an ack; or it loses
\* either.
Arrive(i) ==
    /\ q[i].at = "network" /\ \A j \in 1 .. i - 1 : q[j].at # "network"
    /\ q' = [q EXCEPT ![i].at = "peer"] /\ owed' = TRUE
    /\ UNCHANGED <<s, seq_nr, path, faults>>
Lose(i) ==
    /\ q[i].at = "network" /\ Fault
    /\ q' = [q EXCEPT ![i].at = "lost"] /\ UNCHANGED <<s, seq_nr, owed, path>>
LoseAck == owed /\ Fault /\ owed' = FALSE /\ UNCHANGED <<s, q, seq_nr, path>>

\* The packets the peer's ack_nr covers, and those its EACK names.
Has(i) == q[i].at \in {"peer", "freed"}
Acks == Max({k \in 0 .. Len(q) : \A i \in 1 .. k : Has(i)})
Eack == {i \in Acks + 2 .. Len(q) : Has(i)}

\* Counting duplicate acks; the third may be due to a probe.
ThirdDuplicate(x) ==
    IF x.duplicate_ack # DUPLICATE_ACKS_BEFORE_RESEND \/ x.mtu_probe_seq = 0 THEN x
    ELSE IF SeqOf(q, seq_nr, 1) = x.mtu_probe_seq THEN ProbeLost(x)
    ELSE NoProbe(x)
CountDuplicate(type) ==
    IF q = << >> THEN s
    ELSE IF Acks = 0 /\ type = "ST_STATE" THEN ThirdDuplicate([s EXCEPT !.duplicate_ack = @ + 1])
    ELSE [s EXCEPT !.duplicate_ack = 0]

\* A probe that was not acked selectively counts when the ack covers it.
AckProbe(x) ==
    IF \E i \in 1 .. Acks : /\ q[i].at # "freed"
                            /\ x.mtu_probe_seq # 0 /\ SeqOf(q, seq_nr, i) = x.mtu_probe_seq
    THEN ProbeAcked(x) ELSE x

\* The rest of the queue, what the EACK frees of it, and what has to be sent: a
\* lone packet that Nagle held, the oldest after a timeout, and what has three
\* acked packets behind it, if that was not resent yet.
Rest(acked) ==
    [i \in 1 .. Len(q) - Acks |->
        IF i + Acks \in acked THEN [q[i + Acks] EXCEPT !.at = "freed"] ELSE q[i + Acks]]
Behind(i) == Cardinality({j \in Eack : j > i})
Missing == {i \in Acks + 1 .. Len(q) : /\ ~Has(i) /\ q[i].transmissions > 0
                                       /\ Behind(i) >= DUPLICATE_ACKS_BEFORE_RESEND}
Unsent == {i \in {Acks + 1} : i = Len(q) /\ q[i].transmissions = 0}
Oldest(retry) == {i \in {Acks + 1} : retry /\ i <= Len(q) /\ q[i].transmissions > 0}

\* utp_process_incoming, for an ack.
Incoming(type, retry) ==
    LET x == AckProbe(CountDuplicate(type))
        y == [x EXCEPT !.fast_timeout = retry,
                       !.duplicate_ack = IF Eack # {} THEN Cardinality(Eack) ELSE @]
    IN  /\ owed /\ (retry => s.fast_timeout)
        /\ \E again \in SUBSET {i \in Missing : q[i].transmissions > 1} :
               LET I == {i \in Missing : q[i].transmissions = 1} \cup again \cup Unsent \cup Oldest(retry)
               IN  Send(y, Rest(Eack), seq_nr, {i - Acks : i \in I})
        /\ owed' = FALSE /\ UNCHANGED faults

\* A retransmission timeout: every packet counts as lost, the oldest is resent.
TimedOut(x) ==
    IF Len(q) = 1 /\ x.mtu_probe_seq # 0 /\ (seq_nr - 1) % SEQS = x.mtu_probe_seq
    THEN NoProbe(ProbeLost(x)) ELSE [NoProbe(x) EXCEPT !.duplicate_ack = 0]
Lost(p) == [i \in DOMAIN p |-> [p[i] EXCEPT !.need_resend = p[i].transmissions > 0 /\ p[i].at # "freed"]]

\* Nothing is under way, and the window is full or holds one packet.
Stalled == ~owed /\ (Len(q) <= 1 \/ Len(q) >= MaxQueue) /\ \A i \in DOMAIN q : q[i].at # "network"

\* check_timeouts flushes the queue; then the retransmission timeout may have come.
CheckTimeouts ==
    /\ \E I \in Flushed(s, q) \ {{}} : Send(s, q, seq_nr, I) /\ owed' = (owed \/ Repeats(I))
    /\ UNCHANGED faults
RtoExpires ==
    /\ IF Stalled THEN UNCHANGED faults ELSE Fault
    /\ \E I \in Flushed(s, q) :
           LET x == TimedOut(Probing(Timely(s, I), q, seq_nr, I))
               p == Lost(Sent(Timely(s, I), q, seq_nr, I))
           IN  /\ Send([x EXCEPT !.fast_timeout = @ \/ q # << >>], p, seq_nr, {1} \cap DOMAIN q)
               /\ owed' = (owed \/ Repeats(I \cup ({1} \cap DOMAIN q)))

DiscoverTimePasses ==
    /\ ~s.due /\ Fault
    /\ s' = [s EXCEPT !.due = TRUE] /\ UNCHANGED <<q, seq_nr, owed, path>>

utp_process_icmp_fragmentation(next_hop_mtu) ==
    LET x == mtu_search_update([s EXCEPT !.mtu_ceiling = min(next_hop_mtu, @)])
    IN  /\ Fault
        /\ s' = IF next_hop_mtu >= 576 /\ next_hop_mtu < 8192 THEN [x EXCEPT !.mtu_last = x.mtu_ceiling]
                ELSE mtu_search_update([s EXCEPT !.mtu_ceiling = (s.mtu_floor + s.mtu_ceiling) \div 2])
        /\ UNCHANGED <<q, seq_nr, owed, path>>

Next ==
    \/ CheckTimeouts \/ RtoExpires \/ LoseAck \/ DiscoverTimePasses
    \/ \E n \in Sizes : Write(n)
    \/ \E i \in DOMAIN q : Arrive(i) \/ Lose(i)
    \/ \E type \in {"ST_STATE", "ST_DATA"}, retry \in BOOLEAN : Incoming(type, retry)
    \/ \E n \in NextHops : utp_process_icmp_fragmentation(n)

Spec == Init /\ [][Next]_vars

-------------------------------------------------------------------------------
\* The range of the search is never inverted (the asserts of mtu_search_update
\* and mtu_reset), never leaves what the interface allows, and has the size in
\* use inside it; a probe in flight lies inside it too, above the floor, so that
\* its loss or its ack narrows the range.
RangeSound ==
    /\ s.mtu_floor <= s.mtu_last /\ s.mtu_last <= s.mtu_ceiling
    /\ LowestFloor <= s.mtu_floor /\ s.mtu_ceiling <= UdpMtu
    /\ s.mtu_probe_seq # 0 => s.mtu_floor < s.mtu_probe_size /\ s.mtu_probe_size <= s.mtu_ceiling

\* Until it is time for a new search, and ICMP messages aside, the range only
\* narrows.
RangeNarrows ==
    [][\/ s'.mtu_floor >= s.mtu_floor /\ s'.mtu_ceiling <= s.mtu_ceiling
       \/ s.due \/ \E n \in NextHops : utp_process_icmp_fragmentation(n)]_vars
===============================================================================
