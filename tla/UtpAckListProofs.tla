--------------------------- MODULE UtpAckListProofs ---------------------------
(***************************************************************************)
(* The ack list and the places its sockets have stay in step, for any      *)
(* number of sockets and any order of their coming and going.              *)
(***************************************************************************)
EXTENDS UtpAckList, TLAPS

\* schedule_ack leaves the list in order, and the socket is in it.
THEOREM ScheduleKeepsOrder ==
    ASSUME NEW l, NEW c \in Sockets, AckListOK(l)
    PROVE  AckListOK(schedule_ack(l, c)) /\ schedule_ack(l, c).ida[c] # -1
<1> DEFINE a == l.ack_sockets
           d == l.ida
           n == Len(a)
<1>1. a \in Seq(Sockets) /\ d \in [Sockets -> Int] /\ n \in Nat
  BY DEF AckListOK
<1>2. CASE d[c] # -1
  BY <1>2 DEF schedule_ack
<1>3. CASE d[c] = -1
  <2> DEFINE b == Append(a, c)
             e == [d EXCEPT ![c] = n]
  <2>1. schedule_ack(l, c) = [ack_sockets |-> b, ida |-> e]
    BY <1>3 DEF schedule_ack
  <2>2. b \in Seq(Sockets) /\ Len(b) = n + 1 /\ e \in [Sockets -> Int]
    BY <1>1
  <2>3. \A i \in 1 .. n : b[i] = a[i] /\ a[i] \in Sockets /\ a[i] # c
    <3> SUFFICES ASSUME NEW i \in 1 .. n PROVE b[i] = a[i] /\ a[i] \in Sockets /\ a[i] # c
      OBVIOUS
    <3>1. b[i] = a[i] /\ a[i] \in Sockets
      BY <1>1
    <3>2. d[a[i]] = i - 1
      BY DEF AckListOK
    <3> QED
      BY <1>3, <3>1, <3>2
  <2>4. b[n + 1] = c
    BY <1>1
  <2>5. \A i \in 1 .. Len(b) : e[b[i]] = i - 1
    <3> SUFFICES ASSUME NEW i \in 1 .. n + 1 PROVE e[b[i]] = i - 1
      BY <2>2
    <3>1. CASE i = n + 1
      BY <1>1, <2>4, <3>1
    <3>2. CASE i \in 1 .. n
      <4>1. d[a[i]] = i - 1
        BY <3>2 DEF AckListOK
      <4> QED
        BY <1>1, <2>3, <3>2, <4>1
    <3> QED
      BY <1>1, <3>1, <3>2
  <2>6. \A x \in Sockets : e[x] # -1 => e[x] + 1 \in 1 .. Len(b) /\ b[e[x] + 1] = x
    <3> SUFFICES ASSUME NEW x \in Sockets, e[x] # -1
                 PROVE  e[x] + 1 \in 1 .. Len(b) /\ b[e[x] + 1] = x
      OBVIOUS
    <3>1. CASE x = c
      BY <1>1, <2>2, <2>4, <3>1
    <3>2. CASE x # c
      <4>1. e[x] = d[x]
        BY <1>1, <3>2
      <4>2. d[x] + 1 \in 1 .. n /\ a[d[x] + 1] = x
        BY <4>1 DEF AckListOK
      <4> QED
        BY <1>1, <2>2, <2>3, <4>1, <4>2
    <3> QED
      BY <3>1, <3>2
  <2>7. AckListOK([ack_sockets |-> b, ida |-> e])
    <3> HIDE DEF b, e
    <3> QED
      BY <2>2, <2>5, <2>6 DEF AckListOK
  <2> QED
    BY <1>1, <2>1, <2>7
<1> QED
  BY <1>2, <1>3

\* removeSocketFromAckList leaves the list in order, takes the socket out of it
\* and no other.  Its asserts hold: the last one of the list is at its place.
THEOREM RemoveKeepsOrder ==
    ASSUME NEW l, NEW c \in Sockets, AckListOK(l)
    PROVE  LET r == removeSocketFromAckList(l, c)
           IN  /\ AckListOK(r) /\ r.ida[c] = -1
               /\ \A x \in Sockets \ {c} : r.ida[x] = -1 <=> l.ida[x] = -1
<1> DEFINE a == l.ack_sockets
           d == l.ida
           n == Len(a)
           last == a[n]
           b == SubSeq([a EXCEPT ![d[c] + 1] = last], 1, n - 1)
           e == [[d EXCEPT ![last] = d[c]] EXCEPT ![c] = -1]
<1>1. a \in Seq(Sockets) /\ d \in [Sockets -> Int] /\ n \in Nat
  BY DEF AckListOK
<1>2. \A x \in Sockets : d[x] # -1 => d[x] + 1 \in 1 .. n /\ a[d[x] + 1] = x
  BY DEF AckListOK
<1>3. \A i \in 1 .. n : a[i] \in Sockets /\ d[a[i]] = i - 1
  BY <1>1 DEF AckListOK
<1>4. CASE d[c] = -1
  BY <1>4 DEF removeSocketFromAckList
<1>5. CASE d[c] # -1
  <2> DEFINE p == d[c] + 1
  <2>1. p \in 1 .. n /\ a[p] = c /\ n \in 1 .. n /\ last \in Sockets /\ d[last] = n - 1
    <3>1. p \in 1 .. n /\ a[p] = c
      BY <1>2, <1>5
    <3>2. n \in 1 .. n
      BY <1>1, <3>1
    <3> QED
      BY <1>3, <3>1, <3>2
  <2>2. removeSocketFromAckList(l, c) = [ack_sockets |-> b, ida |-> e]
    <3>1. ~(d[c] < 0)
      BY <1>1, <2>1
    <3> QED
      BY <3>1 DEF removeSocketFromAckList
  <2>3. /\ b \in Seq(Sockets) /\ Len(b) = n - 1
        /\ \A i \in 1 .. n - 1 : b[i] = IF i = p THEN last ELSE a[i]
    BY <1>1, <2>1
  <2>4. /\ e \in [Sockets -> Int] /\ e[c] = -1
        /\ \A x \in Sockets \ {c} : e[x] = IF x = last THEN p - 1 ELSE d[x]
    BY <1>1, <2>1
  <2>0. p \in Int /\ d[c] = p - 1 /\ last \in Sockets /\ last = a[n] /\ n \in Nat
    BY <1>1, <2>1
  <2> HIDE DEF b, e, p, last
  <2>5. ASSUME NEW i \in 1 .. Len(b) PROVE e[b[i]] = i - 1
    <3>1. i \in 1 .. n - 1 /\ i \in 1 .. n
      BY <1>1, <2>3
    <3>2. CASE i = p
      <4>1. b[i] = last
        BY <2>3, <3>1, <3>2
      <4>2. p - 1 # n - 1
        BY <2>0, <3>1, <3>2
      <4>3. last # c
        BY <2>0, <2>1, <4>2
      <4> QED
        BY <2>1, <2>4, <3>2, <4>1, <4>3
    <3>3. CASE i # p
      <4>1. b[i] = a[i] /\ a[i] \in Sockets /\ d[a[i]] = i - 1
        BY <1>3, <2>3, <3>1, <3>3
      <4>2. i - 1 # p - 1 /\ i - 1 # n - 1
        BY <2>0, <3>1, <3>3
      <4>3. a[i] # c /\ a[i] # last
        BY <2>0, <2>1, <4>1, <4>2
      <4> QED
        BY <2>4, <4>1, <4>3
    <3> QED
      BY <3>2, <3>3
  <2>6. ASSUME NEW x \in Sockets, e[x] # -1
        PROVE  e[x] + 1 \in 1 .. Len(b) /\ b[e[x] + 1] = x
    <3>1. x # c
      BY <2>4, <2>6
    <3>2. CASE x = last
      <4>1. e[x] + 1 = p /\ p # n
        BY <2>0, <2>1, <2>4, <3>1, <3>2
      <4> QED
        BY <2>0, <2>1, <2>3, <3>2, <4>1
    <3>3. CASE x # last
      <4>1. e[x] = d[x]
        BY <2>4, <3>1, <3>3
      <4>2. d[x] + 1 \in 1 .. n /\ a[d[x] + 1] = x
        BY <1>2, <2>6, <4>1
      <4>3. d[x] + 1 # n /\ d[x] + 1 # p
        BY <2>0, <2>1, <3>1, <3>3, <4>2
      <4>4. d[x] + 1 \in 1 .. n - 1
        BY <2>0, <4>2, <4>3
      <4>5. b[d[x] + 1] = a[d[x] + 1]
        BY <2>3, <4>3, <4>4
      <4> QED
        BY <2>3, <4>1, <4>2, <4>4, <4>5
    <3> QED
      BY <3>2, <3>3
  <2>7. AckListOK([ack_sockets |-> b, ida |-> e])
    BY <2>3, <2>4, <2>5, <2>6 DEF AckListOK
  <2>8. ASSUME NEW x \in Sockets \ {c} PROVE e[x] = -1 <=> d[x] = -1
    <3>1. CASE x = last
      BY <2>0, <2>1, <2>4, <3>1
    <3>2. CASE x # last
      BY <2>4, <3>2
    <3> QED
      BY <3>1, <3>2
  <2> QED
    BY <2>2, <2>4, <2>7, <2>8
<1> QED
  BY <1>4, <1>5
===============================================================================
