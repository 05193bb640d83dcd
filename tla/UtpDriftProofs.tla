---------------------------- MODULE UtpDriftProofs ----------------------------
(***************************************************************************)
(* The clock drift estimate never leaves an int32.  A slot's sum is bounded *)
(* by the number of its samples, so its average, and the average moved      *)
(* together with the one before it, stay within MAX_AVERAGE_DELAY_SAMPLE of *)
(* zero, and the drift within twice that.                                   *)
(***************************************************************************)
EXTENDS UtpDrift, TLAPS

Within(x, b) == -b <= x /\ x <= b

DriftInv ==
    /\ average_delay_base \in Int /\ current_delay_sum \in Int /\ current_delay_samples \in Nat
    /\ average_delay \in Int /\ clock_drift \in Int
    /\ Within(current_delay_sum, MAX_AVERAGE_DELAY_SAMPLE * current_delay_samples)
    /\ Within(average_delay, MAX_AVERAGE_DELAY_SAMPLE)
    /\ Within(clock_drift, 2 * MAX_AVERAGE_DELAY_SAMPLE)
    /\ fits = TRUE

\* What the proofs use of the constants INT_MAX and MAX_AVERAGE_DELAY_SAMPLE.
LEMMA Limits ==
    /\ INT_MAX \in Nat /\ MAX_AVERAGE_DELAY_SAMPLE \in Nat
    /\ 4 * MAX_AVERAGE_DELAY_SAMPLE <= INT_MAX /\ MAX_AVERAGE_DELAY_SAMPLE > 0
    /\ MAX_AVERAGE_DELAY_SAMPLE <= 536870911 /\ INT_MAX = 2147483647
    /\ UINT_RANGE \in Nat /\ UINT_RANGE > 0
BY DEF INT_MAX, MAX_AVERAGE_DELAY_SAMPLE, UINT_RANGE

\* The quotient of naturals is at most k when the dividend is at most k times
\* the divisor.
LEMMA NatQuotientBound ==
    ASSUME NEW a \in Nat, NEW b \in Nat \ {0}, NEW k \in Nat, a <= k * b
    PROVE  a \div b \in Nat /\ a \div b <= k
<1> DEFINE q == a \div b
<1>1. q \in Nat /\ q * b <= a
  OBVIOUS
<1>2. ASSUME q >= k + 1 PROVE FALSE
  <2> HIDE DEF q
  <2>1. (q - (k + 1)) * b >= 0
    BY <1>1, <1>2
  <2>2. q * b >= (k + 1) * b /\ (k + 1) * b = k * b + b
    BY <2>1, <1>1
  <2> QED
    BY <1>1, <2>2
<1> QED
  BY <1>1, <1>2

\* The same for C's division of integers of either sign.
LEMMA QuotientBound ==
    ASSUME NEW a \in Int, NEW b \in Nat \ {0}, NEW k \in Nat, Within(a, k * b)
    PROVE  Quotient(a, b) \in Int /\ Within(Quotient(a, b), k)
<1>1. CASE a >= 0
  <2>1. a \in Nat /\ a <= k * b
    BY <1>1 DEF Within
  <2> QED
    BY <1>1, <2>1, NatQuotientBound DEF Within, Quotient
<1>2. CASE ~(a >= 0)
  <2>1. -a \in Nat /\ -a <= k * b
    BY <1>2 DEF Within
  <2>2. (-a) \div b \in Nat /\ (-a) \div b <= k
    BY <2>1, NatQuotientBound
  <2> QED
    BY <1>2, <2>2 DEF Within, Quotient
<1> QED
  BY <1>1, <1>2

\* A sample is clamped, whatever the peer reported.
LEMMA DistanceBound ==
    ASSUME NEW base \in Int, NEW d \in Int
    PROVE  Distance(base, d) \in Int /\ Within(Distance(base, d), MAX_AVERAGE_DELAY_SAMPLE)
<1> DEFINE down == (base - d) % UINT_RANGE
           up == (d - base) % UINT_RANGE
<1>1. down \in Nat /\ up \in Nat
  BY Limits
<1>2. Distance(base, d) = IF down > up THEN min(up, MAX_AVERAGE_DELAY_SAMPLE)
                          ELSE -min(down, MAX_AVERAGE_DELAY_SAMPLE)
  BY DEF Distance
<1> HIDE DEF down, up
<1> QED
  BY <1>1, <1>2, Limits DEF min, Within

\* Moved together, the two averages stay as close to zero as they were.
LEMMA AdjustBound ==
    ASSUME NEW b \in Nat, NEW prev \in Int, NEW avg \in Int, Within(prev, b), Within(avg, b)
    PROVE  /\ Adjust(prev, avg) \in Int
           /\ Within(avg + Adjust(prev, avg), b) /\ Within(prev + Adjust(prev, avg), b)
BY DEF Adjust, Within, min, max

\* The slot's sum stays bounded as a sample is added to it.
LEMMA SumBound ==
    ASSUME DriftInv, NEW d \in Int
    PROVE  /\ Base(d) \in Int
           /\ current_delay_sum + Distance(Base(d), d) \in Int
           /\ Within(current_delay_sum + Distance(Base(d), d),
                     MAX_AVERAGE_DELAY_SAMPLE * (current_delay_samples + 1))
<1>1. Base(d) \in Int
  BY DEF Base, DriftInv
<1>2. /\ Distance(Base(d), d) \in Int
      /\ Within(Distance(Base(d), d), MAX_AVERAGE_DELAY_SAMPLE)
  BY <1>1, DistanceBound
<1>3. MAX_AVERAGE_DELAY_SAMPLE * (current_delay_samples + 1)
        = MAX_AVERAGE_DELAY_SAMPLE * current_delay_samples + MAX_AVERAGE_DELAY_SAMPLE
  BY Limits DEF DriftInv
<1>4. MAX_AVERAGE_DELAY_SAMPLE * current_delay_samples \in Int
  BY Limits DEF DriftInv
<1> QED
  BY <1>1, <1>2, <1>3, <1>4, Limits DEF DriftInv, Within

\* The end of a slot keeps the invariant: the asserts hold and nothing overflows.
LEMMA EndSlotKeeps ==
    ASSUME DriftInv, NEW base \in Int, NEW avg \in Int,
           Within(avg, MAX_AVERAGE_DELAY_SAMPLE), EndSlot(base, avg)
    PROVE  DriftInv'
<1> DEFINE M == MAX_AVERAGE_DELAY_SAMPLE
           adjust == Adjust(average_delay, avg)
           drift == (avg + adjust) - (average_delay + adjust)
           rolling == Quotient(clock_drift * 7 + drift, 8)
<1>1. adjust \in Int /\ Within(avg + adjust, M) /\ Within(average_delay + adjust, M)
  BY AdjustBound, Limits DEF DriftInv
<1> HIDE DEF adjust
<1>2. drift \in Int /\ Within(drift, 2 * M)
  BY <1>1, Limits DEF DriftInv, Within
<1>3. rolling \in Int /\ Within(rolling, 2 * M)
  <2> HIDE DEF drift
  <2>1. clock_drift * 7 + drift \in Int /\ Within(clock_drift * 7 + drift, (2 * M) * 8)
    BY <1>2, Limits DEF DriftInv, Within
  <2> QED
    BY <2>1, QuotientBound, Limits
<1>4. /\ average_delay_base' = (base - adjust) % UINT_RANGE
      /\ current_delay_sum' = 0 /\ current_delay_samples' = 0
      /\ average_delay' = avg + adjust
      /\ clock_drift' = rolling
      /\ fits' = (/\ fits /\ avg < INT_MAX /\ avg > -INT_MAX
                  /\ Fits(avg + adjust) /\ Fits(average_delay + adjust) /\ Fits(drift) /\ Fits(rolling))
  BY DEF EndSlot, adjust
<1> HIDE DEF drift, rolling
<1>5. avg < INT_MAX /\ avg > -INT_MAX
  BY Limits DEF Within
<1>6. Fits(avg + adjust) /\ Fits(average_delay + adjust)
  BY <1>1, Limits DEF Within, Fits, DriftInv
<1>7. Fits(drift) /\ Fits(rolling)
  BY <1>2, <1>3, Limits DEF Within, Fits
<1>8. fits' = TRUE
  BY <1>4, <1>5, <1>6, <1>7, Zenon DEF DriftInv
<1>9. average_delay_base' \in Int
  BY <1>1, <1>4, Limits
<1> QED
  BY <1>1, <1>3, <1>4, <1>8, <1>9, Limits DEF DriftInv, Within

\* Every packet keeps the invariant.
LEMMA PacketKeeps ==
    ASSUME DriftInv, NEW d \in Int, NEW ended \in BOOLEAN, Packet(d, ended)
    PROVE  DriftInv'
<1> DEFINE sum == current_delay_sum + Distance(Base(d), d)
<1>1. /\ Base(d) \in Int /\ sum \in Int
      /\ Within(sum, MAX_AVERAGE_DELAY_SAMPLE * (current_delay_samples + 1))
  BY SumBound
<1>2. CASE ended
  <2>1. EndSlot(Base(d), Quotient(sum, current_delay_samples + 1))
    BY <1>2 DEF Packet
  <2> HIDE DEF sum
  <2>2. current_delay_samples + 1 \in Nat \ {0}
    BY DEF DriftInv
  <2>3. /\ Quotient(sum, current_delay_samples + 1) \in Int
        /\ Within(Quotient(sum, current_delay_samples + 1), MAX_AVERAGE_DELAY_SAMPLE)
    BY <1>1, <2>2, QuotientBound, Limits
  <2> QED
    BY <1>1, <2>1, <2>3, EndSlotKeeps
<1>3. CASE ~ended
  <2>1. AddSample(Base(d), sum)
    BY <1>3 DEF Packet
  <2> HIDE DEF sum
  <2>2. /\ average_delay_base' = Base(d) /\ current_delay_sum' = sum
        /\ current_delay_samples' = current_delay_samples + 1
        /\ average_delay' = average_delay /\ clock_drift' = clock_drift /\ fits' = fits
    BY <2>1 DEF AddSample
  <2>3. MAX_AVERAGE_DELAY_SAMPLE' = MAX_AVERAGE_DELAY_SAMPLE
    OBVIOUS
  <2> QED
    BY <1>1, <2>2 DEF DriftInv, Within
<1> QED
  BY <1>2, <1>3

\* The bounds hold of every state.
LEMMA DriftInvariant == Spec => []DriftInv
<1>1. Init => DriftInv
  BY Limits DEF Init, DriftInv, Within
<1>2. DriftInv /\ [Next]_vars => DriftInv'
  <2> SUFFICES ASSUME DriftInv, [Next]_vars PROVE DriftInv'
    OBVIOUS
  <2>1. CASE Next
    <3>1. PICK d \in (1 .. UINT_RANGE - 1) \ {INT_MAX}, ended \in BOOLEAN : Packet(d, ended)
      BY <2>1 DEF Next
    <3>2. d \in Int
      BY Limits
    <3> QED
      BY <3>1, <3>2, PacketKeeps
  <2>2. CASE UNCHANGED vars
    BY <2>2 DEF vars, DriftInv, Within
  <2> QED
    BY <2>1, <2>2
<1> QED
  BY <1>1, <1>2, PTL DEF Spec

\* No sequence of reported delays makes the asserts of utp_process_incoming on
\* the average fail or overflows an int32 in the clock drift estimate.
THEOREM DriftNeverOverflows == Spec => []DriftFits
<1>1. DriftInv => DriftFits
  BY DEF DriftInv, DriftFits
<1> QED
  BY <1>1, DriftInvariant, PTL

\* The penalty apply_ccontrol takes from the drift only ever adds to the delay,
\* and the sum fits an int32 for every delay below half an hour.
THEOREM PenaltyOnlySlows == Spec => []PenaltySane
<1>1. DriftInv => PenaltySane
  <2> SUFFICES ASSUME DriftInv, clock_drift < -200000 PROVE PenaltySane
    BY Limits DEF PenaltySane, Penalty
  <2>1. -clock_drift - 200000 \in Nat /\ -clock_drift - 200000 <= 153391689 * 7
    BY Limits DEF DriftInv, Within
  <2>2. (-clock_drift - 200000) \div 7 \in Nat /\ (-clock_drift - 200000) \div 7 <= 153391689
    BY <2>1, NatQuotientBound
  <2>3. Penalty = (-clock_drift - 200000) \div 7
    BY <2>1 DEF Penalty, Quotient
  <2> QED
    BY <2>2, <2>3, Limits DEF PenaltySane
<1> QED
  BY <1>1, DriftInvariant, PTL
===============================================================================
