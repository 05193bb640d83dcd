------------------------------- MODULE UtpDrift -------------------------------
(***************************************************************************)
(* The estimate of the clock drift between the peers, which congestion     *)
(* control turns into a penalty delay.  The samples come from the peer's   *)
(* packets and may be any 32-bit number.  The numbers of this module have  *)
(* the width they have in the code, beyond what TLC computes with.  The    *)
(* delay history (our_hist) that the same packets feed is not modelled.    *)
(***************************************************************************)
EXTENDS Integers

VARIABLES
    average_delay_base,      \* uint32: what the samples are relative to, 0: none yet
    current_delay_sum,       \* int64: the samples of this slot of 5 seconds
    current_delay_samples,   \* and how many there are
    average_delay,           \* int32: the average of the last slot
    clock_drift,             \* int32: the rolling average of the differences
    fits                     \* have all asserts held, and all int32 results fitted?

vars == <<average_delay_base, current_delay_sum, current_delay_samples, average_delay, clock_drift, fits>>

INT_MAX == 2147483647
UINT_RANGE == 2 * (INT_MAX + 1)
MAX_AVERAGE_DELAY_SAMPLE == INT_MAX \div 4
Fits(x) == -INT_MAX - 1 <= x /\ x <= INT_MAX

min(a, b) == IF a < b THEN a ELSE b
max(a, b) == IF a > b THEN a ELSE b

\* Division as in C, towards zero.
Quotient(a, b) == IF a >= 0 THEN a \div b ELSE -((-a) \div b)

Init ==
    /\ average_delay_base = 0 /\ current_delay_sum = 0 /\ current_delay_samples = 0
    /\ average_delay = 0 /\ clock_drift = 0 /\ fits = TRUE

\* The sample of a packet: its distance from the base, the shorter way round.
Distance(base, actual_delay) ==
    LET dist_down == (base - actual_delay) % UINT_RANGE
        dist_up == (actual_delay - base) % UINT_RANGE
    IN  IF dist_down > dist_up THEN min(dist_up, MAX_AVERAGE_DELAY_SAMPLE)
        ELSE -min(dist_down, MAX_AVERAGE_DELAY_SAMPLE)

Base(actual_delay) == IF average_delay_base = 0 THEN actual_delay ELSE average_delay_base

\* Two averages are moved so that zero lies between them.
Adjust(prev, avg) ==
    IF min(prev, avg) > 0 THEN -min(prev, avg)
    ELSE IF max(prev, avg) < 0 THEN -max(prev, avg)
    ELSE 0

\* The slot goes on: the sample is added.
AddSample(base, sum) ==
    /\ average_delay_base' = base /\ current_delay_sum' = sum
    /\ current_delay_samples' = current_delay_samples + 1
    /\ UNCHANGED <<average_delay, clock_drift, fits>>

\* The slot ends: the new average, moved with the one before it, and the drift.
EndSlot(base, avg) ==
    LET adjust == Adjust(average_delay, avg)
        drift == (avg + adjust) - (average_delay + adjust)
        rolling == Quotient(clock_drift * 7 + drift, 8)
    IN  /\ average_delay_base' = (base - adjust) % UINT_RANGE
        /\ current_delay_sum' = 0 /\ current_delay_samples' = 0
        /\ average_delay' = avg + adjust
        /\ clock_drift' = rolling
        /\ fits' = (/\ fits /\ avg < INT_MAX /\ avg > -INT_MAX
                    /\ Fits(avg + adjust) /\ Fits(average_delay + adjust) /\ Fits(drift) /\ Fits(rolling))

\* A packet that reports a delay, before or after the end of the slot.
Packet(actual_delay, ended) ==
    LET sum == current_delay_sum + Distance(Base(actual_delay), actual_delay)
    IN  IF ended THEN EndSlot(Base(actual_delay), Quotient(sum, current_delay_samples + 1))
        ELSE AddSample(Base(actual_delay), sum)

Next ==
    \E actual_delay \in (1 .. UINT_RANGE - 1) \ {INT_MAX}, ended \in BOOLEAN : Packet(actual_delay, ended)

Spec == Init /\ [][Next]_vars

\* What apply_ccontrol adds to the delay when the peer's clock runs slow.
Penalty == IF clock_drift < -200000 THEN Quotient(-clock_drift - 200000, 7) ELSE 0

-------------------------------------------------------------------------------
\* Whatever delays a peer reports, over however many packets, the asserts on the
\* average hold and no signed number overflows while the average is normalised
\* and the drift is computed.
DriftFits == fits

\* The penalty never lowers the delay (so that the assert on scaled_gain holds)
\* and leaves room for a delay of half an hour in an int32.
PenaltySane == 0 <= Penalty /\ Penalty + 1800000000 <= INT_MAX
===============================================================================
