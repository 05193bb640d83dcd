----------------------------- MODULE CircularBuffer -----------------------------
(***************************************************************************)
(* SizableCircularBuffer: a power-of-two array of pointers indexed by      *)
(* sequence number modulo its size.  A buffer is a record of its mask and  *)
(* its elements; an empty slot holds NULL.                                 *)
(***************************************************************************)
EXTENDS Integers

CONSTANTS
    NULL,           \* the null pointer
    INITIAL_MASK    \* mask of a new buffer: 15 in utp_create_socket

\* Every mask a buffer can have: sizes are powers of two, at most 2048,
\* because no index above 1024 is ever asked for.
Masks == {1, 3, 7, 15, 31, 63, 127, 255, 511, 1023, 2047}

ASSUME InitialMaskAssumption == INITIAL_MASK \in Masks

\* The buffers with mask m and elements in T.
Buffer(m, T) == [mask : {m}, elements : [0 .. m -> T]]

EmptyBuffer == [mask |-> INITIAL_MASK, elements |-> [j \in 0 .. INITIAL_MASK |-> NULL]]

\* i & mask
Slot(i, mask) == i % (mask + 1)

get(b, i) == b.elements[Slot(i, b.mask)]

put(b, i, data) == [mask |-> b.mask, elements |-> [b.elements EXCEPT ![Slot(i, b.mask)] = data]]

\* The mask after doubling the size at least once, until index fits.
GrownMask(mask, index) ==
    CHOOSE m \in Masks :
        /\ m > mask /\ m >= index
        /\ \A l \in Masks : (l > mask /\ l >= index) => m <= l

\* Mutant of grow: elements stay at their index instead of moving to the slot
\* of their sequence number.
GrowInPlace(b, item, index) ==
    LET m == GrownMask(b.mask, index)
    IN  [mask |-> m, elements |-> [j \in 0 .. m |-> IF j <= b.mask THEN b.elements[j] ELSE NULL]]

\* Copies the old buffer's window, which starts at item - index, to its slots
\* in a larger buffer.
grow(b, item, index) ==
    LET m == GrownMask(b.mask, index)
        first == item - index
        \* the element of the old window that lands in slot j, by its offset
        Offset(j) == Slot(j - first, m)
    IN  [mask |-> m,
         elements |-> [j \in 0 .. m |-> IF Offset(j) <= b.mask
                                        THEN get(b, first + Offset(j)) ELSE NULL]]

ensure_size(b, item, index) == IF index > b.mask THEN grow(b, item, index) ELSE b
===============================================================================
