------------------------- MODULE CircularBufferProofs -------------------------
(***************************************************************************)
(* What SizableCircularBuffer guarantees for every mask a buffer can have: *)
(* slots of one window are distinct, they agree with the 16-bit wire       *)
(* sequence numbers, and growing keeps the window.                         *)
(***************************************************************************)
EXTENDS UtpSeq, CircularBuffer, TLAPS

\* Arithmetic modulo 2^16.
LEMMA WrapType ==
    ASSUME NEW i \in Int
    PROVE  Wrap(i) \in SeqNr
<1>1. Wrap(i) \in Int /\ 0 <= Wrap(i) /\ Wrap(i) <= SEQ_NR_MASK /\ SEQ_NR_MASK \in Int
  BY DEF Wrap, SEQ_NR_MASK
<1> QED
  BY <1>1 DEF SeqNr

\* A sequence number is a natural number below 2^16.
LEMMA SeqNrType ==
    ASSUME NEW i \in SeqNr
    PROVE  i \in Nat /\ i <= 65535
<1>1. SEQ_NR_MASK \in Int /\ SEQ_NR_MASK <= 65535
  BY DEF SEQ_NR_MASK
<1> QED
  BY <1>1 DEF SeqNr

\* Numbers less than 2^16 apart wrap to different values.
LEMMA WrapInjective ==
    ASSUME NEW i \in Int, NEW j \in Int, i <= j, j < i + 65536, Wrap(i) = Wrap(j)
    PROVE  i = j
BY DEF Wrap

\* Wrapping before an addition changes nothing.
LEMMA WrapPlus ==
    ASSUME NEW i \in Int, NEW d \in Int
    PROVE  Wrap(Wrap(i) + d) = Wrap(i + d)
BY DEF Wrap

\* Wrapping before a subtraction changes nothing.
LEMMA WrapMinus ==
    ASSUME NEW i \in Int, NEW j \in Int
    PROVE  Wrap(Wrap(i) - Wrap(j) - 1) = Wrap(i - j - 1)
BY DEF Wrap

\* A 16-bit number is not changed by wrapping.
LEMMA WrapSmall ==
    ASSUME NEW i \in Int, 0 <= i, i <= 65535
    PROVE  Wrap(i) = i
BY DEF Wrap

\* A negative number wraps around once.
LEMMA WrapNegative ==
    ASSUME NEW i \in Int, -65536 <= i, i < 0
    PROVE  Wrap(i) = i + 65536
BY DEF Wrap

\* A mask is a number between 1 and 2047.
LEMMA MaskType ==
    ASSUME NEW m \in Masks
    PROVE  m \in Nat /\ m >= 1 /\ m <= 2047
BY DEF Masks

\* A slot is an index of the array.
LEMMA SlotType ==
    ASSUME NEW m \in Masks, NEW i \in Int
    PROVE  Slot(i, m) \in 0 .. m
BY DEF Masks, Slot

\* Two indexes of the same slot are a whole number of buffers apart.
LEMMA SlotInjective ==
    ASSUME NEW m \in Masks, NEW i \in Int, NEW j \in Int, i < j, j <= i + m
    PROVE  Slot(i, m) # Slot(j, m)
BY SMTT(30) DEF Masks, Slot

\* The indexes one buffer apart share a slot.
LEMMA SlotPeriod ==
    ASSUME NEW m \in Masks, NEW i \in Int
    PROVE  Slot(i + m + 1, m) = Slot(i, m)
BY SMTT(30) DEF Masks, Slot

\* An index and its 16-bit sequence number have the same slot.
LEMMA SlotWrap ==
    ASSUME NEW m \in Masks, NEW i \in Int
    PROVE  Slot(Wrap(i), m) = Slot(i, m)
BY SMTT(30) DEF Masks, Slot, Wrap

\* An offset from a wrapped number has the slot of the unwrapped one.
LEMMA SlotWrapPlus ==
    ASSUME NEW m \in Masks, NEW i \in Int, NEW d \in Int
    PROVE  Slot(Wrap(i) + d, m) = Slot(i + d, m)
BY SMTT(30) DEF Masks, Slot, Wrap

\* The slot of a difference depends only on the slots of its terms.
LEMMA SlotMinus ==
    ASSUME NEW m \in Masks, NEW i \in Int, NEW j \in Int
    PROVE  Slot(Slot(i, m) - j, m) = Slot(i - j, m)
BY SMTT(30) DEF Masks, Slot

-------------------------------------------------------------------------------
\* get reads an element of the buffer.
LEMMA GetType ==
    ASSUME NEW T, NEW m \in Masks, NEW b \in Buffer(m, T), NEW i \in Int
    PROVE  get(b, i) \in T
<1>1. b.mask = m /\ b.elements \in [0 .. m -> T]
  BY DEF Buffer
<1>2. Slot(i, m) \in 0 .. m
  BY SlotType
<1>3. b.elements[Slot(i, m)] \in T
  BY <1>1, <1>2
<1> QED
  BY <1>1, <1>3 DEF get

\* put writes the slot of its index and no other (SizableCircularBuffer::put).
LEMMA PutGet ==
    ASSUME NEW T, NEW m \in Masks, NEW b \in Buffer(m, T), NEW i \in Int, NEW x \in T
    PROVE  /\ put(b, i, x) \in Buffer(m, T)
           /\ get(put(b, i, x), i) = x
           /\ \A j \in Int : Slot(j, m) # Slot(i, m) => get(put(b, i, x), j) = get(b, j)
<1>1. b.mask = m /\ b.elements \in [0 .. m -> T]
  BY DEF Buffer
<1>2. \A j \in Int : Slot(j, m) \in 0 .. m
  BY SlotType
<1> QED
  BY <1>1, <1>2 DEF put, get, Buffer

\* The new size is larger than the old one and holds the index that did not
\* fit (the doubling loop of SizableCircularBuffer::grow).
LEMMA GrownMaskFits ==
    ASSUME NEW m \in Masks, NEW index \in Nat, index > m, index <= 2047
    PROVE  /\ GrownMask(m, index) \in Masks
           /\ GrownMask(m, index) > m
           /\ GrownMask(m, index) >= index
<1> DEFINE P(n) == /\ n > m /\ n >= index
                   /\ \A l \in Masks : (l > m /\ l >= index) => n <= l
<1>1. \E n \in Masks : P(n)
  BY SMTT(30) DEF Masks
<1> QED
  BY <1>1 DEF GrownMask

\* Growing keeps the elements of the old window and adds empty slots after it.
LEMMA GrowKeepsWindow ==
    ASSUME NEW T, NULL \in T, NEW m \in Masks, NEW b \in Buffer(m, T),
           NEW item \in Int, NEW index \in Nat, index > m, index <= 2047
    PROVE  LET g == grow(b, item, index)
           IN  /\ g.mask \in Masks /\ g.mask > m /\ g.mask >= index
               /\ g \in Buffer(g.mask, T)
               /\ \A o \in 0 .. g.mask : get(g, item - index + o) =
                      IF o <= m THEN get(b, item - index + o) ELSE NULL
<1> DEFINE g == grow(b, item, index)
           n == GrownMask(m, index)
           first == item - index
<1>1. n \in Masks /\ n > m /\ n >= index
  BY GrownMaskFits
<1>n. n \in Nat /\ m \in Nat
  BY <1>1, MaskType
<1> HIDE DEF n
<1>2. b.mask = m /\ b.elements \in [0 .. m -> T] /\ first \in Int
  BY DEF Buffer
<1>3. \A i \in Int : get(b, i) \in T
  BY GetType
<1>4. g.mask = n
  BY <1>2 DEF grow, n
<1>5. g.elements = [j \in 0 .. n |-> IF Slot(j - first, n) <= m
                                     THEN get(b, first + Slot(j - first, n)) ELSE NULL]
  BY <1>2 DEF grow, n
<1>6. g.elements \in [0 .. n -> T]
  <2>1. ASSUME NEW j \in 0 .. n
        PROVE  first + Slot(j - first, n) \in Int
    BY <1>1, <1>n, <1>2, SlotType
  <2> QED
    BY <1>3, <1>5, <2>1
<1>7. g \in Buffer(n, T)
  BY <1>4, <1>6 DEF Buffer, grow
<1> HIDE DEF g, first
<1>8. ASSUME NEW o \in 0 .. n
      PROVE  get(g, first + o) = IF o <= m THEN get(b, first + o) ELSE NULL
  <2> DEFINE j == Slot(first + o, n)
  <2>a. first + o \in Int
    BY <1>n, <1>2
  <2>1. j \in 0 .. n
    BY <1>1, <2>a, SlotType
  <2>2. Slot(j - first, n) = Slot(o, n)
    BY <1>1, <1>2, SlotMinus, first + o - first = o
  <2>3. Slot(o, n) = o
    BY <1>n DEF Slot
  <2>4. get(g, first + o) = g.elements[j]
    BY <1>4 DEF get
  <2> QED
    BY <1>5, <2>1, <2>2, <2>3, <2>4
<1> QED
  BY <1>1, <1>4, <1>7, <1>8 DEF g, first

\* ensure_size makes room for index and keeps the window of the buffer.
LEMMA EnsureSizeKeepsWindow ==
    ASSUME NEW T, NULL \in T, NEW m \in Masks, NEW b \in Buffer(m, T),
           NEW item \in Int, NEW index \in Nat, index <= 2047
    PROVE  LET g == ensure_size(b, item, index)
           IN  /\ g.mask \in Masks /\ g.mask >= m /\ g.mask >= index
               /\ g \in Buffer(g.mask, T)
               /\ \A o \in 0 .. g.mask : get(g, item - index + o) =
                      IF o <= m THEN get(b, item - index + o) ELSE NULL
<1>1. b.mask = m /\ m \in Nat
  BY MaskType DEF Buffer
<1>2. CASE index > m
  <2>1. ensure_size(b, item, index) = grow(b, item, index)
    BY <1>1, <1>2 DEF ensure_size
  <2>2. grow(b, item, index).mask \in Nat
    BY <1>2, GrowKeepsWindow, MaskType
  <2> QED
    BY <1>1, <1>2, <2>1, <2>2, GrowKeepsWindow
<1>3. CASE index <= m
  BY <1>1, <1>3 DEF ensure_size
<1> QED
  BY <1>1, <1>2, <1>3
===============================================================================
