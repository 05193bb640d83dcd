-------------------------------- MODULE UtpSeq --------------------------------
(***************************************************************************)
(* Sequence numbers of utp_internal.cpp.  They are uint16 fields: every    *)
(* sum and difference is taken modulo 2^16, as the code's conversions and  *)
(* its "& SEQ_NR_MASK" and "& ACK_NR_MASK" do.                             *)
(***************************************************************************)
EXTENDS Integers

CONSTANTS
    REORDER_BUFFER_MAX_SIZE,    \* 1024
    OUTGOING_BUFFER_MAX_SIZE    \* 1024

ASSUME BufferLimitAssumption ==
    /\ REORDER_BUFFER_MAX_SIZE \in 1 .. 1024
    /\ OUTGOING_BUFFER_MAX_SIZE \in 2 .. 1024

DUPLICATE_ACKS_BEFORE_RESEND == 3
ACK_NR_ALLOWED_WINDOW == DUPLICATE_ACKS_BEFORE_RESEND

SEQ_NR_MASK == 65535
SeqNr == 0 .. SEQ_NR_MASK

\* A value stored in a uint16, or masked with SEQ_NR_MASK or ACK_NR_MASK.
Wrap(n) == n % 65536

\* lhs is less than rhs on a circle of size mask + 1.
wrapping_compare_less(lhs, rhs, mask) ==
    (rhs - lhs) % (mask + 1) < (lhs - rhs) % (mask + 1)

Less(lhs, rhs) == wrapping_compare_less(lhs, rhs, 65535)
===============================================================================
