------------------------------ MODULE ByteStream ------------------------------
(***************************************************************************)
(* What one direction of a connection promises: the reader gets the        *)
(* writer's bytes in order and once, and learns of the end of the stream   *)
(* only after the last of them.  A connection may fail at any time; then   *)
(* nothing more arrives.                                                   *)
(***************************************************************************)
EXTENDS Naturals

VARIABLES
    sent,       \* bytes the writer has handed over
    ended,      \* the writer has ended the stream
    received,   \* bytes the reader was given: the first ones of the stream
    reading,    \* the reader still wants them
    eof         \* the reader was told that the stream has ended

vars == <<sent, ended, received, reading, eof>>

Init == sent = 0 /\ received = 0 /\ ended = FALSE /\ reading = TRUE /\ eof = FALSE

Write == ~ended /\ sent' > sent /\ UNCHANGED <<ended, received, reading, eof>>

End == ~ended /\ ended' /\ UNCHANGED <<sent, received, reading, eof>>

StopReading == reading /\ ~reading' /\ UNCHANGED <<sent, ended, received, eof>>

\* Bytes arrive, or the end of the stream, or the last bytes and then the end.
Arrive ==
    /\ ~eof
    /\ received' \in received .. sent /\ (received' > received => reading)
    /\ eof' \in BOOLEAN /\ (eof' => ended /\ (received' = sent \/ ~reading))
    /\ UNCHANGED <<sent, ended, reading>>

Next == Write \/ End \/ StopReading \/ Arrive

Spec == Init /\ [][Next]_vars
===============================================================================
