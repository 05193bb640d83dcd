---------------------------- MODULE MCUtpContext ----------------------------
(* Small instances of UtpContext. *)
EXTENDS UtpContext, TLC

\* Keys that collide: ids below 3 share a bucket, the others have the last one.
MCHashOf(key) == IF key[2] < 3 THEN 3 * key[2] ELSE 2

Symmetry == Permutations(Sockets)
=============================================================================
