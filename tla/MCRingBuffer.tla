---------------------------- MODULE MCRingBuffer ----------------------------
(* Model checking RingBuffer: a ring of four slots, three distinct pointers.   *)
EXTENDS RingBuffer

CONSTANTS p1, p2, p3

Pointers == {p1, p2, p3}
=============================================================================
