----------------------------- MODULE MCDataPlane -----------------------------
(* Model checking DataPlane: two ports, two workers, stations A and B.       *)
EXTENDS DataPlane

CONSTANTS f1, f2, w1, w2, A, B, Bcast, RuntFrame

AtoB == [src |-> A, dst |-> B, v6 |-> FALSE]
BtoA == [src |-> B, dst |-> A, v6 |-> FALSE]
AtoAll == [src |-> A, dst |-> Bcast, v6 |-> FALSE]
BtoA6 == [src |-> B, dst |-> A, v6 |-> TRUE]

Sockets == {f1, f2}
HighSockets == {f2}
Threads == {w1, w2}
Stations == {A, B}
Frames == {AtoB, BtoA, AtoAll, BtoA6}
Flows == {AtoB, BtoA}
Sent == {AtoB, BtoA, BtoA6, RuntFrame}
Heap == {AtoAll}
Steering == [h \in Frames |-> IF h.src = A THEN w1 ELSE w2]
=============================================================================
