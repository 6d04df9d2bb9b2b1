------------------------------ MODULE MCMacTable ------------------------------
(* Model checking MacTable: two addresses in one bucket, two ports.         *)
EXTENDS MacTable

CONSTANTS w1, w2, A, B

TwoWorkers == {w1, w2}
OneWorker == {w1}
OneOrTwo == {OneWorker, TwoWorkers}
Only == {OneWorker}
Times == <<4, 2>>
Calls == <<5, 4>>
Addr == {A, B}
Ports == {1, 2}
=============================================================================
