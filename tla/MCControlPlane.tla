---------------------------- MODULE MCControlPlane ----------------------------
(* Model checking ControlPlane: two clients, two ports at most.             *)
EXTENDS ControlPlane

CONSTANTS c1, c2

TwoClients == {c1, c2}
===============================================================================
