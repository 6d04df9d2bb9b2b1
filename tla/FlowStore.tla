------------------------------ MODULE FlowStore ------------------------------
(***************************************************************************)
(* What the flow table promises for exact lookups: a flow that is inserted *)
(* hides the older flows with the same key, and deleting it shows them     *)
(* again.  A flow is its number, newer ones have the greater.  What a      *)
(* lookup answers when no flow has the key is left open.                   *)
(***************************************************************************)
EXTENDS Integers

CONSTANTS Key, Answer

VARIABLES flows,   \* the flows of each key
          answer   \* what the last lookup returned

Init == flows = [k \in Key |-> {}] /\ answer \in Answer

Newest(k) == CHOOSE f \in flows[k] : \A g \in flows[k] : g <= f

Insert(k, f) == /\ \A j \in Key : \A g \in flows[j] : g < f
                /\ flows' = [flows EXCEPT ![k] = @ \cup {f}]
                /\ UNCHANGED answer

Delete(k) == /\ flows[k] # {}
             /\ flows' = [flows EXCEPT ![k] = @ \ {Newest(k)}]
             /\ UNCHANGED answer

Lookup(k) == /\ answer' \in IF flows[k] = {} THEN Answer ELSE {Newest(k)}
             /\ UNCHANGED flows

Next == \E k \in Key : Delete(k) \/ Lookup(k) \/ \E f \in Answer : Insert(k, f)

Spec == Init /\ [][Next]_<<flows, answer>>
===============================================================================
