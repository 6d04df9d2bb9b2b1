----------------------------- MODULE BoundedQueue -----------------------------
(***************************************************************************)
(* What a worker's packet queue promises to the two threads that share it: *)
(* a first-in first-out queue of at most Capacity items, where an item put *)
(* is an item taken, once and in order.  A put may be refused; a refused   *)
(* put and a take from an empty queue change nothing.                      *)
(***************************************************************************)
EXTENDS Naturals, Sequences

CONSTANTS Item,      (* what can be put in the queue                       *)
          NoItem,    (* "nothing taken yet"                                *)
          Capacity   (* the largest number of items the queue ever holds   *)

VARIABLES queue,     (* the items put and not yet taken, oldest first      *)
          out        (* the item the last successful take returned         *)

Init == queue = << >> /\ out = NoItem

Put(x) == /\ Len(queue) < Capacity
          /\ queue' = Append(queue, x)
          /\ UNCHANGED out

Take == /\ queue # << >>
        /\ out' = Head(queue)
        /\ queue' = Tail(queue)

Next == Take \/ \E x \in Item : Put(x)

Spec == Init /\ [][Next]_<<queue, out>>
===============================================================================
