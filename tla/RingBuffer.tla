------------------------------ MODULE RingBuffer ------------------------------
(***************************************************************************)
(* ring_buffer_t (include/ring.h, src/utils/queue.c): the lock-free ring   *)
(* between the dispatcher, its only producer, and one worker, its only     *)
(* consumer.  Every shared access of ring_buffer_push and ring_buffer_pop  *)
(* is a step of its own.                                                   *)
(*                                                                         *)
(* The indices are C11 atomics: each thread loads its own index relaxed    *)
(* (it is the only writer, so it reads its own last store) and the other   *)
(* thread's with memory_order_acquire.  An acquire load need not return    *)
(* the newest value: it returns any value stored since the one the thread  *)
(* saw last (coherence), and it makes visible what the other thread did    *)
(* before it stored that value.  seenTail and seenHead are those views.    *)
(***************************************************************************)
EXTENDS Integers, Sequences

CONSTANTS Item,              (* the pointers that are pushed               *)
          NoItem,            (* the content of a slot never written (NULL) *)
          RING_BUFFER_SIZE   (* number of slots                            *)

\* ring.h:6 asks for a power of two so that & BUFFER_MASK is a remainder.
ASSUME RingAssumption == /\ RING_BUFFER_SIZE \in Nat
                         /\ RING_BUFFER_SIZE >= 2
                         /\ NoItem \notin Item

VARIABLES
  data, head, tail,        \* the shared ring_buffer_t
  ppc, pitem, seenTail,    \* the producer inside ring_buffer_push
  cpc, citem, seenHead,    \* the consumer inside ring_buffer_pop
  out                      \* *item, as the last pop that returned true left it

producerVars == <<ppc, pitem, seenTail>>
consumerVars == <<cpc, citem, seenHead, out>>
vars == <<data, head, tail, producerVars, consumerVars>>

Index == 0 .. RING_BUFFER_SIZE - 1
Slot == Item \cup {NoItem}

\* Mutation of Masked: the index is not masked.
Unmasked(k) == k

\* k & BUFFER_MASK, for the sums that occur (below twice the size).
Masked(k) == IF k < RING_BUFFER_SIZE THEN k ELSE k - RING_BUFFER_SIZE

\* (b - a) & BUFFER_MASK: how many stores lead from index a to index b.
Distance(a, b) == IF a <= b THEN b - a ELSE b - a + RING_BUFFER_SIZE

ring_buffer_size == Distance(tail, head)

\* Mutation of Visible: the other thread's index is loaded once and for all.
NeverReloaded(seen, current) == {seen}

\* What an acquire load of an index now at current may return to a thread that
\* last saw it at seen.
Visible(seen, current) ==
  {i \in Index : Distance(seen, i) <= Distance(seen, current)}

Init == /\ data = [i \in Index |-> NoItem]
        /\ head = 0 /\ tail = 0
        /\ ppc = "idle" /\ pitem = NoItem /\ seenTail = 0
        /\ cpc = "idle" /\ citem = NoItem /\ seenHead = 0
        /\ out = NoItem

-------------------------------------------------------------------------------
(* ring_buffer_push *)

PushCall(x) == /\ ppc = "idle"
               /\ ppc' = "check" /\ pitem' = x
               /\ UNCHANGED <<data, head, tail, seenTail, consumerVars>>

\* next_head == tail: return false.
PushFull == /\ ppc = "check"
            /\ \E t \in Visible(seenTail, tail) :
                 Masked(head + 1) = t /\ seenTail' = t
            /\ ppc' = "idle"
            /\ UNCHANGED <<data, head, tail, pitem, consumerVars>>

\* Mutation of PushRoom: no test for a full ring.
PushUnchecked == /\ ppc = "check"
                 /\ seenTail' \in Visible(seenTail, tail)
                 /\ ppc' = "store"
                 /\ UNCHANGED <<data, head, tail, pitem, consumerVars>>

PushRoom == /\ ppc = "check"
            /\ \E t \in Visible(seenTail, tail) :
                 Masked(head + 1) # t /\ seenTail' = t
            /\ ppc' = "store"
            /\ UNCHANGED <<data, head, tail, pitem, consumerVars>>

\* Mutation of PushStore: the item goes to next_head.
PushStoreAhead == /\ ppc = "store"
                  /\ data' = [data EXCEPT ![Masked(head + 1)] = pitem]
                  /\ ppc' = "publish"
                  /\ UNCHANGED <<head, tail, pitem, seenTail, consumerVars>>

PushStore == /\ ppc = "store"
             /\ data' = [data EXCEPT ![head] = pitem]
             /\ ppc' = "publish"
             /\ UNCHANGED <<head, tail, pitem, seenTail, consumerVars>>

PushPublish == /\ ppc = "publish"
               /\ head' = Masked(head + 1)
               /\ ppc' = "idle"
               /\ UNCHANGED <<data, tail, pitem, seenTail, consumerVars>>

-------------------------------------------------------------------------------
(* ring_buffer_pop *)

PopCall == /\ cpc = "idle"
           /\ cpc' = "check"
           /\ UNCHANGED <<data, head, tail, citem, seenHead, out, producerVars>>

\* tail == head: return false, *item untouched.
PopEmpty == /\ cpc = "check"
            /\ \E h \in Visible(seenHead, head) : tail = h /\ seenHead' = h
            /\ cpc' = "idle"
            /\ UNCHANGED <<data, head, tail, citem, out, producerVars>>

\* Mutation of PopSome: no test for an empty ring.
PopUnchecked == /\ cpc = "check"
                /\ seenHead' \in Visible(seenHead, head)
                /\ cpc' = "load"
                /\ UNCHANGED <<data, head, tail, citem, out, producerVars>>

PopSome == /\ cpc = "check"
           /\ \E h \in Visible(seenHead, head) : tail # h /\ seenHead' = h
           /\ cpc' = "load"
           /\ UNCHANGED <<data, head, tail, citem, out, producerVars>>

PopLoad == /\ cpc = "load"
           /\ citem' = data[tail]
           /\ cpc' = "publish"
           /\ UNCHANGED <<data, head, tail, seenHead, out, producerVars>>

\* Mutation of PopPublish: everything the consumer saw is released at once.
PopPublishAll == /\ cpc = "publish"
                 /\ tail' = seenHead
                 /\ out' = citem
                 /\ cpc' = "idle"
                 /\ UNCHANGED <<data, head, citem, seenHead, producerVars>>

PopPublish == /\ cpc = "publish"
              /\ tail' = Masked(tail + 1)
              /\ out' = citem
              /\ cpc' = "idle"
              /\ UNCHANGED <<data, head, citem, seenHead, producerVars>>

-------------------------------------------------------------------------------
Producer == \/ \E x \in Item : PushCall(x)
            \/ PushFull \/ PushRoom \/ PushStore \/ PushPublish

Consumer == PopCall \/ PopEmpty \/ PopSome \/ PopLoad \/ PopPublish

Next == Producer \/ Consumer

Spec == Init /\ [][Next]_vars

\* Both threads keep running and keep calling (the dispatcher retries a refused
\* push, the worker pops again), and a store is seen by the other thread after
\* finitely many loads: a load that could see it infinitely often does.
Fairness == /\ WF_vars(Producer) /\ SF_vars(PushRoom)
            /\ WF_vars(Consumer) /\ SF_vars(PopSome)

FairSpec == Spec /\ Fairness

-------------------------------------------------------------------------------
(* What the ring promises *)

\* The n slots of array d from index t on, as a sequence.
Slots(d, t, n) == [k \in 1 .. n |-> d[Masked(t + k - 1)]]

\* The pointers in flight, oldest first: the slots from tail up to head.
Contents == Slots(data, tail, ring_buffer_size)

\* Type correctness of the ring and of the two threads inside it.
TypeOK == /\ data \in [Index -> Slot]
          /\ head \in Index /\ tail \in Index
          /\ ppc \in {"idle", "check", "store", "publish"}
          /\ cpc \in {"idle", "check", "load", "publish"}
          /\ pitem \in Slot /\ citem \in Slot /\ out \in Slot
          /\ seenTail \in Index /\ seenHead \in Index

\* data[] is not atomic: the slot push writes is never the slot pop is reading,
\* however stale the views on which each thread let itself in.
NoSlotRace == ppc = "store" /\ cpc \in {"load", "publish"} => head # tail

\* A stale view is late but never wrong: going round the ring from seenTail one
\* meets tail, then seenHead, then head, all within one lap.
ViewsInOrder ==
  /\ Distance(seenTail, tail) + Distance(tail, head) = Distance(seenTail, head)
  /\ Distance(tail, seenHead) <= Distance(tail, head)

\* What each thread knows at each of its steps.
ProducerKnows == /\ ppc \in {"check", "store", "publish"} => pitem \in Item
                 /\ ppc \in {"store", "publish"} => Masked(head + 1) # seenTail
                 /\ ppc = "publish" => data[head] = pitem

ConsumerKnows == /\ cpc \in {"load", "publish"} => seenHead # tail
                 /\ cpc = "publish" => citem = data[tail]

\* The inductive invariant behind NoSlotRace and the refinement.
RingInv == TypeOK /\ ViewsInOrder /\ ProducerKnows /\ ConsumerKnows

\* The ring implements a bounded FIFO queue that holds one item less than it has
\* slots: no pointer is lost, duplicated or overtaken.
Queue == INSTANCE BoundedQueue
           WITH queue <- Contents, Capacity <- RING_BUFFER_SIZE - 1

ImplementsQueue == Queue!Spec

\* A published pointer is eventually handed to the worker.
PushedIsPopped ==
  \A x \in Item : (ppc = "publish" /\ pitem = x) ~> (cpc = "publish" /\ citem = x)

\* The dispatcher's loop around a refused push always ends: a producer that
\* retries is let in again and again.
PushGetsIn == []<>(ppc = "store")
===============================================================================
