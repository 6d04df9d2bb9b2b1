--------------------------- MODULE RingBufferProofs ---------------------------
(***************************************************************************)
(* Proofs about RingBuffer for every ring size and every set of pointers:  *)
(* the inductive invariant RingInv, the absence of a race on a slot, and   *)
(* the refinement of the bounded FIFO queue.                               *)
(***************************************************************************)
EXTENDS RingBuffer, SequenceTheorems, TLAPS

\* RingInv holds initially: the ring is empty and every view is exact.
LEMMA InitRingInv == Init => RingInv
BY RingAssumption DEF Init, RingInv, TypeOK, ViewsInOrder, ProducerKnows,
   ConsumerKnows, Index, Slot, Distance, Masked

\* The next index stays in the ring, and is one store further from any index it
\* does not catch up with.
LEMMA NextIndex ==
  ASSUME NEW i \in Index
  PROVE  /\ Masked(i + 1) \in Index
         /\ \A a \in Index : Masked(i + 1) # a =>
              Distance(a, Masked(i + 1)) = Distance(a, i) + 1
         /\ \A a \in Index : a # i =>
              Distance(Masked(i + 1), a) = Distance(i, a) - 1
BY RingAssumption DEF Index, Masked, Distance

\* Each step of either thread preserves RingInv.
LEMMA StepRingInv == RingInv /\ [Next]_vars => RingInv'
<1> SUFFICES ASSUME RingInv, [Next]_vars
             PROVE  RingInv'
  OBVIOUS
<1> USE RingAssumption DEF RingInv
<1>1. ASSUME NEW x \in Item, PushCall(x)
      PROVE  RingInv'
  BY <1>1 DEF PushCall, consumerVars, TypeOK, ViewsInOrder, ProducerKnows,
     ConsumerKnows, Slot
<1>2. CASE PushFull
  BY <1>2 DEF PushFull, Visible, consumerVars, TypeOK, ViewsInOrder,
     ProducerKnows, ConsumerKnows, Index, Distance
<1>3. CASE PushRoom
  BY <1>3 DEF PushRoom, Visible, consumerVars, TypeOK, ViewsInOrder,
     ProducerKnows, ConsumerKnows, Index, Distance
<1>4. CASE PushStore
  <2>1. TypeOK' /\ ViewsInOrder' /\ ProducerKnows'
    BY <1>4 DEF PushStore, consumerVars, TypeOK, ViewsInOrder, ProducerKnows
  <2>2. cpc = "publish" => tail # head
    BY DEF ConsumerKnows, ViewsInOrder, TypeOK, Index, Distance
  <2>3. ConsumerKnows'
    BY <1>4, <2>2 DEF PushStore, consumerVars, TypeOK, ConsumerKnows
  <2> QED BY <2>1, <2>3
<1>5. CASE PushPublish
  <2>1. TypeOK' /\ ProducerKnows' /\ ConsumerKnows'
    BY <1>5, NextIndex DEF PushPublish, consumerVars, TypeOK, ProducerKnows,
       ConsumerKnows
  <2>2. ViewsInOrder'
    BY <1>5 DEF PushPublish, consumerVars, TypeOK, ViewsInOrder,
       ProducerKnows, Index, Masked, Distance
  <2> QED BY <2>1, <2>2
<1>6. CASE PopCall
  BY <1>6 DEF PopCall, producerVars, TypeOK, ViewsInOrder, ProducerKnows,
     ConsumerKnows
<1>7. CASE PopEmpty
  BY <1>7 DEF PopEmpty, Visible, producerVars, TypeOK, ViewsInOrder,
     ProducerKnows, ConsumerKnows, Index, Distance
<1>8. CASE PopSome
  BY <1>8 DEF PopSome, Visible, producerVars, TypeOK, ViewsInOrder,
     ProducerKnows, ConsumerKnows, Index, Distance
<1>9. CASE PopLoad
  BY <1>9 DEF PopLoad, producerVars, TypeOK, ViewsInOrder, ProducerKnows,
     ConsumerKnows
<1>10. CASE PopPublish
  <2>1. TypeOK' /\ ProducerKnows' /\ ConsumerKnows'
    BY <1>10, NextIndex DEF PopPublish, producerVars, TypeOK, ProducerKnows,
       ConsumerKnows
  <2>2. ViewsInOrder'
    BY <1>10 DEF PopPublish, producerVars, TypeOK, ViewsInOrder,
       ConsumerKnows, Index, Masked, Distance
  <2> QED BY <2>1, <2>2
<1>11. CASE UNCHANGED vars
  BY <1>11 DEF vars, producerVars, consumerVars, TypeOK, ViewsInOrder,
     ProducerKnows, ConsumerKnows
<1> QED
  BY <1>1, <1>2, <1>3, <1>4, <1>5, <1>6, <1>7, <1>8, <1>9, <1>10, <1>11
     DEF Next, Producer, Consumer

\* In every reachable state the views are ordered and each thread's knowledge of
\* its slot is right, for every ring size.
THEOREM RingInvariant == Spec => []RingInv
<1>1. Init => RingInv
  BY InitRingInv
<1>2. RingInv /\ [Next]_vars => RingInv'
  BY StepRingInv
<1> QED BY <1>1, <1>2, PTL DEF Spec

\* Type correctness.
THEOREM TypeCorrect == Spec => []TypeOK
<1>1. RingInv => TypeOK
  BY DEF RingInv
<1> QED BY <1>1, RingInvariant, PTL

\* push never writes the slot pop is reading, for every ring size and whatever
\* stale indices the acquire loads return.
THEOREM SlotRaceFreedom == Spec => []NoSlotRace
<1>1. RingInv => NoSlotRace
  BY RingAssumption DEF RingInv, NoSlotRace, TypeOK, ViewsInOrder,
     ConsumerKnows, Index, Distance
<1> QED BY <1>1, RingInvariant, PTL

-------------------------------------------------------------------------------
(* The ring implements the bounded queue *)

\* n slots of the ring form a sequence of length n.
LEMMA SlotsIsSeq ==
  ASSUME NEW d \in [Index -> Slot], NEW t \in Index,
         NEW n \in 0 .. RING_BUFFER_SIZE - 1
  PROVE  /\ Slots(d, t, n) \in Seq(Slot)
         /\ Len(Slots(d, t, n)) = n
         /\ \A k \in 1 .. n : Slots(d, t, n)[k] = d[Masked(t + k - 1)]
<1>1. \A k \in 1 .. n : d[Masked(t + k - 1)] \in Slot
  BY RingAssumption DEF Masked, Index
<1> QED BY <1>1 DEF Slots

\* One slot more at the head end appends that slot's pointer.
LEMMA SlotsAppend ==
  ASSUME NEW d \in [Index -> Slot], NEW t \in Index,
         NEW n \in 0 .. RING_BUFFER_SIZE - 2
  PROVE  Slots(d, t, n + 1) = Append(Slots(d, t, n), d[Masked(t + n)])
<1>1. d[Masked(t + n)] \in Slot
  BY RingAssumption DEF Masked, Index
<1>2. n \in 0 .. RING_BUFFER_SIZE - 1 /\ n + 1 \in 0 .. RING_BUFFER_SIZE - 1
  BY RingAssumption
<1> DEFINE longer == Slots(d, t, n + 1)
           appended == Append(Slots(d, t, n), d[Masked(t + n)])
<1>3. /\ longer \in Seq(Slot) /\ Len(longer) = n + 1
      /\ \A k \in 1 .. n + 1 : longer[k] = d[Masked(t + k - 1)]
  BY <1>2, SlotsIsSeq
<1>4. /\ appended \in Seq(Slot) /\ Len(appended) = n + 1
      /\ \A k \in 1 .. n + 1 : appended[k] = d[Masked(t + k - 1)]
  BY <1>1, <1>2, SlotsIsSeq
<1> HIDE DEF longer, appended
<1>5. longer = appended
  BY <1>3, <1>4, SeqEqual
<1> QED BY <1>5 DEF longer, appended

\* The slot at the tail end is the head of the sequence, the others its tail.
LEMMA SlotsTail ==
  ASSUME NEW d \in [Index -> Slot], NEW t \in Index,
         NEW n \in 1 .. RING_BUFFER_SIZE - 1
  PROVE  /\ Slots(d, t, n) # << >>
         /\ Head(Slots(d, t, n)) = d[t]
         /\ Tail(Slots(d, t, n)) = Slots(d, Masked(t + 1), n - 1)
<1>1. Masked(t + 1) \in Index /\ Masked(t) = t
  BY RingAssumption DEF Masked, Index
<1>2. \A k \in 1 .. n - 1 : Masked(Masked(t + 1) + k - 1) = Masked(t + (k + 1) - 1)
  BY RingAssumption DEF Masked, Index
<1> DEFINE all == Slots(d, t, n)
           rest == Slots(d, Masked(t + 1), n - 1)
<1>3. /\ all \in Seq(Slot) /\ Len(all) = n
      /\ \A k \in 1 .. n : all[k] = d[Masked(t + k - 1)]
  BY SlotsIsSeq
<1>4. n - 1 \in 0 .. RING_BUFFER_SIZE - 1
  BY RingAssumption
<1>5. /\ rest \in Seq(Slot) /\ Len(rest) = n - 1
      /\ \A k \in 1 .. n - 1 : rest[k] = d[Masked(t + (k + 1) - 1)]
  BY <1>1, <1>2, <1>4, SlotsIsSeq
<1> HIDE DEF all, rest
<1>6. all # << >> /\ Head(all) = d[t]
  BY <1>1, <1>3, SMTT(30)
<1>7. Tail(all) = rest
  <2>1. /\ Tail(all) \in Seq(Slot) /\ Len(Tail(all)) = n - 1
        /\ \A k \in 1 .. n - 1 : Tail(all)[k] = all[k + 1]
    BY <1>3, <1>6, HeadTailProperties
  <2>2. \A k \in 1 .. n - 1 : Tail(all)[k] = rest[k]
    BY <1>3, <1>5, <2>1, SMTT(30)
  <2> QED BY <1>5, <2>1, <2>2, SeqEqual
<1> QED BY <1>6, <1>7 DEF all, rest

\* A write to the first free slot does not show in the n slots before it.
LEMMA SlotsUnwritten ==
  ASSUME NEW d \in [Index -> Slot], NEW t \in Index,
         NEW n \in 0 .. RING_BUFFER_SIZE - 1, NEW x
  PROVE  Slots([d EXCEPT ![Masked(t + n)] = x], t, n) = Slots(d, t, n)
<1>1. \A k \in 1 .. n : /\ Masked(t + k - 1) \in Index
                        /\ Masked(t + k - 1) # Masked(t + n)
  BY RingAssumption DEF Masked, Index
<1> QED BY <1>1 DEF Slots

\* The first free slot is the one head points to.
LEMMA HeadSlot ==
  ASSUME TypeOK
  PROVE  /\ ring_buffer_size \in 0 .. RING_BUFFER_SIZE - 1
         /\ Masked(tail + ring_buffer_size) = head
BY RingAssumption DEF TypeOK, ring_buffer_size, Distance, Index, Masked

\* Publishing the head appends the pushed pointer to the queue.
LEMMA PublishIsPut ==
  ASSUME RingInv, PushPublish
  PROVE  Queue!Put(pitem)
<1> USE DEF RingInv
<1>1. /\ ring_buffer_size' = ring_buffer_size + 1
      /\ ring_buffer_size \in 0 .. RING_BUFFER_SIZE - 2
  BY RingAssumption DEF PushPublish, consumerVars, TypeOK, ViewsInOrder,
     ProducerKnows, ring_buffer_size, Index, Masked, Distance
<1>2. UNCHANGED <<data, tail, out>>
  BY DEF PushPublish, consumerVars
<1>3. data[Masked(tail + ring_buffer_size)] = pitem
  BY HeadSlot DEF PushPublish, ProducerKnows
<1>4. data \in [Index -> Slot] /\ tail \in Index
  BY DEF TypeOK
<1>5. Contents' = Slots(data, tail, ring_buffer_size + 1)
  BY <1>1, <1>2 DEF Contents, Slots
<1>6. Contents' = Append(Contents, pitem)
  BY <1>1, <1>3, <1>4, <1>5, SlotsAppend DEF Contents
<1>7. Len(Contents) < RING_BUFFER_SIZE - 1
  BY <1>1, <1>4, SlotsIsSeq, RingAssumption DEF Contents
<1> QED BY <1>2, <1>6, <1>7 DEF Queue!Put

\* Releasing the tail takes the oldest pointer, the one pop loaded, off it.
LEMMA ReleaseIsTake ==
  ASSUME RingInv, PopPublish
  PROVE  Queue!Take
<1> USE DEF RingInv
<1>1. /\ ring_buffer_size' = ring_buffer_size - 1
      /\ ring_buffer_size \in 1 .. RING_BUFFER_SIZE - 1
  BY RingAssumption DEF PopPublish, producerVars, TypeOK, ViewsInOrder,
     ConsumerKnows, ring_buffer_size, Index, Masked, Distance
<1>2. /\ UNCHANGED data /\ tail' = Masked(tail + 1) /\ out' = data[tail]
  BY DEF PopPublish, producerVars, ConsumerKnows
<1>3. data \in [Index -> Slot] /\ tail \in Index
  BY DEF TypeOK
<1>4. Contents' = Slots(data, Masked(tail + 1), ring_buffer_size - 1)
  BY <1>1, <1>2 DEF Contents, Slots
<1>5. /\ Contents # << >> /\ Head(Contents) = data[tail]
      /\ Tail(Contents) = Contents'
  BY <1>1, <1>3, <1>4, SlotsTail DEF Contents
<1> QED BY <1>2, <1>5 DEF Queue!Take

\* Every other step leaves the queue as it is.
LEMMA OtherStepsStutter ==
  ASSUME RingInv, [Next]_vars, ~ PushPublish, ~ PopPublish
  PROVE  UNCHANGED <<Contents, out>>
<1>1. CASE PushStore
  <2>1. /\ data' = [data EXCEPT ![Masked(tail + ring_buffer_size)] = pitem]
        /\ UNCHANGED <<head, tail, out>>
    BY <1>1, HeadSlot DEF PushStore, RingInv, consumerVars
  <2>2. /\ data \in [Index -> Slot] /\ tail \in Index
        /\ ring_buffer_size \in 0 .. RING_BUFFER_SIZE - 1
    BY HeadSlot DEF RingInv, TypeOK
  <2>3. Contents' = Slots(data', tail, ring_buffer_size)
    BY <2>1 DEF Contents, Slots, ring_buffer_size, Distance
  <2> QED BY <2>1, <2>2, <2>3, SlotsUnwritten DEF Contents
<1>2. CASE ~ PushStore
  <2>1. UNCHANGED <<data, head, tail, out>>
    BY <1>2 DEF Next, Producer, Consumer, PushCall, PushFull, PushRoom, PopCall,
       PopEmpty, PopSome, PopLoad, vars, producerVars, consumerVars
  <2> QED BY <2>1 DEF Contents, Slots, ring_buffer_size, Distance
<1> QED BY <1>1, <1>2

\* For every ring size, push and pop implement a FIFO queue that holds one item
\* less than the ring has slots: nothing pushed is lost, duplicated, overtaken
\* or overwritten before it is popped.
THEOREM RingImplementsQueue == Spec => ImplementsQueue
<1>1. Init => Queue!Init
  BY RingAssumption DEF Init, Queue!Init, Contents, Slots, ring_buffer_size,
     Distance
<1>2. RingInv /\ [Next]_vars => [Queue!Next]_<<Contents, out>>
  <2> SUFFICES ASSUME RingInv, [Next]_vars
               PROVE  [Queue!Next]_<<Contents, out>>
    OBVIOUS
  <2>1. CASE PushPublish
    <3>1. pitem \in Item
      BY <2>1 DEF RingInv, ProducerKnows, PushPublish
    <3> QED BY <2>1, <3>1, PublishIsPut DEF Queue!Next
  <2>2. CASE PopPublish
    BY <2>2, ReleaseIsTake DEF Queue!Next
  <2>3. CASE ~ PushPublish /\ ~ PopPublish
    BY <2>3, OtherStepsStutter
  <2> QED BY <2>1, <2>2, <2>3
<1> QED
  BY <1>1, <1>2, RingInvariant, PTL DEF Spec, ImplementsQueue, Queue!Spec
===============================================================================
