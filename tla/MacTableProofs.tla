------------------------------ MODULE MacTableProofs ------------------------------
(***************************************************************************)
(* Proofs about MacTable, for any finite set of threads that share the     *)
(* table, any addresses and ports, any times and any number of calls.      *)
(***************************************************************************)
EXTENDS MacTable, SetInduction, FunctionTheorems, SequenceTheorems, TLAPS

Labels == {"idle", "time", "walk", "age", "expire", "port", "missed",
           "find", "setport", "setseen", "next", "link", "count"}

Building == {w \in Worker : pc[w] \in {"next", "link"}}
Counting == {w \in Worker : pc[w] = "count"}

\* The entries nobody but the worker that made them can see.
Private == {cur[w] : w \in Building}

\* What insertions know of the entries they are at and gave out.
GivenInv ==
  /\ \A p \in 1 .. Len(heap) : <<heap[p].key, heap[p].port>> \in given
  /\ \A w \in Worker :
       /\ answer[w] # NoPort => <<key[w], answer[w]>> \in given
       /\ pc[w] \in {"find", "setport"} => <<key[w], port[w]>> \in given
       /\ pc[w] \in {"age", "expire", "port", "setport", "setseen", "next", "link"} =>
            cur[w] # NULL /\ heap[cur[w]].key = key[w]

\* An entry under construction is the worker's own: nothing leads to it.
PrivateInv ==
  \A w \in Building :
    /\ cur[w] # NULL /\ head # cur[w]
    /\ \A p \in 1 .. Len(heap) : heap[p].next # cur[w]
    /\ \A v \in Worker : v # w => cur[v] # cur[w]

\* The entries have an order in which every next leads downwards.
Ranks(rank) ==
  /\ rank \in [1 .. Len(heap) -> 1 .. Len(heap)]
  /\ \A p, q \in 1 .. Len(heap) : rank[p] = rank[q] => p = q
  /\ \A p \in 1 .. Len(heap) : heap[p].next # NULL => rank[heap[p].next] < rank[p]

OrderInv == /\ \A p \in 1 .. Len(heap) : heap[p].next \in 0 .. Len(heap)
            /\ \E rank \in [1 .. Len(heap) -> 1 .. Len(heap)] : Ranks(rank)

\* Every entry is counted, or about to be.
CountInv == Len(heap) = size + Cardinality(Building) + Cardinality(Counting)

MacTableInv == TypeOK /\ GivenInv /\ PrivateInv /\ OrderInv /\ CountInv

-------------------------------------------------------------------------------
(* Operators of the model *)

\* An expired entry keeps all but its flag, the others all.
LEMMA Expires ==
  ASSUME TypeOK, NEW w \in Worker, cur[w] # NULL, LookupExpire(w)
  PROVE  /\ heap' \in Seq(Entry) /\ Len(heap') = Len(heap)
         /\ \A p \in 1 .. Len(heap) :
              /\ heap'[p].key = heap[p].key /\ heap'[p].port = heap[p].port
              /\ heap'[p].last_seen = heap[p].last_seen /\ heap'[p].next = heap[p].next
              /\ heap'[p].valid <=> p # cur[w] /\ heap[p].valid
<1>1. heap \in [1 .. Len(heap) -> Entry] /\ Len(heap) \in Nat
  BY LenProperties DEF TypeOK
<1>2. cur[w] \in 1 .. Len(heap)
  BY <1>1 DEF TypeOK, NULL
<1>3. \A h \in [1 .. Len(heap) -> Entry] : h \in Seq(Entry) /\ Len(h) = Len(heap)
  BY <1>1
<1>4. heap' = [heap EXCEPT ![cur[w]].valid = FALSE]
  BY DEF LookupExpire, Set
<1>5. heap' \in [1 .. Len(heap) -> Entry]
  BY <1>1, <1>2, <1>4 DEF Entry
<1>6. ASSUME NEW p \in 1 .. Len(heap)
      PROVE  /\ heap'[p].key = heap[p].key /\ heap'[p].port = heap[p].port
             /\ heap'[p].last_seen = heap[p].last_seen /\ heap'[p].next = heap[p].next
             /\ heap'[p].valid <=> p # cur[w] /\ heap[p].valid
  <2>1. CASE p # cur[w]
    BY <1>1, <1>2, <1>4, <2>1
  <2>2. CASE p = cur[w]
    BY <1>1, <1>2, <1>4, <2>2 DEF Entry
  <2>. QED
    BY <2>1, <2>2
<1>. QED
  BY <1>3, <1>5, <1>6

\* An entry that moves to another port keeps all the rest.
LEMMA Moves ==
  ASSUME TypeOK, NEW w \in Worker, cur[w] # NULL, InsertPort(w), port[w] \in Port
  PROVE  /\ heap' \in Seq(Entry) /\ Len(heap') = Len(heap)
         /\ \A p \in 1 .. Len(heap) :
              /\ heap'[p].key = heap[p].key /\ heap'[p].last_seen = heap[p].last_seen
              /\ heap'[p].valid = heap[p].valid /\ heap'[p].next = heap[p].next
              /\ heap'[p].port = IF p = cur[w] THEN port[w] ELSE heap[p].port
<1>1. heap \in [1 .. Len(heap) -> Entry] /\ Len(heap) \in Nat
  BY LenProperties DEF TypeOK
<1>2. cur[w] \in 1 .. Len(heap)
  BY <1>1 DEF TypeOK, NULL
<1>3. \A h \in [1 .. Len(heap) -> Entry] : h \in Seq(Entry) /\ Len(h) = Len(heap)
  BY <1>1
<1>4. heap' = [heap EXCEPT ![cur[w]].port = port[w]]
  BY DEF InsertPort, Set
<1>5. heap' \in [1 .. Len(heap) -> Entry]
  BY <1>1, <1>2, <1>4 DEF Entry
<1>6. ASSUME NEW p \in 1 .. Len(heap)
      PROVE  /\ heap'[p].key = heap[p].key /\ heap'[p].last_seen = heap[p].last_seen
             /\ heap'[p].valid = heap[p].valid /\ heap'[p].next = heap[p].next
             /\ heap'[p].port = IF p = cur[w] THEN port[w] ELSE heap[p].port
  <2>1. CASE p # cur[w]
    BY <1>1, <1>2, <1>4, <2>1
  <2>2. CASE p = cur[w]
    BY <1>1, <1>2, <1>4, <2>2 DEF Entry
  <2>. QED
    BY <2>1, <2>2
<1>. QED
  BY <1>3, <1>5, <1>6

\* An entry that is seen again keeps all but its time.
LEMMA Seen ==
  ASSUME TypeOK, NEW w \in Worker, cur[w] # NULL, InsertSeen(w)
  PROVE  /\ heap' \in Seq(Entry) /\ Len(heap') = Len(heap)
         /\ \A p \in 1 .. Len(heap) :
              /\ heap'[p].key = heap[p].key /\ heap'[p].port = heap[p].port
              /\ heap'[p].valid = heap[p].valid /\ heap'[p].next = heap[p].next
              /\ heap'[p].last_seen = IF p = cur[w] THEN now ELSE heap[p].last_seen
<1>1. heap \in [1 .. Len(heap) -> Entry] /\ Len(heap) \in Nat
  BY LenProperties DEF TypeOK
<1>2. cur[w] \in 1 .. Len(heap)
  BY <1>1 DEF TypeOK, NULL
<1>3. \A h \in [1 .. Len(heap) -> Entry] : h \in Seq(Entry) /\ Len(h) = Len(heap)
  BY <1>1
<1>4. heap' = [heap EXCEPT ![cur[w]].last_seen = now]
  BY DEF InsertSeen, Set
<1>5. heap' \in [1 .. Len(heap) -> Entry]
  BY <1>1, <1>2, <1>4 DEF Entry, TypeOK
<1>6. ASSUME NEW p \in 1 .. Len(heap)
      PROVE  /\ heap'[p].key = heap[p].key /\ heap'[p].port = heap[p].port
             /\ heap'[p].valid = heap[p].valid /\ heap'[p].next = heap[p].next
             /\ heap'[p].last_seen = IF p = cur[w] THEN now ELSE heap[p].last_seen
  <2>1. CASE p # cur[w]
    BY <1>1, <1>2, <1>4, <2>1
  <2>2. CASE p = cur[w]
    BY <1>1, <1>2, <1>4, <2>2 DEF Entry
  <2>. QED
    BY <2>1, <2>2
<1>. QED
  BY <1>3, <1>5, <1>6

\* An entry that is linked keeps all but its pointer.
LEMMA Links ==
  ASSUME TypeOK, NEW w \in Worker, cur[w] # NULL, InsertNext(w)
  PROVE  /\ heap' \in Seq(Entry) /\ Len(heap') = Len(heap)
         /\ \A p \in 1 .. Len(heap) :
              /\ heap'[p].key = heap[p].key /\ heap'[p].port = heap[p].port
              /\ heap'[p].last_seen = heap[p].last_seen /\ heap'[p].valid = heap[p].valid
              /\ heap'[p].next = IF p = cur[w] THEN head ELSE heap[p].next
<1>1. heap \in [1 .. Len(heap) -> Entry] /\ Len(heap) \in Nat
  BY LenProperties DEF TypeOK
<1>2. cur[w] \in 1 .. Len(heap)
  BY <1>1 DEF TypeOK, NULL
<1>3. \A h \in [1 .. Len(heap) -> Entry] : h \in Seq(Entry) /\ Len(h) = Len(heap)
  BY <1>1
<1>4. heap' = [heap EXCEPT ![cur[w]].next = head]
  BY DEF InsertNext, Set
<1>5. heap' \in [1 .. Len(heap) -> Entry]
  <2>1. head \in 0 .. Len(heap)
    BY DEF TypeOK
  <2>2. head \in Nat
    BY ONLY <1>1, <2>1
  <2>. QED
    BY <1>1, <1>2, <1>4, <2>2 DEF Entry
<1>6. ASSUME NEW p \in 1 .. Len(heap)
      PROVE  /\ heap'[p].key = heap[p].key /\ heap'[p].port = heap[p].port
             /\ heap'[p].last_seen = heap[p].last_seen /\ heap'[p].valid = heap[p].valid
             /\ heap'[p].next = IF p = cur[w] THEN head ELSE heap[p].next
  <2>1. CASE p # cur[w]
    BY <1>1, <1>2, <1>4, <2>1
  <2>2. CASE p = cur[w]
    BY <1>1, <1>2, <1>4, <2>2 DEF Entry
  <2>. QED
    BY <2>1, <2>2
<1>. QED
  BY <1>3, <1>5, <1>6

\* What a worker may follow.
LEMMA Pointers ==
  ASSUME TypeOK, OrderInv, NEW w \in Worker
  PROVE  /\ Len(heap) \in Nat /\ head \in 0 .. Len(heap) /\ cur[w] \in 0 .. Len(heap)
         /\ cur[w] # NULL => /\ cur[w] \in 1 .. Len(heap) /\ heap[cur[w]] \in Entry
                             /\ heap[cur[w]].next \in 0 .. Len(heap)
<1>1. Len(heap) \in Nat /\ cur[w] \in 0 .. Len(heap)
  BY DEF TypeOK
<1>2. cur[w] # NULL => cur[w] \in 1 .. Len(heap)
  BY <1>1 DEF NULL
<1>. QED
  BY <1>1, <1>2, ElementOfSeq DEF TypeOK, OrderInv

\* A new entry goes to the end of the heap.
LEMMA NewEntry ==
  ASSUME TypeOK, NEW w \in Worker, InsertNew(w), port[w] \in Port
  PROVE  /\ heap' \in Seq(Entry) /\ Len(heap') = Len(heap) + 1 /\ Len(heap) \in Nat
         /\ \A p \in 1 .. Len(heap) : heap'[p] = heap[p]
         /\ heap'[Len(heap) + 1] = [key |-> key[w], port |-> port[w], last_seen |-> now,
                                    valid |-> TRUE, next |-> NULL]
<1>. DEFINE e == [key |-> key[w], port |-> port[w], last_seen |-> now,
                  valid |-> TRUE, next |-> NULL]
<1>1. e \in Entry
  BY DEF TypeOK, Entry, NULL
<1>2. heap \in Seq(Entry) /\ heap' = Append(heap, e)
  BY DEF TypeOK, InsertNew
<1>. HIDE DEF e
<1>3. /\ heap' \in Seq(Entry) /\ Len(heap') = Len(heap) + 1 /\ Len(heap) \in Nat
      /\ \A p \in 1 .. Len(heap) : heap'[p] = heap[p]
      /\ heap'[Len(heap) + 1] = e
  BY <1>1, <1>2, AppendProperties, LenProperties
<1>. QED
  BY <1>3 DEF e

-------------------------------------------------------------------------------
(* The inductive invariant *)

\* An empty table.
LEMMA InitMacTableInv == Init => MacTableInv
<1>. SUFFICES ASSUME Init PROVE MacTableInv
  OBVIOUS
<1>. USE MacTableAssumption DEF Init, NULL
<1>1. TypeOK
  <2>1. (CHOOSE k \in Key : TRUE) \in Key
    OBVIOUS
  <2>. QED
    BY <2>1 DEF TypeOK
<1>2. Building = {} /\ Counting = {} /\ Len(heap) = 0
  BY DEF Building, Counting
<1>3. GivenInv /\ PrivateInv
  BY <1>2 DEF GivenInv, PrivateInv
<1>4. OrderInv
  <2>1. Ranks([p \in {} |-> 0]) /\ [p \in {} |-> 0] \in [1 .. Len(heap) -> 1 .. Len(heap)]
    BY <1>2 DEF Ranks
  <2>. QED
    BY <1>2, <2>1 DEF OrderInv
<1>5. CountInv
  BY <1>2, FS_EmptySet DEF CountInv
<1>. QED
  BY <1>1, <1>3, <1>4, <1>5 DEF MacTableInv

\* Every access keeps the variables in their types: in particular the pointers a
\* worker follows are those of entries.
LEMMA StepTypeOK == MacTableInv /\ [Next]_vars => TypeOK'
<1>. SUFFICES ASSUME MacTableInv, [Next]_vars PROVE TypeOK'
  OBVIOUS
<1>. USE DEF locals, Goto
<1>0. TypeOK /\ GivenInv /\ OrderInv
  BY DEF MacTableInv
<1>1. CASE Tick /\ crew' = crew
  BY <1>0, <1>1 DEF TypeOK, Tick
<1>2. ASSUME NEW w \in crew, Lookup(w), crew' = crew PROVE TypeOK'
  <2>0. w \in Worker
    BY <1>0, MacTableAssumption DEF TypeOK
  <2>. USE <1>0, <1>2, <2>0, Pointers
  <2>1. ASSUME NEW k \in Key, LookupCall(w, k) PROVE TypeOK'
    BY <2>1 DEF TypeOK, LookupCall
  <2>2. CASE LookupTime(w) \/ LookupAge(w) \/ GiveUp(w)
    BY <2>2, ZenonT(40) DEF TypeOK, LookupTime, LookupAge, GiveUp
  <2>3. CASE LookupWalk(w)
    BY <2>3 DEF TypeOK, LookupWalk
  <2>4. CASE LookupEnd(w)
    BY <2>4 DEF TypeOK, LookupEnd, Return, NULL
  <2>5. CASE LookupExpire(w)
    <3>1. heap' \in Seq(Entry) /\ Len(heap') = Len(heap)
      BY <2>5, Expires DEF GivenInv, LookupExpire
    <3>. QED
      BY <2>5, <3>1 DEF TypeOK, LookupExpire, Return, NULL
  <2>6. CASE LookupPort(w)
    <3>1. heap[cur[w]].port \in Port
      BY <2>6 DEF LookupPort, GivenInv, Entry
    <3>. QED
      BY <2>6, <3>1 DEF TypeOK, LookupPort, Return, NULL
  <2>. QED
    BY <2>1, <2>2, <2>3, <2>4, <2>5, <2>6 DEF Lookup
<1>3. ASSUME NEW w \in crew, Insert(w), crew' = crew PROVE TypeOK'
  <2>0. w \in Worker
    BY <1>0, MacTableAssumption DEF TypeOK
  <2>. USE <1>0, <1>3, <2>0, Pointers
  <2>1. ASSUME NEW p \in Port, InsertCall(w, p) PROVE TypeOK'
    BY <2>1 DEF TypeOK, InsertCall
  <2>2. CASE InsertFind(w)
    BY <2>2 DEF TypeOK, InsertFind
  <2>3. CASE InsertPort(w)
    <3>1. cur[w] # NULL /\ port[w] \in Port
      BY <2>3 DEF InsertPort, GivenInv, TypeOK
    <3>2. heap' \in Seq(Entry) /\ Len(heap') = Len(heap)
      BY <2>3, <3>1, Moves
    <3>. QED
      BY <2>3, <3>2 DEF TypeOK, InsertPort
  <2>4. CASE InsertSeen(w)
    <3>1. cur[w] # NULL /\ now \in Nat
      BY <2>4 DEF InsertSeen, GivenInv, TypeOK
    <3>2. heap' \in Seq(Entry) /\ Len(heap') = Len(heap)
      BY <2>4, <3>1, Seen
    <3>. QED
      BY <2>4, <3>2 DEF TypeOK, InsertSeen, InsertReturn, NULL
  <2>5. CASE InsertNew(w)
    <3>1. port[w] \in Port
      BY <2>5 DEF InsertNew, GivenInv, TypeOK
    <3>2. heap' \in Seq(Entry) /\ Len(heap') = Len(heap) + 1 /\ Len(heap) \in Nat
      BY <2>5, <3>1, NewEntry
    <3>3. 0 .. Len(heap) \subseteq 0 .. Len(heap') /\ Len(heap) + 1 \in 0 .. Len(heap')
      BY <3>2
    <3>4. head' \in 0 .. Len(heap') /\ cur' \in [Worker -> 0 .. Len(heap')]
      BY <2>5, <3>3 DEF TypeOK, InsertNew
    <3>. QED
      BY <2>5, <3>2, <3>4 DEF TypeOK, InsertNew
  <2>6. CASE InsertNext(w)
    <3>0. Len(heap) \in Nat /\ head \in 0 .. Len(heap)
      BY Pointers
    <3>1. cur[w] # NULL /\ head \in Nat
      <4>1. head \in Nat
        BY ONLY <3>0
      <4>. QED
        BY <2>6, <4>1 DEF InsertNext, GivenInv
    <3>2. heap' \in Seq(Entry) /\ Len(heap') = Len(heap)
      BY <2>6, <3>1, Links
    <3>. QED
      BY <2>6, <3>2 DEF TypeOK, InsertNext
  <2>7. CASE InsertLink(w)
    BY <2>7 DEF TypeOK, InsertLink
  <2>8. CASE InsertCount(w)
    BY <2>8 DEF TypeOK, InsertCount, InsertReturn, NULL
  <2>. QED
    BY <2>1, <2>2, <2>3, <2>4, <2>5, <2>6, <2>7, <2>8 DEF Insert
<1>4. CASE UNCHANGED vars
  BY <1>0, <1>4 DEF TypeOK, vars
<1>. QED
  BY <1>1, <1>2, <1>3, <1>4 DEF Next

\* Every access keeps entries, arguments and answers among what was inserted.
LEMMA StepGivenInv == MacTableInv /\ [Next]_vars => GivenInv'
<1>. SUFFICES ASSUME MacTableInv, [Next]_vars PROVE GivenInv'
  OBVIOUS
<1>. USE DEF locals, Goto, GivenInv
<1>0. TypeOK /\ GivenInv /\ OrderInv
  BY DEF MacTableInv
<1>1. CASE UNCHANGED <<heap, pc, key, port, cur, answer, given>>
  BY <1>0, <1>1
<1>2. ASSUME NEW w \in Worker, Lookup(w) PROVE GivenInv'
  <2>. USE <1>0, <1>2
  <2>1. ASSUME NEW k \in Key, LookupCall(w, k) PROVE GivenInv'
    BY <2>1 DEF TypeOK, LookupCall
  <2>2. CASE LookupTime(w) \/ LookupAge(w) \/ GiveUp(w)
    BY <2>2 DEF TypeOK, LookupTime, LookupAge, GiveUp
  <2>3. CASE LookupWalk(w)
    BY <2>3 DEF TypeOK, LookupWalk, Matches
  <2>4. CASE LookupEnd(w)
    BY <2>4 DEF TypeOK, LookupEnd, Return
  <2>5. CASE LookupExpire(w)
    <3>1. /\ Len(heap') = Len(heap)
          /\ \A p \in 1 .. Len(heap) : heap'[p].key = heap[p].key /\ heap'[p].port = heap[p].port
      BY <2>5, Expires DEF LookupExpire
    <3>2. \A v \in Worker : cur[v] # NULL => cur[v] \in 1 .. Len(heap)
      BY Pointers
    <3>. QED
      BY <2>5, <3>1, <3>2 DEF TypeOK, LookupExpire, Return
  <2>6. CASE LookupPort(w)
    <3>1. heap' = heap /\ <<key[w], heap[cur[w]].port>> \in given
      BY <2>6, Pointers DEF LookupPort
    <3>. QED
      BY <2>6, <3>1 DEF TypeOK, LookupPort, Return
  <2>. QED
    BY <2>1, <2>2, <2>3, <2>4, <2>5, <2>6 DEF Lookup
<1>3. ASSUME NEW w \in Worker, Insert(w) PROVE GivenInv'
  <2>. USE <1>0, <1>3
  <2>0. \A v \in Worker : cur[v] # NULL => cur[v] \in 1 .. Len(heap)
    BY Pointers
  <2>1. ASSUME NEW p \in Port, InsertCall(w, p) PROVE GivenInv'
    BY <2>1 DEF TypeOK, InsertCall
  <2>2. CASE InsertFind(w)
    BY <2>2 DEF TypeOK, InsertFind, Matches
  <2>3. CASE InsertPort(w)
    <3>1. cur[w] # NULL /\ port[w] \in Port /\ <<key[w], port[w]>> \in given
          /\ heap[cur[w]].key = key[w]
      BY <2>3 DEF InsertPort, TypeOK
    <3>2. /\ Len(heap') = Len(heap)
          /\ \A p \in 1 .. Len(heap) :
               /\ heap'[p].key = heap[p].key
               /\ heap'[p].port = IF p = cur[w] THEN port[w] ELSE heap[p].port
      BY <2>3, <3>1, Moves
    <3>. QED
      BY <2>0, <2>3, <3>1, <3>2 DEF TypeOK, InsertPort
  <2>4. CASE InsertSeen(w)
    <3>1. cur[w] # NULL /\ now \in Nat
      BY <2>4 DEF InsertSeen, TypeOK
    <3>2. /\ Len(heap') = Len(heap)
          /\ \A p \in 1 .. Len(heap) : heap'[p].key = heap[p].key /\ heap'[p].port = heap[p].port
      BY <2>4, <3>1, Seen
    <3>. QED
      BY <2>0, <2>4, <3>2 DEF TypeOK, InsertSeen, InsertReturn
  <2>5. CASE InsertNew(w)
    <3>1. port[w] \in Port /\ <<key[w], port[w]>> \in given
      BY <2>5 DEF InsertNew, TypeOK
    <3>2. /\ Len(heap') = Len(heap) + 1 /\ Len(heap) \in Nat
          /\ \A p \in 1 .. Len(heap) : heap'[p] = heap[p]
          /\ heap'[Len(heap) + 1].key = key[w] /\ heap'[Len(heap) + 1].port = port[w]
      <4>1. /\ Len(heap') = Len(heap) + 1 /\ Len(heap) \in Nat
            /\ \A p \in 1 .. Len(heap) : heap'[p] = heap[p]
            /\ heap'[Len(heap) + 1] = [key |-> key[w], port |-> port[w], last_seen |-> now,
                                       valid |-> TRUE, next |-> NULL]
        BY <2>5, <3>1, NewEntry
      <4>. QED
        BY ONLY <4>1
    <3>3. \A p \in 1 .. Len(heap') : <<heap'[p].key, heap'[p].port>> \in given
      BY <3>1, <3>2
    <3>4. \A v \in Worker : v # w => cur'[v] = cur[v] /\ pc'[v] = pc[v]
      BY <2>5 DEF TypeOK, InsertNew
    <3>5. cur'[w] = Len(heap) + 1 /\ pc'[w] = "next" /\ cur'[w] # NULL
      BY <2>5, <3>2 DEF TypeOK, InsertNew, NULL
    <3>. QED
      BY <2>0, <2>5, <3>2, <3>3, <3>4, <3>5 DEF InsertNew
  <2>6. CASE InsertNext(w)
    <3>0. Len(heap) \in Nat /\ head \in 0 .. Len(heap)
      BY Pointers
    <3>1. cur[w] # NULL /\ head \in Nat
      <4>1. head \in Nat
        BY ONLY <3>0
      <4>. QED
        BY <2>6, <4>1 DEF InsertNext
    <3>2. /\ Len(heap') = Len(heap)
          /\ \A p \in 1 .. Len(heap) : heap'[p].key = heap[p].key /\ heap'[p].port = heap[p].port
      BY <2>6, <3>1, Links
    <3>. QED
      BY <2>0, <2>6, <3>2 DEF TypeOK, InsertNext
  <2>7. CASE InsertLink(w)
    BY <2>7 DEF TypeOK, InsertLink
  <2>8. CASE InsertCount(w)
    BY <2>8 DEF TypeOK, InsertCount, InsertReturn
  <2>. QED
    BY <2>1, <2>2, <2>3, <2>4, <2>5, <2>6, <2>7, <2>8 DEF Insert
<1>4. \A w \in crew : w \in Worker
  BY <1>0, MacTableAssumption DEF TypeOK
<1>. QED
  BY <1>1, <1>2, <1>3, <1>4 DEF Next, vars, Tick

\* No access makes an entry visible before it is linked.
LEMMA StepPrivateInv == MacTableInv /\ [Next]_vars => PrivateInv'
<1>. SUFFICES ASSUME MacTableInv, [Next]_vars PROVE PrivateInv'
  OBVIOUS
<1>. USE DEF locals, Goto, PrivateInv, Building
<1>0. TypeOK /\ GivenInv /\ OrderInv /\ PrivateInv
  BY DEF MacTableInv
<1>1. CASE UNCHANGED <<heap, head, pc, cur>>
  BY <1>0, <1>1
<1>2. \A w \in Worker : cur[w] # NULL => cur[w] \in 1 .. Len(heap)
  BY <1>0, Pointers
<1>3. ASSUME NEW w \in Worker, pc'[w] \notin {"next", "link"},
             \A v \in Worker : v # w => pc'[v] = pc[v] /\ cur'[v] = cur[v],
             \/ cur'[w] = cur[w] /\ pc[w] \notin {"next", "link"}
             \/ cur'[w] \in {NULL, head}
             \/ \E p \in 1 .. Len(heap) : cur'[w] = heap[p].next,
             head' = head, Len(heap') = Len(heap),
             \A p \in 1 .. Len(heap) : heap'[p].next = heap[p].next
      PROVE  PrivateInv'
  BY <1>0, <1>3
<1>4. ASSUME NEW w \in Worker, Lookup(w) PROVE PrivateInv'
  <2>. USE <1>0
  <2>1. ASSUME NEW k \in Key, LookupCall(w, k) PROVE PrivateInv'
    BY <1>3, <2>1 DEF TypeOK, LookupCall
  <2>2. CASE LookupTime(w) \/ LookupAge(w) \/ GiveUp(w)
    BY <1>3, <2>2 DEF TypeOK, LookupTime, LookupAge, GiveUp
  <2>3. CASE LookupWalk(w)
    BY <1>2, <1>3, <2>3 DEF TypeOK, LookupWalk
  <2>4. CASE LookupEnd(w)
    BY <1>3, <2>4 DEF TypeOK, LookupEnd, Return
  <2>5. CASE LookupExpire(w)
    <3>1. Len(heap') = Len(heap) /\ \A p \in 1 .. Len(heap) : heap'[p].next = heap[p].next
      BY <2>5, Expires DEF GivenInv, LookupExpire
    <3>. QED
      BY <1>3, <2>5, <3>1 DEF TypeOK, LookupExpire, Return
  <2>6. CASE LookupPort(w)
    BY <1>3, <2>6 DEF TypeOK, LookupPort, Return
  <2>. QED
    BY <1>4, <2>1, <2>2, <2>3, <2>4, <2>5, <2>6 DEF Lookup
<1>5. ASSUME NEW w \in Worker, Insert(w) PROVE PrivateInv'
  <2>. USE <1>0
  <2>1. ASSUME NEW p \in Port, InsertCall(w, p) PROVE PrivateInv'
    BY <1>3, <2>1 DEF TypeOK, InsertCall
  <2>2. CASE InsertFind(w)
    BY <1>2, <1>3, <2>2 DEF TypeOK, InsertFind
  <2>3. CASE InsertPort(w)
    <3>1. cur[w] # NULL /\ port[w] \in Port
      BY <2>3 DEF InsertPort, GivenInv, TypeOK
    <3>2. Len(heap') = Len(heap) /\ \A p \in 1 .. Len(heap) : heap'[p].next = heap[p].next
      BY <2>3, <3>1, Moves
    <3>. QED
      BY <1>3, <2>3, <3>2 DEF TypeOK, InsertPort
  <2>4. CASE InsertSeen(w)
    <3>1. cur[w] # NULL /\ now \in Nat
      BY <2>4 DEF InsertSeen, GivenInv, TypeOK
    <3>2. Len(heap') = Len(heap) /\ \A p \in 1 .. Len(heap) : heap'[p].next = heap[p].next
      BY <2>4, <3>1, Seen
    <3>. QED
      BY <1>3, <2>4, <3>2 DEF TypeOK, InsertSeen, InsertReturn
  <2>5. CASE InsertNew(w)
    <3>1. port[w] \in Port
      BY <2>5 DEF InsertNew, GivenInv, TypeOK
    <3>2. /\ Len(heap') = Len(heap) + 1 /\ Len(heap) \in Nat
          /\ \A p \in 1 .. Len(heap) : heap'[p] = heap[p]
          /\ heap'[Len(heap) + 1].next = NULL
      <4>1. /\ Len(heap') = Len(heap) + 1 /\ Len(heap) \in Nat
            /\ \A p \in 1 .. Len(heap) : heap'[p] = heap[p]
            /\ heap'[Len(heap) + 1] = [key |-> key[w], port |-> port[w], last_seen |-> now,
                                       valid |-> TRUE, next |-> NULL]
        BY <2>5, <3>1, NewEntry
      <4>. QED
        BY ONLY <4>1
    <3>3. \A p \in 1 .. Len(heap') : /\ p # Len(heap) + 1 => p \in 1 .. Len(heap)
                                     /\ heap'[p].next \in 0 .. Len(heap)
      BY <3>2 DEF OrderInv, NULL
    <3>4. \A v \in Worker : v # w => cur'[v] = cur[v] /\ pc'[v] = pc[v]
      BY <2>5 DEF TypeOK, InsertNew
    <3>5. cur'[w] = Len(heap) + 1 /\ cur'[w] # NULL /\ head' = head
      BY <2>5, <3>2 DEF TypeOK, InsertNew, NULL
    <3>6. head \in 0 .. Len(heap) /\ \A v \in Worker : cur[v] \in 0 .. Len(heap)
      BY Pointers, <2>5
    <3>7. \A n \in 0 .. Len(heap) : n # Len(heap) + 1
      BY <3>2
    <3>8. ASSUME NEW v \in Worker, v \in Building'
          PROVE  /\ cur'[v] # NULL /\ head' # cur'[v]
                 /\ \A p \in 1 .. Len(heap') : heap'[p].next # cur'[v]
                 /\ \A u \in Worker : u # v => cur'[u] # cur'[v]
      <4>1. CASE v = w
        BY <3>3, <3>4, <3>5, <3>6, <3>7, <4>1
      <4>2. CASE v # w
        <5>1. /\ v \in Building /\ cur'[v] = cur[v] /\ cur'[v] \in 0 .. Len(heap)
              /\ cur[v] # NULL /\ head # cur[v]
              /\ \A p \in 1 .. Len(heap) : heap[p].next # cur[v]
              /\ \A u \in Worker : u # v => cur[u] # cur[v]
          BY <3>4, <3>6, <3>8, <4>2
        <5>. QED
          BY <3>2, <3>3, <3>4, <3>5, <3>7, <5>1
      <4>. QED
        BY <4>1, <4>2
    <3>. QED
      BY <3>8
  <2>6. CASE InsertNext(w)
    <3>0. head \in Nat
      <4>1. Len(heap) \in Nat /\ head \in 0 .. Len(heap)
        BY Pointers
      <4>. QED
        BY ONLY <4>1
    <3>1. cur[w] # NULL /\ pc[w] = "next" /\ w \in Building
      BY <2>6 DEF InsertNext, GivenInv
    <3>2. /\ Len(heap') = Len(heap)
          /\ \A p \in 1 .. Len(heap) : heap'[p].next = IF p = cur[w] THEN head ELSE heap[p].next
      BY <2>6, <3>0, <3>1, Links
    <3>3. cur' = cur /\ head' = head /\ Building' = Building
      BY <2>6, <3>1 DEF InsertNext, TypeOK
    <3>. QED
      BY <3>2, <3>3
  <2>7. CASE InsertLink(w)
    <3>1. /\ heap' = heap /\ head' = cur[w] /\ cur' = cur /\ w \in Building
          /\ \A v \in Building' : v \in Building /\ v # w
      BY <2>7 DEF InsertLink, TypeOK
    <3>. QED
      BY <3>1
  <2>8. CASE InsertCount(w)
    BY <1>3, <2>8 DEF TypeOK, InsertCount, InsertReturn
  <2>. QED
    BY <1>5, <2>1, <2>2, <2>3, <2>4, <2>5, <2>6, <2>7, <2>8 DEF Insert
<1>6. \A w \in crew : w \in Worker
  BY <1>0, MacTableAssumption DEF TypeOK
<1>. QED
  BY <1>1, <1>4, <1>5, <1>6 DEF Next, vars, Tick

\* Unless the heap grows or a next is written, the order stays as it is.
LEMMA SameOrder ==
  ASSUME OrderInv, Len(heap') = Len(heap),
         \A p \in 1 .. Len(heap) : heap'[p].next = heap[p].next
  PROVE  OrderInv'
<1>1. PICK rank \in [1 .. Len(heap) -> 1 .. Len(heap)] : Ranks(rank)
  BY DEF OrderInv
<1>2. /\ rank \in [1 .. Len(heap') -> 1 .. Len(heap')]
      /\ \A p, q \in 1 .. Len(heap') : rank[p] = rank[q] => p = q
      /\ \A p \in 1 .. Len(heap') : heap'[p].next # NULL => rank[heap'[p].next] < rank[p]
  BY <1>1 DEF Ranks
<1>. QED
  BY <1>2 DEF OrderInv, Ranks

\* The new entry of a table is above all others: it leads nowhere yet.
LEMMA OrderGrows ==
  ASSUME OrderInv, Len(heap) \in Nat, Len(heap') = Len(heap) + 1,
         \A p \in 1 .. Len(heap) : heap'[p] = heap[p],
         heap'[Len(heap) + 1].next = NULL
  PROVE  OrderInv'
<1>1. PICK rank \in [1 .. Len(heap) -> 1 .. Len(heap)] : Ranks(rank)
  BY DEF OrderInv
<1>. DEFINE new == [p \in 1 .. Len(heap) + 1 |-> IF p <= Len(heap) THEN rank[p] ELSE Len(heap) + 1]
<1>2. new \in [1 .. Len(heap') -> 1 .. Len(heap')]
  BY <1>1
<1>3. \A p \in 1 .. Len(heap) + 1 : p \in 1 .. Len(heap) \/ p = Len(heap) + 1
  OBVIOUS
<1>4. \A p, q \in 1 .. Len(heap') : new[p] = new[q] => p = q
  BY <1>1, <1>3 DEF Ranks
<1>5. ASSUME NEW p \in 1 .. Len(heap') PROVE heap'[p].next \in 0 .. Len(heap')
  BY <1>3 DEF OrderInv, NULL
<1>6. ASSUME NEW p \in 1 .. Len(heap'), heap'[p].next # NULL PROVE new[heap'[p].next] < new[p]
  <2>1. p \in 1 .. Len(heap) /\ heap'[p].next = heap[p].next
    BY <1>3, <1>6
  <2>2. heap[p].next \in 1 .. Len(heap) /\ rank[heap[p].next] < rank[p]
    BY <1>1, <1>6, <2>1 DEF OrderInv, Ranks, NULL
  <2>. QED
    BY <2>1, <2>2
<1>. HIDE DEF new
<1>. QED
  BY <1>2, <1>4, <1>5, <1>6 DEF OrderInv, Ranks

\* An entry that nothing leads to can be raised above all others, so that it may
\* lead to any of them.
LEMMA OrderRaises ==
  ASSUME OrderInv, Len(heap) \in Nat, Len(heap') = Len(heap), NEW e \in 1 .. Len(heap),
         NEW n \in 0 .. Len(heap), n # e,
         \A p \in 1 .. Len(heap) : heap[p].next # e,
         \A p \in 1 .. Len(heap) : heap'[p].next = IF p = e THEN n ELSE heap[p].next
  PROVE  OrderInv'
<1>. DEFINE N == Len(heap)
<1>1. PICK rank \in [1 .. N -> 1 .. N] : Ranks(rank)
  BY DEF OrderInv
<1>. DEFINE new == [p \in 1 .. N |-> IF p = e THEN N
                                     ELSE IF rank[p] > rank[e] THEN rank[p] - 1 ELSE rank[p]]
<1>2. \A p \in 1 .. N : rank[p] \in 1 .. N /\ (p # e => rank[p] # rank[e])
  BY <1>1 DEF Ranks
<1>3. \A p \in 1 .. N : p # e => /\ new[p] \in 1 .. N - 1
                                 /\ new[p] = IF rank[p] > rank[e] THEN rank[p] - 1 ELSE rank[p]
  BY <1>2, SMTT(30)
<1>4. new[e] = N
  OBVIOUS
<1>5. new \in [1 .. N -> 1 .. N]
  BY <1>2, SMTT(30)
<1>. HIDE DEF new
<1>6. ASSUME NEW p \in 1 .. N, NEW q \in 1 .. N, p # e, q # e, rank[p] < rank[q]
      PROVE  new[p] < new[q]
  <2>1. /\ rank[p] \in Nat /\ rank[q] \in Nat /\ rank[e] \in Nat
        /\ rank[p] # rank[e] /\ rank[q] # rank[e]
    BY <1>2, <1>6, SMTT(30)
  <2>2. /\ new[p] = IF rank[p] > rank[e] THEN rank[p] - 1 ELSE rank[p]
        /\ new[q] = IF rank[q] > rank[e] THEN rank[q] - 1 ELSE rank[q]
    BY <1>3, <1>6
  <2>. QED
    BY ONLY <1>6, <2>1, <2>2
<1>7. \A p, q \in 1 .. N : new[p] = new[q] => p = q
  <2>. SUFFICES ASSUME NEW p \in 1 .. N, NEW q \in 1 .. N, p # q PROVE new[p] # new[q]
    OBVIOUS
  <2>1. CASE p = e \/ q = e
    BY <1>3, <1>4, <2>1
  <2>2. CASE p # e /\ q # e
    <3>1. rank[p] # rank[q]
      BY <1>1 DEF Ranks
    <3>2. rank[p] < rank[q] \/ rank[q] < rank[p]
      BY <1>2, <3>1
    <3>. QED
      BY <1>3, <1>6, <2>2, <3>2
  <2>. QED
    BY <2>1, <2>2
<1>8. \A p \in 1 .. N : heap'[p].next \in 0 .. N
  BY DEF OrderInv
<1>9. ASSUME NEW p \in 1 .. N, heap'[p].next # NULL PROVE new[heap'[p].next] < new[p]
  <2>1. heap'[p].next \in 1 .. N /\ heap'[p].next # e
    BY <1>8, <1>9 DEF NULL
  <2>2. CASE p = e
    BY <1>3, <1>4, <2>1, <2>2
  <2>3. CASE p # e
    <3>1. rank[heap'[p].next] < rank[p]
      BY <1>1, <1>9, <2>3 DEF Ranks
    <3>. QED
      BY <1>6, <2>1, <2>3, <3>1
  <2>. QED
    BY <2>2, <2>3
<1>. QED
  BY <1>5, <1>7, <1>8, <1>9 DEF OrderInv, Ranks

\* No access makes the entries lead round in a circle.
LEMMA StepOrderInv == MacTableInv /\ [Next]_vars => OrderInv'
<1>. SUFFICES ASSUME MacTableInv, [Next]_vars PROVE OrderInv'
  OBVIOUS
<1>. USE DEF locals
<1>0. TypeOK /\ GivenInv /\ OrderInv /\ PrivateInv /\ Len(heap) \in Nat
  BY LenProperties DEF MacTableInv, TypeOK
<1>1. CASE heap' = heap
  BY <1>0, <1>1, SameOrder
<1>2. ASSUME NEW w \in Worker, LookupExpire(w) \/ InsertPort(w) \/ InsertSeen(w) PROVE OrderInv'
  <2>1. cur[w] # NULL /\ now \in Nat
    BY <1>0, <1>2 DEF GivenInv, TypeOK, LookupExpire, InsertPort, InsertSeen
  <2>2. InsertPort(w) => port[w] \in Port
    BY <1>0 DEF GivenInv, TypeOK, InsertPort
  <2>3. CASE LookupExpire(w)
    <3>1. Len(heap') = Len(heap) /\ \A p \in 1 .. Len(heap) : heap'[p].next = heap[p].next
      BY <1>0, <2>1, <2>2, <2>3, Expires
    <3>. QED
      BY <1>0, <3>1, SameOrder
  <2>4. CASE InsertPort(w)
    <3>1. Len(heap') = Len(heap) /\ \A p \in 1 .. Len(heap) : heap'[p].next = heap[p].next
      BY <1>0, <2>1, <2>2, <2>4, Moves
    <3>. QED
      BY <1>0, <3>1, SameOrder
  <2>5. CASE InsertSeen(w)
    <3>1. Len(heap') = Len(heap) /\ \A p \in 1 .. Len(heap) : heap'[p].next = heap[p].next
      BY <1>0, <2>1, <2>2, <2>5, Seen
    <3>. QED
      BY <1>0, <3>1, SameOrder
  <2>. QED
    BY <1>2, <2>3, <2>4, <2>5
<1>3. ASSUME NEW w \in Worker, InsertNew(w) PROVE OrderInv'
  <2>1. port[w] \in Port
    BY <1>0, <1>3 DEF InsertNew, GivenInv, TypeOK
  <2>2. /\ Len(heap') = Len(heap) + 1 /\ \A p \in 1 .. Len(heap) : heap'[p] = heap[p]
        /\ heap'[Len(heap) + 1] = [key |-> key[w], port |-> port[w], last_seen |-> now,
                                   valid |-> TRUE, next |-> NULL]
    BY <1>0, <1>3, <2>1, NewEntry
  <2>3. heap'[Len(heap) + 1].next = NULL
    BY ONLY <2>2
  <2>. QED
    BY <1>0, <2>2, <2>3, OrderGrows
<1>4. ASSUME NEW w \in Worker, InsertNext(w) PROVE OrderInv'
  <2>1. head \in 0 .. Len(heap) /\ w \in Building
    BY <1>0, <1>4, Pointers DEF InsertNext, Building
  <2>2. /\ cur[w] # NULL /\ head # cur[w] /\ \A p \in 1 .. Len(heap) : heap[p].next # cur[w]
        /\ cur[w] \in 1 .. Len(heap)
    BY <1>0, <2>1, Pointers DEF PrivateInv
  <2>3. head \in Nat
    BY ONLY <1>0, <2>1
  <2>4. /\ Len(heap') = Len(heap)
        /\ \A p \in 1 .. Len(heap) : heap'[p].next = IF p = cur[w] THEN head ELSE heap[p].next
    BY <1>0, <1>4, <2>2, <2>3, Links
  <2>. QED
    BY <1>0, <2>1, <2>2, <2>4, OrderRaises
<1>5. \A w \in crew : w \in Worker
  BY <1>0, MacTableAssumption DEF TypeOK
<1>. QED
  BY <1>1, <1>2, <1>3, <1>4, <1>5
  DEF Next, vars, Tick, Lookup, Insert, LookupCall, LookupTime, LookupEnd, LookupWalk,
      LookupAge, LookupPort, GiveUp, InsertCall, InsertFind, InsertLink, InsertCount

\* Every access keeps track of what is to be counted.
LEMMA StepCountInv == MacTableInv /\ [Next]_vars => CountInv'
<1>. SUFFICES ASSUME MacTableInv, [Next]_vars PROVE CountInv'
  OBVIOUS
<1>. USE DEF locals, Goto
<1>0. TypeOK /\ GivenInv /\ OrderInv /\ CountInv /\ Len(heap) \in Nat /\ size \in Nat
  BY LenProperties DEF MacTableInv, TypeOK
<1>1. /\ IsFiniteSet(Building) /\ IsFiniteSet(Counting)
      /\ Cardinality(Building) \in Nat /\ Cardinality(Counting) \in Nat
  <2>1. Building \subseteq Worker /\ Counting \subseteq Worker
    BY DEF Building, Counting
  <2>. QED
    BY <2>1, MacTableAssumption, FS_Subset, FS_CardinalityType
<1>2. CASE Building' = Building /\ Counting' = Counting /\ size' = size /\ Len(heap') = Len(heap)
  BY <1>0, <1>2 DEF CountInv
<1>3. ASSUME NEW w \in Worker, InsertNew(w) PROVE CountInv'
  <2>1. port[w] \in Port
    BY <1>0, <1>3 DEF InsertNew, GivenInv, TypeOK
  <2>2. Len(heap') = Len(heap) + 1
    BY <1>0, <1>3, <2>1, NewEntry
  <2>3. /\ w \notin Building /\ Building' = Building \cup {w} /\ Counting' = Counting
        /\ size' = size
    BY <1>0, <1>3 DEF InsertNew, TypeOK, Building, Counting
  <2>4. Cardinality(Building \cup {w}) = Cardinality(Building) + 1
    BY <1>1, <2>3, FS_AddElement
  <2>. QED
    BY <1>0, <1>1, <2>2, <2>3, <2>4 DEF CountInv
<1>4. ASSUME NEW w \in Worker, InsertLink(w) PROVE CountInv'
  <2>1. /\ w \in Building /\ Building' = Building \ {w}
        /\ w \notin Counting /\ Counting' = Counting \cup {w}
        /\ size' = size /\ heap' = heap
    BY <1>0, <1>4 DEF InsertLink, TypeOK, Building, Counting
  <2>2. /\ Cardinality(Building \ {w}) = Cardinality(Building) - 1
        /\ Cardinality(Counting \cup {w}) = Cardinality(Counting) + 1
    BY <1>1, <2>1, FS_AddElement, FS_RemoveElement
  <2>. QED
    BY <1>0, <1>1, <2>1, <2>2 DEF CountInv
<1>5. ASSUME NEW w \in Worker, InsertCount(w) PROVE CountInv'
  <2>1. /\ w \in Counting /\ Counting' = Counting \ {w} /\ Building' = Building
        /\ size' = size + 1 /\ heap' = heap
    BY <1>0, <1>5 DEF InsertCount, InsertReturn, TypeOK, Building, Counting
  <2>2. Cardinality(Counting \ {w}) = Cardinality(Counting) - 1
    BY <1>1, <2>1, FS_RemoveElement
  <2>. QED
    BY <1>0, <1>1, <2>1, <2>2 DEF CountInv
<1>6. ASSUME NEW w \in Worker, LookupExpire(w) \/ InsertPort(w) \/ InsertSeen(w) \/ InsertNext(w)
      PROVE  CountInv'
  <2>0. head \in Nat
    <3>1. head \in 0 .. Len(heap)
      BY <1>0, Pointers
    <3>. QED
      BY ONLY <1>0, <3>1
  <2>1. cur[w] # NULL /\ now \in Nat
    BY <1>0, <1>6 DEF GivenInv, TypeOK, LookupExpire, InsertPort, InsertSeen, InsertNext
  <2>2. InsertPort(w) => port[w] \in Port
    BY <1>0 DEF GivenInv, TypeOK, InsertPort
  <2>3. Len(heap') = Len(heap)
    BY <1>0, <1>6, <2>0, <2>1, <2>2, Expires, Moves, Seen, Links
  <2>4. Building' = Building /\ Counting' = Counting /\ size' = size
    BY <1>0, <1>6
    DEF LookupExpire, Return, InsertPort, InsertSeen, InsertNext, InsertReturn, TypeOK,
        Building, Counting
  <2>. QED
    BY <1>2, <2>3, <2>4
<1>7. ASSUME NEW w \in Worker,
             \/ \E k \in Key : LookupCall(w, k)
             \/ LookupTime(w) \/ LookupEnd(w) \/ LookupWalk(w) \/ LookupAge(w) \/ LookupPort(w)
             \/ GiveUp(w) \/ \E p \in Port : InsertCall(w, p)
             \/ InsertFind(w)
      PROVE  CountInv'
  <2>1. Building' = Building /\ Counting' = Counting /\ size' = size /\ heap' = heap
    BY <1>0, <1>7
    DEF LookupCall, LookupTime, LookupEnd, LookupWalk, LookupAge, LookupPort, GiveUp, Return,
        InsertCall, InsertFind, TypeOK, Building, Counting
  <2>. QED
    BY <1>2, <2>1
<1>8. \A w \in crew : w \in Worker
  BY <1>0, MacTableAssumption DEF TypeOK
<1>9. CASE UNCHANGED <<pc, size, heap>>
  BY <1>2, <1>9 DEF Building, Counting
<1>. QED
  BY <1>3, <1>4, <1>5, <1>6, <1>7, <1>8, <1>9 DEF Next, vars, Tick, Lookup, Insert

\* The invariant is inductive.
LEMMA MacTableStep == MacTableInv /\ [Next]_vars => MacTableInv'
  BY StepTypeOK, StepGivenInv, StepPrivateInv, StepOrderInv, StepCountInv DEF MacTableInv

\* However the workers' calls interleave, their pointers stay in order
\* (mac_table_lookup, mac_table_insert).
THEOREM MacTableInvariance == Spec => []MacTableInv
  BY InitMacTableInv, MacTableStep, PTL DEF Spec

-------------------------------------------------------------------------------
(* Walks *)

\* Walk is what its recursion says: there is such a function for every length.
LEMMA WalkSteps ==
  ASSUME Len(heap) \in Nat, NEW p
  PROVE  /\ Walk(p)[0] = p
         /\ \A i \in 1 .. Len(heap) :
              Walk(p)[i] = IF Walk(p)[i - 1] = NULL THEN NULL ELSE heap[Walk(p)[i - 1]].next
<1>. DEFINE Def(n, f) == f = [i \in 0 .. n |->
               IF i = 0 THEN p ELSE IF f[i - 1] = NULL THEN NULL ELSE heap[f[i - 1]].next]
            S == {n \in Nat : \E f : Def(n, f)}
<1>1. 0 \in S
  <2>. DEFINE f == [i \in 0 .. 0 |-> p]
  <2>1. Def(0, f)
    OBVIOUS
  <2>. QED
    BY <2>1
<1>2. ASSUME NEW n \in Nat, n \in S PROVE n + 1 \in S
  <2>1. PICK f : Def(n, f)
    BY <1>2
  <2>. DEFINE g == [i \in 0 .. n + 1 |->
                      IF i <= n THEN f[i] ELSE IF f[n] = NULL THEN NULL ELSE heap[f[n]].next]
  <2>2. \A i \in 0 .. n : f[i] = IF i = 0 THEN p ELSE IF f[i - 1] = NULL THEN NULL
                                                      ELSE heap[f[i - 1]].next
    BY <2>1
  <2>3. \A i \in 0 .. n : g[i] = f[i]
    OBVIOUS
  <2>4. ASSUME NEW i \in 0 .. n + 1
        PROVE  g[i] = IF i = 0 THEN p ELSE IF g[i - 1] = NULL THEN NULL ELSE heap[g[i - 1]].next
    <3>1. CASE i <= n
      <4>1. i \in 0 .. n /\ (i # 0 => i - 1 \in 0 .. n)
        BY <3>1
      <4>. QED
        BY <2>2, <2>3, <4>1
    <3>2. CASE i = n + 1
      <4>1. i # 0 /\ i - 1 = n /\ n \in 0 .. n /\ ~ (i <= n)
        BY <3>2
      <4>. QED
        BY <2>3, <4>1
    <3>. QED
      BY <3>1, <3>2
  <2>5. g = [i \in 0 .. n + 1 |-> g[i]]
    OBVIOUS
  <2>6. Def(n + 1, g)
    <3>. HIDE DEF g
    <3>. QED
      BY <2>4, <2>5
  <2>7. \E f2 : Def(n + 1, f2)
    <3>. HIDE DEF g, Def
    <3>. QED
      BY <2>6
  <2>. QED
    BY <2>7
<1>3. \E f : Def(Len(heap), f)
  <2>1. Nat \subseteq S
    <3>. HIDE DEF S
    <3>. QED
      BY <1>1, <1>2, AllNaturals
  <2>. QED
    BY <2>1
<1>4. Def(Len(heap), Walk(p))
  <2>1. Walk(p) = CHOOSE f : Def(Len(heap), f)
    BY DEF Walk
  <2>. HIDE DEF Def
  <2>. QED
    BY <1>3, <2>1
<1>. DEFINE W == Walk(p)
<1>5. W = [i \in 0 .. Len(heap) |->
             IF i = 0 THEN p ELSE IF W[i - 1] = NULL THEN NULL ELSE heap[W[i - 1]].next]
  BY <1>4
<1>. HIDE DEF W
<1>6. /\ W[0] = p
      /\ \A i \in 1 .. Len(heap) : W[i] = IF W[i - 1] = NULL THEN NULL ELSE heap[W[i - 1]].next
  BY <1>5
<1>. QED
  BY <1>6 DEF W

\* Every step of a walk leads to an entry of the heap or to NULL.
LEMMA WalkInHeap ==
  ASSUME TypeOK, OrderInv, NEW p \in 0 .. Len(heap)
  PROVE  \A i \in 0 .. Len(heap) : Walk(p)[i] \in 0 .. Len(heap)
<1>. DEFINE W == Walk(p)
            S == {i \in 0 .. Len(heap) : W[i] \in 0 .. Len(heap)}
<1>1. /\ Len(heap) \in Nat /\ W[0] = p
      /\ \A i \in 1 .. Len(heap) : W[i] = IF W[i - 1] = NULL THEN NULL ELSE heap[W[i - 1]].next
  BY WalkSteps, LenProperties DEF TypeOK
<1>. HIDE DEF W
<1>2. 0 \in S
  BY <1>1
<1>3. ASSUME NEW i \in 0 .. Len(heap), i \in S, i < Len(heap) PROVE i + 1 \in S
  <2>1. i + 1 \in 1 .. Len(heap) /\ (i + 1) - 1 = i /\ W[i] \in 0 .. Len(heap)
    BY <1>1, <1>3
  <2>2. W[i + 1] = IF W[i] = NULL THEN NULL ELSE heap[W[i]].next
    BY <1>1, <2>1
  <2>3. W[i] # NULL => W[i] \in 1 .. Len(heap)
    BY <2>1 DEF NULL
  <2>4. W[i + 1] \in 0 .. Len(heap)
    BY <1>1, <2>2, <2>3 DEF OrderInv, NULL
  <2>. QED
    BY <2>1, <2>4
<1>4. 0 .. Len(heap) \subseteq S
  <2>. HIDE DEF S
  <2>. QED
    BY <1>1, <1>2, <1>3, UpTo
<1>. QED
  BY <1>4 DEF W

\* However the insertions of any number of workers interleave, a walk from any
\* entry of the chain ends after as many steps as there are entries, at most
\* (the loops of mac_table_lookup and mac_table_insert end).
THEOREM EveryWalkEnds == Spec => []WalksEnd
<1>1. MacTableInv => WalksEnd
  <2>. SUFFICES ASSUME MacTableInv, NEW p \in 0 .. Len(heap) PROVE Walk(p)[Len(heap)] = NULL
    BY DEF WalksEnd
  <2>0. TypeOK /\ OrderInv
    BY DEF MacTableInv
  <2>1. PICK rank \in [1 .. Len(heap) -> 1 .. Len(heap)] : Ranks(rank)
    BY <2>0 DEF OrderInv
  <2>. DEFINE W == Walk(p)
              S == {i \in 0 .. Len(heap) : W[i] = NULL \/ rank[W[i]] <= Len(heap) - i}
  <2>2. /\ Len(heap) \in Nat /\ W[0] = p
        /\ \A i \in 1 .. Len(heap) : W[i] = IF W[i - 1] = NULL THEN NULL ELSE heap[W[i - 1]].next
    BY <2>0, WalkSteps, LenProperties DEF TypeOK
  <2>3. \A i \in 0 .. Len(heap) : W[i] # NULL => W[i] \in 1 .. Len(heap)
    <3>1. \A i \in 0 .. Len(heap) : W[i] \in 0 .. Len(heap)
      BY <2>0, WalkInHeap
    <3>. HIDE DEF W
    <3>. QED
      BY <2>2, <3>1 DEF NULL
  <2>. HIDE DEF W
  <2>4. \A q \in 1 .. Len(heap) : rank[q] \in 1 .. Len(heap)
    BY <2>1
  <2>5. 0 \in S
    <3>1. 0 \in 0 .. Len(heap) /\ Len(heap) - 0 = Len(heap)
      BY <2>2
    <3>2. W[0] # NULL => rank[W[0]] \in 1 .. Len(heap)
      BY <2>3, <2>4, <3>1
    <3>3. W[0] # NULL => rank[W[0]] <= Len(heap)
      BY ONLY <2>2, <3>2
    <3>. QED
      BY <3>1, <3>3
  <2>6. ASSUME NEW i \in 0 .. Len(heap), i \in S, i < Len(heap) PROVE i + 1 \in S
    <3>1. i + 1 \in 1 .. Len(heap) /\ i + 1 \in 0 .. Len(heap) /\ (i + 1) - 1 = i
      BY <2>2, <2>6
    <3>2. W[i + 1] = IF W[i] = NULL THEN NULL ELSE heap[W[i]].next
      BY <2>2, <3>1
    <3>3. CASE W[i + 1] # NULL
      <4>1. W[i] \in 1 .. Len(heap) /\ W[i + 1] = heap[W[i]].next /\ W[i + 1] \in 1 .. Len(heap)
        BY <2>3, <3>1, <3>2, <3>3
      <4>2. rank[W[i + 1]] < rank[W[i]]
        BY <2>1, <3>3, <4>1 DEF Ranks
      <4>3. rank[W[i]] <= Len(heap) - i
        BY <2>6, <3>2, <3>3
      <4>4. rank[W[i + 1]] \in Nat /\ rank[W[i]] \in Nat
        BY <2>4, <4>1
      <4>5. rank[W[i + 1]] <= Len(heap) - (i + 1)
        BY ONLY <2>2, <3>1, <4>2, <4>3, <4>4
      <4>. QED
        BY <3>1, <4>5
    <3>. QED
      BY <3>1, <3>3
  <2>7. 0 .. Len(heap) \subseteq S
    <3>. HIDE DEF S
    <3>. QED
      BY <2>2, <2>5, <2>6, UpTo
  <2>8. W[Len(heap)] = NULL \/ rank[W[Len(heap)]] <= 0
    BY <2>2, <2>7
  <2>. QED
    BY <2>2, <2>3, <2>4, <2>8 DEF W
<1>. QED
  BY <1>1, MacTableInvariance, PTL

\* The variables have the values their comments announce (mac_table_t, the locals of
\* mac_table_lookup and mac_table_insert).
THEOREM MacTableTypeCorrect == Spec => []TypeOK
  BY MacTableInvariance, PTL DEF MacTableInv

\* mac_table_lookup returns no port but one that mac_table_insert was given for the
\* address, whatever the other workers do to the entry in between.
THEOREM NoStrangeAnswer == Spec => []AnswersAreGiven
<1>1. MacTableInv => AnswersAreGiven
  BY DEF MacTableInv, GivenInv, AnswersAreGiven
<1>. QED
  BY <1>1, MacTableInvariance, PTL

\* Nobody walks into an entry that is not linked yet.
LEMMA ChainIsPublic ==
  ASSUME MacTableInv
  PROVE  Chain \subseteq (1 .. Len(heap)) \ Private
<1>. DEFINE W == Walk(head)
            S == {i \in 0 .. Len(heap) : W[i] \notin Private}
<1>0. TypeOK /\ OrderInv /\ PrivateInv
  BY DEF MacTableInv
<1>1. /\ Len(heap) \in Nat /\ W[0] = head /\ head \in 0 .. Len(heap)
      /\ \A i \in 1 .. Len(heap) : W[i] = IF W[i - 1] = NULL THEN NULL ELSE heap[W[i - 1]].next
  BY <1>0, WalkSteps, LenProperties DEF TypeOK
<1>2. \A i \in 0 .. Len(heap) : W[i] \in 0 .. Len(heap)
  BY <1>0, <1>1, WalkInHeap
<1>. HIDE DEF W
<1>3. /\ NULL \notin Private /\ head \notin Private
      /\ \A q \in 1 .. Len(heap) : heap[q].next \notin Private
  BY <1>0 DEF PrivateInv, Private
<1>4. 0 \in S
  BY <1>1, <1>3
<1>5. ASSUME NEW i \in 0 .. Len(heap), i \in S, i < Len(heap) PROVE i + 1 \in S
  <2>1. i + 1 \in 1 .. Len(heap) /\ i + 1 \in 0 .. Len(heap) /\ (i + 1) - 1 = i
    BY <1>1, <1>5
  <2>2. W[i + 1] = IF W[i] = NULL THEN NULL ELSE heap[W[i]].next
    BY <1>1, <2>1
  <2>3. W[i] # NULL => W[i] \in 1 .. Len(heap)
    BY <1>1, <1>2 DEF NULL
  <2>. QED
    BY <1>3, <2>1, <2>2, <2>3
<1>6. 0 .. Len(heap) \subseteq S
  <2>. HIDE DEF S
  <2>. QED
    BY <1>1, <1>4, <1>5, UpTo
<1>7. Chain = {W[i] : i \in 0 .. Len(heap)} \ {NULL}
  BY DEF Chain, W
<1>. QED
  BY <1>1, <1>2, <1>6, <1>7 DEF NULL

\* There are as many private entries as workers that build one.
LEMMA PrivateCount ==
  ASSUME TypeOK, PrivateInv
  PROVE  /\ IsFiniteSet(Private) /\ Cardinality(Private) = Cardinality(Building)
         /\ Private \subseteq 1 .. Len(heap)
<1>1. IsFiniteSet(Building) /\ Building \subseteq Worker
  BY MacTableAssumption, FS_Subset DEF Building
<1>. DEFINE f == [w \in Building |-> cur[w]]
<1>2. f \in Bijection(Building, Private)
  <2>1. f \in [Building -> Private]
    BY DEF Private
  <2>2. \A v, w \in Building : f[v] = f[w] => v = w
    BY <1>1 DEF PrivateInv
  <2>3. \A e \in Private : \E w \in Building : f[w] = e
    BY DEF Private
  <2>. QED
    BY <2>1, <2>2, <2>3, Fun_IsBij
<1>3. ExistsBijection(Building, Private)
  BY <1>2, Fun_ExistsBij
<1>4. Private \subseteq 1 .. Len(heap)
  BY <1>1, LenProperties DEF Private, PrivateInv, TypeOK, NULL
<1>. QED
  BY <1>1, <1>3, <1>4, FS_Bijection

\* table->size is never less than the entries of the chain, but for those whose
\* insertion is about to count them (mac_table_insert).
THEOREM SizeKeepsUp == Spec => []SizeBoundsChain
<1>1. MacTableInv => SizeBoundsChain
  <2>. SUFFICES ASSUME MacTableInv
                PROVE  Cardinality(Chain) <= size + Cardinality(Counting)
    BY DEF SizeBoundsChain, Counting
  <2>. DEFINE N == Len(heap)
  <2>0. TypeOK /\ PrivateInv /\ CountInv /\ N \in Nat /\ size \in Nat
    BY LenProperties DEF MacTableInv, TypeOK
  <2>1. /\ IsFiniteSet(Private) /\ Cardinality(Private) = Cardinality(Building)
        /\ Private \subseteq 1 .. N
    BY <2>0, PrivateCount
  <2>2. IsFiniteSet(1 .. N) /\ Cardinality(1 .. N) = N
    BY <2>0, FS_Interval, SMTT(30)
  <2>3. /\ IsFiniteSet((1 .. N) \ Private)
        /\ Cardinality((1 .. N) \ Private) = N - Cardinality((1 .. N) \cap Private)
    BY <2>2, FS_Difference
  <2>4. (1 .. N) \cap Private = Private
    BY <2>1
  <2>5. IsFiniteSet(Chain) /\ Cardinality(Chain) <= Cardinality((1 .. N) \ Private)
    BY <2>3, ChainIsPublic, FS_Subset
  <2>6. Cardinality(Building) \in Nat /\ Cardinality(Counting) \in Nat /\ Cardinality(Chain) \in Nat
    <3>1. IsFiniteSet(Building) /\ IsFiniteSet(Counting)
      BY MacTableAssumption, FS_Subset DEF Building, Counting
    <3>. QED
      BY <2>5, <3>1, FS_CardinalityType
  <2>7. N = size + Cardinality(Building) + Cardinality(Counting)
    BY <2>0 DEF CountInv
  <2>8. Cardinality(Chain) <= N - Cardinality(Building)
    BY <2>1, <2>3, <2>4, <2>5
  <2>. QED
    BY ONLY <2>0, <2>6, <2>7, <2>8
<1>. QED
  BY <1>1, MacTableInvariance, PTL

-------------------------------------------------------------------------------
(* One worker: the chain implements AddressTable *)

\* One worker appends entries to the heap and links each to the one before.
AloneInv ==
  /\ crew = {Solo} /\ Solo \in Worker
  /\ head = IF pc[Solo] \in {"next", "link"} THEN Len(heap) - 1 ELSE Len(heap)
  /\ \A p \in 1 .. head : heap[p].next = p - 1
  /\ \A p, q \in 1 .. Len(heap) : heap[p].key = heap[q].key => p = q
  /\ \A p \in 1 .. Len(heap) : heap[p].last_seen <= now
  /\ since[Solo] <= now

\* What it knows while it searches and extends the chain.
SearchInv ==
  /\ pc[Solo] \notin {"next", "link"} => cur[Solo] <= head
  /\ pc[Solo] \in {"next", "link"} => cur[Solo] = Len(heap) /\ heap[cur[Solo]].valid
  /\ pc[Solo] = "link" => heap[cur[Solo]].next = head
  /\ pc[Solo] \in {"age", "expire", "port"} => heap[cur[Solo]].valid
  /\ pc[Solo] = "expire" => since[Solo] - heap[cur[Solo]].last_seen > TTL
  /\ pc[Solo] = "port" => since[Solo] - heap[cur[Solo]].last_seen <= TTL
  /\ pc[Solo] \in {"missed", "find", "setport", "setseen"} =>
       \A p \in 1 .. head : heap[p].key = key[Solo] => ~ heap[p].valid
  /\ pc[Solo] \in {"time", "walk"} =>
       \A p \in 1 .. head : p > cur[Solo] /\ heap[p].key = key[Solo] => ~ heap[p].valid
  /\ pc[Solo] = "find" =>
       \A p \in 1 .. head : p > cur[Solo] => heap[p].key # key[Solo]

\* The empty table of one worker.
LEMMA InitAlone == Init /\ Alone => AloneInv /\ SearchInv
<1>. SUFFICES ASSUME Init, Alone PROVE AloneInv /\ SearchInv
  OBVIOUS
<1>1. crew \subseteq Worker /\ IsFiniteSet(crew)
  BY MacTableAssumption, FS_Subset DEF Init
<1>2. PICK x : crew = {x}
  BY <1>1, FS_Singleton DEF Alone
<1>3. crew = {Solo} /\ Solo \in Worker
  BY <1>1, <1>2 DEF Solo
<1>4. Len(heap) = 0 /\ head = 0 /\ now = 0 /\ pc[Solo] = "idle" /\ cur[Solo] = 0 /\ since[Solo] = 0
  BY <1>3 DEF Init, NULL
<1>. QED
  BY <1>3, <1>4 DEF AloneInv, SearchInv

\* The worker's own accesses, in their order, keep the chain in that order.
LEMMA StepAlone ==
  ASSUME MacTableInv, AloneInv, SearchInv, [Next]_vars
  PROVE  AloneInv' /\ SearchInv'
<1>0. TypeOK /\ GivenInv /\ OrderInv /\ Solo \in Worker /\ crew = {Solo}
  BY DEF MacTableInv, AloneInv
<1>1. Solo' = Solo /\ crew' = crew
  <2>1. crew' = crew
    BY DEF Next, vars
  <2>. QED
    BY <2>1 DEF Solo
<1>2. /\ Len(heap) \in Nat /\ head \in 0 .. Len(heap) /\ cur[Solo] \in 0 .. Len(heap)
      /\ cur[Solo] # 0 => cur[Solo] \in 1 .. Len(heap) /\ heap[cur[Solo]] \in Entry
      /\ now \in Nat /\ since[Solo] \in Nat /\ TTL \in Nat /\ key[Solo] \in Key
      /\ \A p \in 1 .. Len(heap) : heap[p].last_seen \in Nat /\ heap[p].valid \in BOOLEAN
  <2>1. \A p \in 1 .. Len(heap) : heap[p] \in Entry
    BY <1>0, ElementOfSeq DEF TypeOK
  <2>. QED
    BY <1>0, <2>1, Pointers, MacTableAssumption DEF NULL, TypeOK, Entry
<1>3. CASE UNCHANGED vars
  BY <1>1, <1>3 DEF vars, locals, AloneInv, SearchInv
<1>4. CASE Tick
  <2>1. now' = now + 1 /\ UNCHANGED <<heap, head, pc, key, cur, since>>
    BY <1>4 DEF Tick, locals
  <2>. QED
    BY <1>0, <1>1, <1>2, <2>1 DEF AloneInv, SearchInv
<1>5. CASE Lookup(Solo)
  <2>. USE <1>0, <1>1, <1>2 DEF Goto
  <2>1. ASSUME NEW k \in Key, LookupCall(Solo, k) PROVE AloneInv' /\ SearchInv'
    <3>1. /\ pc[Solo] = "idle" /\ pc'[Solo] = "time" /\ key'[Solo] = k /\ cur'[Solo] = head
          /\ since'[Solo] = since[Solo] /\ UNCHANGED <<now, heap, head>>
      BY <2>1 DEF TypeOK, LookupCall
    <3>. QED
      BY <3>1 DEF AloneInv, SearchInv
  <2>2. CASE LookupTime(Solo)
    <3>1. /\ pc[Solo] = "time" /\ pc'[Solo] = "walk" /\ key'[Solo] = key[Solo]
          /\ cur'[Solo] = cur[Solo] /\ since'[Solo] = now /\ UNCHANGED <<now, heap, head>>
      BY <2>2 DEF TypeOK, LookupTime
    <3>. QED
      BY <3>1 DEF AloneInv, SearchInv
  <2>3. CASE LookupEnd(Solo)
    <3>1. /\ pc[Solo] = "walk" /\ pc'[Solo] = "missed" /\ key'[Solo] = key[Solo]
          /\ cur[Solo] = 0 /\ cur'[Solo] = 0 /\ since'[Solo] = 0 /\ UNCHANGED <<now, heap, head>>
      BY <2>3 DEF TypeOK, LookupEnd, Return, NULL
    <3>. QED
      BY <3>1 DEF AloneInv, SearchInv
  <2>4. CASE LookupWalk(Solo)
    <3>1. /\ pc[Solo] = "walk" /\ cur[Solo] # 0 /\ key'[Solo] = key[Solo]
          /\ since'[Solo] = since[Solo] /\ UNCHANGED <<now, heap, head>>
      BY <2>4 DEF TypeOK, LookupWalk, NULL
    <3>2. CASE Matches(Solo) /\ heap[cur[Solo]].valid
      <4>1. pc'[Solo] = "age" /\ cur'[Solo] = cur[Solo] /\ heap[cur[Solo]].valid
        BY <2>4, <3>2 DEF TypeOK, LookupWalk
      <4>. QED
        BY <3>1, <4>1 DEF AloneInv, SearchInv
    <3>3. CASE ~ (Matches(Solo) /\ heap[cur[Solo]].valid)
      <4>1. /\ pc'[Solo] = "walk" /\ cur'[Solo] = heap[cur[Solo]].next
            /\ heap[cur[Solo]].key = key[Solo] => ~ heap[cur[Solo]].valid
        BY <2>4, <3>3 DEF TypeOK, LookupWalk, Matches
      <4>2. cur'[Solo] = cur[Solo] - 1
        BY <3>1, <4>1 DEF AloneInv, SearchInv
      <4>3. cur[Solo] \in Nat /\ cur[Solo] <= head /\ head \in Nat
        BY <3>1 DEF SearchInv
      <4>4. \A p \in 1 .. head : p > cur[Solo] - 1 => p = cur[Solo] \/ p > cur[Solo]
        BY ONLY <4>3
      <4>. QED
        BY <3>1, <4>1, <4>2, <4>3, <4>4 DEF AloneInv, SearchInv
    <3>. QED
      BY <3>2, <3>3
  <2>5. CASE LookupAge(Solo)
    <3>1. /\ pc[Solo] = "age" /\ key'[Solo] = key[Solo] /\ cur'[Solo] = cur[Solo]
          /\ pc'[Solo] \in {"expire", "port"}
          /\ pc'[Solo] = "expire" => since[Solo] - heap[cur[Solo]].last_seen > TTL
          /\ pc'[Solo] = "port" => ~ (since[Solo] - heap[cur[Solo]].last_seen > TTL)
          /\ since'[Solo] = since[Solo] /\ UNCHANGED <<now, heap, head>>
      BY <2>5 DEF TypeOK, LookupAge
    <3>2. AloneInv'
      BY <3>1 DEF AloneInv
    <3>3. cur[Solo] \in 1 .. Len(heap)
      BY <3>1 DEF GivenInv, NULL
    <3>4. pc'[Solo] = "port" => since'[Solo] - heap'[cur'[Solo]].last_seen <= TTL
      BY <3>1, <3>3
    <3>5. SearchInv'
      BY <3>1, <3>4 DEF SearchInv
    <3>. QED
      BY <3>2, <3>5
  <2>6. CASE LookupExpire(Solo)
    <3>1. /\ pc[Solo] = "expire" /\ pc'[Solo] = "missed" /\ key'[Solo] = key[Solo]
          /\ cur'[Solo] = 0 /\ since'[Solo] = 0 /\ UNCHANGED <<now, head>>
      BY <2>6 DEF TypeOK, LookupExpire, Return, NULL
    <3>2. cur[Solo] \in 1 .. head /\ heap[cur[Solo]].key = key[Solo]
      <4>1. cur[Solo] # 0 /\ heap[cur[Solo]].key = key[Solo]
        BY <3>1 DEF GivenInv, NULL
      <4>2. cur[Solo] <= head
        BY <3>1 DEF SearchInv
      <4>. QED
        BY ONLY <1>2, <4>1, <4>2
    <3>3. /\ Len(heap') = Len(heap)
          /\ \A p \in 1 .. Len(heap) :
               /\ heap'[p].key = heap[p].key /\ heap'[p].last_seen = heap[p].last_seen
               /\ heap'[p].next = heap[p].next
               /\ heap'[p].valid <=> p # cur[Solo] /\ heap[p].valid
      <4>1. cur[Solo] # NULL
        BY ONLY <3>2 DEF NULL
      <4>. QED
        BY ONLY <1>0, <2>6, <4>1, Expires
    <3>4. \A p \in 1 .. head : p \in 1 .. Len(heap)
      OBVIOUS
    <3>5. AloneInv'
      BY ONLY <1>0, <1>1, <1>2, <3>1, <3>3, <3>4, AloneInv DEF AloneInv
    <3>6. \A p \in 1 .. head : heap[p].key = key[Solo] => p = cur[Solo]
      BY <3>2, <3>4 DEF AloneInv
    <3>7. \A p \in 1 .. head : heap'[p].key = key[Solo] => ~ heap'[p].valid
      BY ONLY <3>3, <3>4, <3>6
    <3>8. SearchInv'
      BY ONLY <1>1, <1>2, <3>1, <3>7 DEF SearchInv
    <3>. QED
      BY <3>5, <3>8
  <2>7. CASE LookupPort(Solo)
    <3>1. /\ pc[Solo] = "port" /\ pc'[Solo] = "idle" /\ key'[Solo] = key[Solo]
          /\ cur'[Solo] = 0 /\ since'[Solo] = 0 /\ UNCHANGED <<now, heap, head>>
      <4>0. heap[cur[Solo]].port # NoPort
        BY <2>7, MacTableAssumption DEF LookupPort, GivenInv, NULL, Entry
      <4>. QED
        BY <2>7, <4>0 DEF TypeOK, LookupPort, Return, NULL
    <3>. QED
      BY <3>1 DEF AloneInv, SearchInv
  <2>8. CASE GiveUp(Solo)
    <3>1. /\ pc[Solo] = "missed" /\ pc'[Solo] = "idle"
          /\ UNCHANGED <<now, heap, head, key, cur, since>>
      BY <2>8 DEF TypeOK, GiveUp
    <3>. QED
      BY <3>1 DEF AloneInv, SearchInv
  <2>. QED
    BY <1>5, <2>1, <2>2, <2>3, <2>4, <2>5, <2>6, <2>7, <2>8 DEF Lookup
<1>6. CASE Insert(Solo)
  <2>. USE <1>0, <1>1, <1>2 DEF Goto
  <2>1. ASSUME NEW p \in Port, InsertCall(Solo, p) PROVE AloneInv' /\ SearchInv'
    <3>1. /\ pc[Solo] = "missed" /\ pc'[Solo] = "find" /\ cur'[Solo] = head
          /\ UNCHANGED <<now, heap, head, key, since>>
      BY <2>1 DEF TypeOK, InsertCall
    <3>. QED
      BY <3>1 DEF AloneInv, SearchInv
  <2>2. CASE InsertFind(Solo)
    <3>1. /\ pc[Solo] = "find" /\ cur[Solo] # 0 /\ UNCHANGED <<now, heap, head, key, since>>
      BY <2>2 DEF TypeOK, InsertFind, NULL
    <3>2. CASE Matches(Solo)
      <4>1. pc'[Solo] = "setport" /\ cur'[Solo] = cur[Solo]
        BY <2>2, <3>2 DEF TypeOK, InsertFind
      <4>. QED
        BY <3>1, <4>1 DEF AloneInv, SearchInv
    <3>3. CASE ~ Matches(Solo)
      <4>1. /\ pc'[Solo] = "find" /\ cur'[Solo] = heap[cur[Solo]].next
            /\ heap[cur[Solo]].key # key[Solo]
        BY <2>2, <3>1, <3>3 DEF TypeOK, InsertFind, Matches
      <4>2. cur'[Solo] = cur[Solo] - 1
        BY <3>1, <4>1 DEF AloneInv, SearchInv
      <4>3. cur[Solo] \in Nat /\ cur[Solo] <= head /\ head \in Nat
        BY <3>1 DEF SearchInv
      <4>4. \A p \in 1 .. head : p > cur[Solo] - 1 => p = cur[Solo] \/ p > cur[Solo]
        BY ONLY <4>3
      <4>5. \A p \in 1 .. head : p > cur'[Solo] => heap[p].key # key[Solo]
        BY ONLY <3>1, <4>1, <4>2, <4>4, SearchInv DEF SearchInv
      <4>6. AloneInv'
        BY <3>1, <4>1 DEF AloneInv
      <4>7. SearchInv'
        BY ONLY <1>1, <1>2, <3>1, <4>1, <4>2, <4>3, <4>5, SearchInv DEF SearchInv
      <4>. QED
        BY <4>6, <4>7
    <3>. QED
      BY <3>2, <3>3
  <2>3. CASE InsertPort(Solo)
    <3>1. /\ pc[Solo] = "setport" /\ pc'[Solo] = "setseen"
          /\ UNCHANGED <<now, head, key, cur, since>>
      BY <2>3 DEF TypeOK, InsertPort
    <3>2. cur[Solo] # 0 /\ port[Solo] \in Port
      BY <3>1 DEF GivenInv, NULL, TypeOK
    <3>3. /\ Len(heap') = Len(heap)
          /\ \A p \in 1 .. Len(heap) :
               /\ heap'[p].key = heap[p].key /\ heap'[p].last_seen = heap[p].last_seen
               /\ heap'[p].next = heap[p].next /\ heap'[p].valid = heap[p].valid
      BY ONLY <1>0, <1>2, <2>3, <3>2, Moves DEF NULL
    <3>4. \A p \in 1 .. head : p \in 1 .. Len(heap)
      OBVIOUS
    <3>5. AloneInv'
      BY <3>1, <3>3, <3>4 DEF AloneInv
    <3>6. SearchInv'
      BY <3>1, <3>3, <3>4 DEF SearchInv
    <3>. QED
      BY <3>5, <3>6
  <2>4. CASE InsertSeen(Solo)
    <3>1. /\ pc[Solo] = "setseen" /\ pc'[Solo] = "idle" /\ cur'[Solo] = 0
          /\ UNCHANGED <<now, head, key, since>>
      BY <2>4 DEF TypeOK, InsertSeen, InsertReturn, NULL
    <3>2. cur[Solo] # 0
      BY <3>1 DEF GivenInv, NULL
    <3>3. /\ Len(heap') = Len(heap)
          /\ \A p \in 1 .. Len(heap) :
               /\ heap'[p].key = heap[p].key /\ heap'[p].next = heap[p].next
               /\ heap'[p].last_seen = IF p = cur[Solo] THEN now ELSE heap[p].last_seen
      BY ONLY <1>0, <1>2, <2>4, <3>2, Seen DEF NULL
    <3>4. \A p \in 1 .. head : p \in 1 .. Len(heap)
      OBVIOUS
    <3>5. \A p \in 1 .. Len(heap) : heap'[p].last_seen <= now
      BY ONLY <1>2, <3>3, AloneInv DEF AloneInv
    <3>6. AloneInv'
      <4>1. crew' = {Solo} /\ head' = head /\ since' = since /\ now' = now
        BY <1>1, <1>2, <3>1
      <4>2. head = Len(heap) /\ pc'[Solo] \notin {"next", "link"}
        BY ONLY <3>1, AloneInv DEF AloneInv
      <4>3. \A p \in 1 .. head' : heap'[p].next = p - 1
        BY ONLY <3>3, <4>1, <4>2, AloneInv DEF AloneInv
      <4>4. \A p, q \in 1 .. Len(heap') : heap'[p].key = heap'[q].key => p = q
        BY ONLY <3>3, AloneInv DEF AloneInv
      <4>5. \A p \in 1 .. Len(heap') : heap'[p].last_seen <= now'
        BY ONLY <3>3, <3>5, <4>1
      <4>6. head' = Len(heap') /\ since'[Solo] <= now' /\ Solo \in Worker
        BY ONLY <3>3, <4>1, <4>2, AloneInv DEF AloneInv
      <4>. QED
        BY <4>1, <4>2, <4>3, <4>4, <4>5, <4>6 DEF AloneInv
    <3>7. SearchInv'
      BY <3>1, <3>3, <3>4 DEF SearchInv
    <3>. QED
      BY <3>6, <3>7
  <2>5. CASE InsertNew(Solo)
    <3>1. /\ pc[Solo] = "find" /\ pc'[Solo] = "next" /\ cur[Solo] = 0
          /\ cur'[Solo] = Len(heap) + 1 /\ UNCHANGED <<now, head, key, since>>
      BY <2>5 DEF TypeOK, InsertNew, NULL
    <3>2. port[Solo] \in Port
      BY <3>1 DEF GivenInv, TypeOK
    <3>3. /\ Len(heap') = Len(heap) + 1
          /\ \A p \in 1 .. Len(heap) : heap'[p] = heap[p]
          /\ heap'[Len(heap) + 1].key = key[Solo]
          /\ heap'[Len(heap) + 1].last_seen = now /\ heap'[Len(heap) + 1].valid
      <4>1. /\ Len(heap') = Len(heap) + 1
            /\ \A p \in 1 .. Len(heap) : heap'[p] = heap[p]
            /\ heap'[Len(heap) + 1] = [key |-> key[Solo], port |-> port[Solo], last_seen |-> now,
                                       valid |-> TRUE, next |-> NULL]
        BY <2>5, <3>2, NewEntry
      <4>. QED
        BY ONLY <4>1
    <3>4. /\ head = Len(heap) /\ \A p \in 1 .. Len(heap) : heap[p].key # key[Solo]
      BY <3>1 DEF AloneInv, SearchInv
    <3>5. \A p \in 1 .. Len(heap') : p \in 1 .. Len(heap) \/ p = Len(heap) + 1
      BY <3>3
    <3>6. \A p, q \in 1 .. Len(heap') : heap'[p].key = heap'[q].key => p = q
      BY ONLY <3>3, <3>4, <3>5, AloneInv DEF AloneInv
    <3>7. \A p \in 1 .. Len(heap') : heap'[p].last_seen <= now
      BY ONLY <1>2, <3>3, <3>5, AloneInv DEF AloneInv
    <3>8. AloneInv'
      BY ONLY <1>0, <1>1, <1>2, <3>1, <3>3, <3>4, <3>6, <3>7, AloneInv, SMTT(30) DEF AloneInv
    <3>9. SearchInv'
      BY <3>1, <3>3, <3>4, <3>5 DEF SearchInv
    <3>. QED
      BY <3>8, <3>9
  <2>6. CASE InsertNext(Solo)
    <3>1. /\ pc[Solo] = "next" /\ pc'[Solo] = "link" /\ UNCHANGED <<now, head, key, cur, since>>
      BY <2>6 DEF TypeOK, InsertNext
    <3>2. cur[Solo] # 0 /\ head \in Nat
      <4>1. head \in Nat
        BY ONLY <1>2
      <4>. QED
        BY <3>1, <4>1 DEF GivenInv, NULL
    <3>3. /\ Len(heap') = Len(heap)
          /\ \A p \in 1 .. Len(heap) :
               /\ heap'[p].key = heap[p].key /\ heap'[p].last_seen = heap[p].last_seen
               /\ heap'[p].valid = heap[p].valid
               /\ heap'[p].next = IF p = cur[Solo] THEN head ELSE heap[p].next
      BY ONLY <1>0, <2>6, <3>2, Links DEF NULL
    <3>4. head = Len(heap) - 1 /\ cur[Solo] = Len(heap)
      BY <3>1 DEF AloneInv, SearchInv
    <3>5. \A p \in 1 .. head : p \in 1 .. Len(heap) /\ p # cur[Solo]
      BY <3>4
    <3>6. AloneInv'
      BY <3>1, <3>3, <3>5 DEF AloneInv
    <3>7. SearchInv'
      BY <3>1, <3>2, <3>3, <3>4 DEF SearchInv
    <3>. QED
      BY <3>6, <3>7
  <2>7. CASE InsertLink(Solo)
    <3>1. /\ pc[Solo] = "link" /\ pc'[Solo] = "count" /\ head' = cur[Solo]
          /\ UNCHANGED <<now, heap, key, cur, since>>
      BY <2>7 DEF TypeOK, InsertLink
    <3>2. head = Len(heap) - 1 /\ cur[Solo] = Len(heap) /\ heap[cur[Solo]].next = head
      BY <3>1 DEF AloneInv, SearchInv
    <3>3. \A p \in 1 .. head' : p \in 1 .. head \/ p = cur[Solo]
      BY <3>1, <3>2
    <3>4. AloneInv'
      BY <3>1, <3>2, <3>3 DEF AloneInv
    <3>5. SearchInv'
      BY <3>1, <3>2, <3>3 DEF SearchInv
    <3>. QED
      BY <3>4, <3>5
  <2>8. CASE InsertCount(Solo)
    <3>1. /\ pc[Solo] = "count" /\ pc'[Solo] = "idle" /\ cur'[Solo] = 0
          /\ UNCHANGED <<now, heap, head, key, since>>
      BY <2>8 DEF TypeOK, InsertCount, InsertReturn, NULL
    <3>. QED
      BY <3>1 DEF AloneInv, SearchInv
  <2>. QED
    BY <1>6, <2>1, <2>2, <2>3, <2>4, <2>5, <2>6, <2>7, <2>8 DEF Insert
<1>. QED
  BY <1>0, <1>3, <1>4, <1>5, <1>6 DEF Next

\* The chain of a table that one worker uses holds all linked entries.
LEMMA ChainAlone == MacTableInv /\ AloneInv => Chain = 1 .. head
<1>. SUFFICES ASSUME MacTableInv, AloneInv PROVE Chain = 1 .. head
  OBVIOUS
<1>. DEFINE W == Walk(head)
            S == {i \in 0 .. Len(heap) : W[i] = IF i <= head THEN head - i ELSE 0}
<1>0. TypeOK /\ OrderInv
  BY DEF MacTableInv
<1>1. /\ Len(heap) \in Nat /\ W[0] = head /\ head \in 0 .. Len(heap)
      /\ \A i \in 1 .. Len(heap) : W[i] = IF W[i - 1] = 0 THEN 0 ELSE heap[W[i - 1]].next
  BY <1>0, WalkSteps, LenProperties DEF TypeOK, NULL
<1>2. Chain = {W[i] : i \in 0 .. Len(heap)} \ {0}
  BY DEF Chain, NULL
<1>3. \A p \in 1 .. head : heap[p].next = p - 1
  BY DEF AloneInv
<1>. HIDE DEF W
<1>4. 0 \in S
  BY <1>1
<1>5. ASSUME NEW i \in 0 .. Len(heap), i \in S, i < Len(heap) PROVE i + 1 \in S
  <2>1. i + 1 \in 1 .. Len(heap) /\ i + 1 \in 0 .. Len(heap) /\ (i + 1) - 1 = i
    BY <1>1, <1>5
  <2>2. W[i + 1] = IF W[i] = 0 THEN 0 ELSE heap[W[i]].next
    BY <1>1, <2>1
  <2>3. W[i] = IF i <= head THEN head - i ELSE 0
    BY <1>5
  <2>4. CASE i < head
    <3>1. head - i \in 1 .. head /\ W[i] = head - i /\ W[i] # 0
      BY ONLY <1>1, <2>1, <2>3, <2>4
    <3>2. W[i + 1] = head - (i + 1) /\ i + 1 <= head
      BY ONLY <1>1, <1>3, <2>1, <2>2, <2>4, <3>1
    <3>. QED
      BY <2>1, <3>2
  <2>5. CASE ~ (i < head)
    <3>1. W[i] = 0 /\ (i + 1 <= head => FALSE)
      BY ONLY <1>1, <2>1, <2>3, <2>5
    <3>. QED
      BY <2>1, <2>2, <3>1
  <2>. QED
    BY <2>4, <2>5
<1>6. 0 .. Len(heap) \subseteq S
  <2>. HIDE DEF S
  <2>. QED
    BY <1>1, <1>4, <1>5, UpTo
<1>7. \A i \in 0 .. Len(heap) : W[i] = IF i <= head THEN head - i ELSE 0
  BY <1>6
<1>8. ASSUME NEW p \in 1 .. head PROVE p \in Chain
  <2>1. head - p \in 0 .. Len(heap) /\ head - p <= head /\ head - (head - p) = p /\ p # 0
    BY ONLY <1>1
  <2>2. W[head - p] = p
    BY ONLY <1>7, <2>1
  <2>. QED
    BY <1>2, <2>1, <2>2
<1>9. ASSUME NEW i \in 0 .. Len(heap), W[i] # 0 PROVE W[i] \in 1 .. head
  BY ONLY <1>1, <1>7, <1>9
<1>. QED
  BY <1>2, <1>8, <1>9

\* What the table knows of an address, by its entry.
TableInv ==
  /\ \A k \in Key : (\A p \in 1 .. head : heap[p].key # k) => Table[k] = Addresses!Unknown
  /\ \A p \in 1 .. head :
       Table[heap[p].key] = IF heap[p].valid
                            THEN Addresses!Learned(heap[p].port, heap[p].last_seen)
                            ELSE Addresses!Lapsed

\* The table is what the entries of the chain say.
LEMMA TableAlone == MacTableInv /\ AloneInv => TableInv
<1>. SUFFICES ASSUME MacTableInv, AloneInv PROVE TableInv
  OBVIOUS
<1>1. Chain = 1 .. head
  BY ChainAlone
<1>2. ASSUME NEW k \in Key, \A p \in 1 .. head : heap[p].key # k
      PROVE  Table[k] = Addresses!Unknown
  BY <1>1, <1>2 DEF Table, AddressOf, Addresses!Unknown
<1>3. ASSUME NEW p \in 1 .. head
      PROVE  Table[heap[p].key] = IF heap[p].valid
                                  THEN Addresses!Learned(heap[p].port, heap[p].last_seen)
                                  ELSE Addresses!Lapsed
  <2>1. p \in 1 .. Len(heap) /\ \A q \in 1 .. head : q \in 1 .. Len(heap)
    BY LenProperties DEF MacTableInv, TypeOK
  <2>2. heap[p].key \in Key
    <3>1. heap[p] \in Entry
      BY <2>1, ElementOfSeq DEF MacTableInv, TypeOK
    <3>. QED
      BY <3>1 DEF Entry
  <2>3. {q \in Chain : heap[q].key = heap[p].key} = {p}
    BY <1>1, <2>1 DEF AloneInv
  <2>4. Table[heap[p].key] = AddressOf(heap[p].key)
    BY <2>2 DEF Table
  <2>5. (CHOOSE q \in {p} : TRUE) = p /\ {p} # {}
    OBVIOUS
  <2>. QED
    BY <2>3, <2>4, <2>5 DEF AddressOf, Addresses!Learned, Addresses!Lapsed
<1>. QED
  BY <1>2, <1>3 DEF TableInv

\* A step that leaves what the linked entries say of an address leaves the table.
LEMMA SameTable ==
  ASSUME TypeOK, TableInv, TableInv', head' = head, head \in 0 .. Len(heap),
         \A p \in 1 .. head :
           /\ heap'[p].key = heap[p].key
           /\ heap'[p].valid <=> heap[p].valid
           /\ heap[p].valid => heap'[p].port = heap[p].port /\ heap'[p].last_seen = heap[p].last_seen
  PROVE  Table' = Table
<1>1. Table = [k \in Key |-> Table[k]] /\ Table' = [k \in Key |-> Table'[k]]
  BY DEF Table
<1>2. ASSUME NEW k \in Key PROVE Table'[k] = Table[k]
  <2>1. CASE \A p \in 1 .. head : heap[p].key # k
    BY <2>1 DEF TableInv, Addresses!Unknown
  <2>2. ASSUME NEW p \in 1 .. head, heap[p].key = k PROVE Table'[k] = Table[k]
    <3>0. /\ p \in 1 .. head' /\ heap'[p].key = k
          /\ Table[k] = IF heap[p].valid
                        THEN Addresses!Learned(heap[p].port, heap[p].last_seen)
                        ELSE Addresses!Lapsed
          /\ Table'[heap'[p].key] = IF heap'[p].valid
                                    THEN Addresses!Learned(heap'[p].port, heap'[p].last_seen)
                                    ELSE Addresses!Lapsed
      BY <2>2 DEF TableInv, Addresses!Learned, Addresses!Lapsed
    <3>1. CASE heap[p].valid
      <4>1. heap'[p].valid /\ heap'[p].port = heap[p].port /\ heap'[p].last_seen = heap[p].last_seen
        BY <3>1
      <4>. QED
        BY ONLY <3>0, <3>1, <4>1
    <3>2. CASE ~ heap[p].valid
      <4>1. ~ heap'[p].valid
        BY <3>2
      <4>. QED
        BY ONLY <3>0, <3>2, <4>1
    <3>. QED
      BY <3>1, <3>2
  <2>. QED
    BY <2>1, <2>2
<1>. QED
  BY <1>1, <1>2

\* An entry becomes known when it is linked, lapses when its flag is cleared, and an
\* answer is that of an entry that is known; no other access shows.
LEMMA StepImplements ==
  ASSUME MacTableInv, AloneInv, SearchInv, TableInv, MacTableInv', AloneInv', TableInv', [Next]_vars
  PROVE  [Addresses!Next]_<<now, Table, Asking, Answer>>
<1>. DEFINE Walking == {"walk", "age", "expire", "port"}
<1>0. TypeOK /\ GivenInv /\ OrderInv /\ Solo \in Worker /\ crew = {Solo}
  BY DEF MacTableInv, AloneInv
<1>1. /\ Answer = answer[Solo] /\ Answer' = answer'[Solo]
      /\ pc[Solo] \in Walking => Asking = Addresses!Asked(key[Solo], since[Solo])
      /\ pc[Solo] \notin Walking => Asking = Addresses!NoLookup
      /\ pc'[Solo] \in Walking => Asking' = Addresses!Asked(key'[Solo], since'[Solo])
      /\ pc'[Solo] \notin Walking => Asking' = Addresses!NoLookup
  <2>1. crew' = crew
    BY DEF Next, vars
  <2>2. Solo' = Solo
    BY <2>1 DEF Solo
  <2>. QED
    BY <2>2 DEF Answer, Asking, Addresses!Asked, Addresses!NoLookup
<1>. HIDE DEF Walking
<1>2. /\ Len(heap) \in Nat /\ head \in 0 .. Len(heap) /\ now \in Nat
      /\ \A p \in 1 .. head : p \in 1 .. Len(heap)
      /\ \A p \in 1 .. Len(heap) : heap[p] \in Entry
  BY <1>0, ElementOfSeq DEF TypeOK
<1>3. CASE UNCHANGED vars
  <2>1. UNCHANGED <<heap, head, now, answer, pc, key, since>>
    BY <1>3 DEF vars, locals
  <2>2. Table' = Table
    BY <1>0, <1>2, <2>1, SameTable
  <2>. QED
    BY <1>1, <2>1, <2>2
<1>4. CASE Tick
  <2>1. now' = now + 1 /\ UNCHANGED <<heap, head, answer, pc, key, since>>
    BY <1>4 DEF Tick, locals
  <2>2. Table' = Table
    BY <1>0, <1>2, <2>1, SameTable
  <2>3. Asking' = Asking
    BY <1>1, <2>1
  <2>. QED
    BY <1>1, <2>1, <2>2, <2>3 DEF Addresses!Next, Addresses!Tick
<1>6. ASSUME UNCHANGED <<head, now, answer>>, Asking' = Asking,
             \A p \in 1 .. head :
               /\ heap'[p].key = heap[p].key
               /\ heap'[p].valid <=> heap[p].valid
               /\ heap[p].valid => heap'[p].port = heap[p].port /\ heap'[p].last_seen = heap[p].last_seen
      PROVE  UNCHANGED <<now, Table, Asking, Answer>>
  <2>1. Table' = Table
    BY ONLY <1>0, <1>2, <1>6, SameTable, TableInv, TableInv'
  <2>. QED
    BY <1>1, <1>6, <2>1
<1>7. CASE Lookup(Solo)
  <2>. USE <1>0 DEF Goto
  <2>1. ASSUME NEW k \in Key, LookupCall(Solo, k) PROVE Addresses!Next
    <3>1. /\ pc[Solo] = "idle" /\ pc'[Solo] = "time" /\ UNCHANGED <<heap, head, now>>
          /\ answer' = [answer EXCEPT ![Solo] = NoPort]
      BY <2>1 DEF LookupCall, TypeOK
    <3>2. Table' = Table
      BY <1>2, <3>1, SameTable
    <3>3. Asking = Addresses!NoLookup /\ Asking' = Addresses!NoLookup
      BY <1>1, <3>1 DEF Walking
    <3>4. Answer' = NoPort
      BY <1>1, <3>1 DEF TypeOK
    <3>. QED
      BY <3>1, <3>2, <3>3, <3>4 DEF Addresses!Next, Addresses!Call
  <2>2. CASE LookupTime(Solo)
    <3>1. /\ pc[Solo] = "time" /\ pc'[Solo] = "walk" /\ since'[Solo] = now
          /\ key'[Solo] = key[Solo] /\ UNCHANGED <<heap, head, now, answer>>
      BY <2>2 DEF LookupTime, TypeOK
    <3>2. Table' = Table
      BY <1>2, <3>1, SameTable
    <3>3. Asking = Addresses!NoLookup /\ Asking' = Addresses!Asked(key[Solo], now)
      BY <1>1, <3>1 DEF Walking
    <3>4. key[Solo] \in Key
      BY DEF TypeOK
    <3>. QED
      BY <1>1, <3>1, <3>2, <3>3, <3>4 DEF Addresses!Next, Addresses!Ask
  <2>3. CASE LookupWalk(Solo) \/ LookupAge(Solo)
    <3>1. /\ pc[Solo] \in {"walk", "age"} /\ pc'[Solo] \in {"walk", "age", "expire", "port"}
          /\ UNCHANGED <<heap, head, now, answer, key, since>>
      BY <2>3 DEF LookupWalk, LookupAge, TypeOK
    <3>2. Asking' = Asking
      BY <1>1, <3>1 DEF Walking
    <3>. QED
      BY <1>6, <3>1, <3>2
  <2>6. CASE GiveUp(Solo)
    <3>1. /\ pc[Solo] = "missed" /\ pc'[Solo] = "idle"
          /\ UNCHANGED <<heap, head, now, answer, key, since>>
      BY <2>6 DEF GiveUp, TypeOK
    <3>2. Asking' = Asking
      BY <1>1, <3>1 DEF Walking
    <3>. QED
      BY <1>6, <3>1, <3>2
  <2>7. CASE LookupEnd(Solo)
    <3>. DEFINE k == key[Solo]
    <3>1. /\ pc[Solo] = "walk" /\ pc'[Solo] = "missed" /\ cur[Solo] = 0
          /\ answer' = [answer EXCEPT ![Solo] = NoPort] /\ UNCHANGED <<heap, head, now>>
      BY <2>7 DEF LookupEnd, Return, TypeOK, NULL
    <3>2. Table' = Table
      BY <1>2, <3>1, SameTable
    <3>3. Asking = Addresses!Asked(k, since[Solo]) /\ Asking' = Addresses!NoLookup
      BY <1>1, <3>1 DEF Walking
    <3>4. k \in Key /\ Answer' = NoPort
      BY <1>1, <3>1 DEF TypeOK
    <3>5. Table[k].state # "learned"
      <4>1. \A p \in 1 .. head : heap[p].key = k => ~ heap[p].valid
        <5>1. \A p \in 1 .. head : p > 0
          BY <1>2
        <5>. QED
          BY <3>1, <5>1 DEF SearchInv
      <4>2. CASE \A p \in 1 .. head : heap[p].key # k
        BY <3>4, <4>2 DEF TableInv, Addresses!Unknown
      <4>3. ASSUME NEW p \in 1 .. head, heap[p].key = k PROVE Table[k].state # "learned"
        <5>1. Table[k] = Addresses!Lapsed
          BY <4>1, <4>3 DEF TableInv
        <5>. QED
          BY ONLY <5>1 DEF Addresses!Lapsed
      <4>. QED
        BY <4>2, <4>3
    <3>6. Addresses!Miss(k)
      BY <3>1, <3>2, <3>3, <3>4, <3>5 DEF Addresses!Miss, Addresses!Answered, Addresses!Asked
    <3>. QED
      BY <3>4, <3>6 DEF Addresses!Next
  <2>4. CASE LookupExpire(Solo)
    <3>. DEFINE e == cur[Solo]
                k == heap[e].key
    <3>1. /\ pc[Solo] = "expire" /\ UNCHANGED <<head, now>>
          /\ answer' = [answer EXCEPT ![Solo] = NoPort] /\ pc'[Solo] = "missed"
          /\ k = key[Solo]
      BY <2>4 DEF LookupExpire, Return, GivenInv, TypeOK
    <3>2. e # NULL /\ e \in 1 .. head /\ since[Solo] - heap[e].last_seen > TTL /\ heap[e].valid
          /\ since[Solo] <= now
      <4>1. e # 0 /\ e \in 0 .. Len(heap)
        BY <1>0, <3>1, Pointers DEF GivenInv, NULL
      <4>2. /\ e <= head /\ since[Solo] - heap[e].last_seen > TTL /\ heap[e].valid
            /\ since[Solo] <= now
        BY <3>1 DEF SearchInv, AloneInv
      <4>3. e \in 1 .. head
        BY ONLY <1>2, <4>1, <4>2
      <4>. QED
        BY <4>1, <4>2, <4>3 DEF NULL
    <3>3. \A p \in 1 .. Len(heap) :
            /\ heap'[p].key = heap[p].key /\ heap'[p].port = heap[p].port
            /\ heap'[p].last_seen = heap[p].last_seen
            /\ heap'[p].valid <=> p # e /\ heap[p].valid
      BY <1>0, <2>4, <3>2, Expires
    <3>4. k \in Key /\ heap[e].last_seen \in Nat /\ since[Solo] \in Nat /\ TTL \in Nat
      BY <1>0, <1>2, <3>2, MacTableAssumption DEF Entry, TypeOK
    <3>5. Table[k] = Addresses!Learned(heap[e].port, heap[e].last_seen)
      BY <3>2 DEF TableInv
    <3>6. Asking = Addresses!Asked(k, since[Solo]) /\ Asking' = Addresses!NoLookup
      BY <1>1, <3>1 DEF Walking
    <3>7. Table'[k] = Addresses!Lapsed
      <4>1. e \in 1 .. head' /\ heap'[e].key = k /\ ~ heap'[e].valid
        BY <1>2, <3>1, <3>2, <3>3
      <4>2. Table'[heap'[e].key] = IF heap'[e].valid
                                   THEN Addresses!Learned(heap'[e].port, heap'[e].last_seen)
                                   ELSE Addresses!Lapsed
        BY <4>1 DEF TableInv, Addresses!Learned, Addresses!Lapsed
      <4>. QED
        BY ONLY <4>1, <4>2
    <3>8. ASSUME NEW j \in Key, j # k PROVE Table'[j] = Table[j]
      <4>1. CASE \A p \in 1 .. head : heap[p].key # j
        BY <1>2, <3>1, <3>3, <4>1 DEF TableInv, Addresses!Unknown
      <4>2. ASSUME NEW p \in 1 .. head, heap[p].key = j PROVE Table'[j] = Table[j]
        <5>1. /\ p \in 1 .. head' /\ heap'[p].key = j /\ heap'[p].port = heap[p].port
              /\ heap'[p].last_seen = heap[p].last_seen
              /\ heap'[p].valid <=> heap[p].valid
          BY <1>2, <3>1, <3>3, <3>8, <4>2
        <5>2. /\ Table[j] = IF heap[p].valid
                            THEN Addresses!Learned(heap[p].port, heap[p].last_seen)
                            ELSE Addresses!Lapsed
              /\ Table'[j] = IF heap'[p].valid
                             THEN Addresses!Learned(heap'[p].port, heap'[p].last_seen)
                             ELSE Addresses!Lapsed
          BY <4>2, <5>1 DEF TableInv, Addresses!Learned, Addresses!Lapsed
        <5>. QED
          BY ONLY <5>1, <5>2
      <4>. QED
        BY <4>1, <4>2
    <3>9. Table' = [Table EXCEPT ![k] = Addresses!Lapsed]
      <4>1. Table = [j \in Key |-> Table[j]] /\ Table' = [j \in Key |-> Table'[j]]
        BY DEF Table
      <4>. QED
        BY ONLY <3>4, <3>7, <3>8, <4>1
    <3>10. Answer' = NoPort
      BY <1>0, <1>1, <3>1 DEF TypeOK
    <3>11. Addresses!Lapse(k)
      <4>1. Table[k].state = "learned" /\ Table[k].time = heap[e].last_seen
        BY <3>5 DEF Addresses!Learned
      <4>. QED
        BY <3>1, <3>2, <3>6, <3>9, <3>10, <4>1
           DEF Addresses!Lapse, Addresses!Answered, Addresses!Age, Addresses!Asked
    <3>. QED
      BY <3>4, <3>11 DEF Addresses!Next
  <2>5. CASE LookupPort(Solo)
    <3>. DEFINE e == cur[Solo]
                k == heap[e].key
    <3>1. /\ pc[Solo] = "port" /\ UNCHANGED <<heap, head, now>>
          /\ answer' = [answer EXCEPT ![Solo] = heap[e].port] /\ k = key[Solo]
      BY <2>5 DEF LookupPort, Return, GivenInv
    <3>2. e \in 1 .. head /\ heap[e].valid /\ since[Solo] - heap[e].last_seen <= TTL
      <4>1. e # 0 /\ e \in 0 .. Len(heap)
        BY <1>0, <3>1, Pointers DEF GivenInv, NULL
      <4>2. e <= head /\ heap[e].valid /\ since[Solo] - heap[e].last_seen <= TTL
        BY <3>1 DEF SearchInv
      <4>. QED
        BY ONLY <1>2, <4>1, <4>2
    <3>3. k \in Key /\ heap[e].port # NoPort
      BY <1>2, <3>2, MacTableAssumption DEF Entry
    <3>4. /\ Table[k].state = "learned" /\ Table[k].port = heap[e].port
          /\ Table[k].time = heap[e].last_seen
      <4>1. Table[k] = Addresses!Learned(heap[e].port, heap[e].last_seen)
        BY <3>2 DEF TableInv
      <4>. QED
        BY ONLY <4>1 DEF Addresses!Learned
    <3>5. Table' = Table
      BY <1>0, <1>2, <3>1, SameTable
    <3>6. Answer' = heap[e].port
      BY <1>0, <1>1, <3>1 DEF TypeOK
    <3>7. pc'[Solo] = "idle"
      BY <2>5, <3>3 DEF LookupPort, Return, TypeOK
    <3>8. Asking = Addresses!Asked(k, since[Solo]) /\ Asking' = Addresses!NoLookup
      BY <1>1, <3>1, <3>7 DEF Walking
    <3>9. Addresses!Resolve(k)
      BY <3>1, <3>2, <3>4, <3>5, <3>6, <3>8
         DEF Addresses!Resolve, Addresses!Answered, Addresses!Age, Addresses!Asked
    <3>. QED
      BY <3>3, <3>9 DEF Addresses!Next
  <2>. QED
    BY <1>7, <2>1, <2>2, <2>3, <2>4, <2>5, <2>6, <2>7 DEF Lookup
<1>8. CASE Insert(Solo)
  <2>0. Asking = Addresses!NoLookup /\ Asking' = Addresses!NoLookup
    <3>1. pc[Solo] \in {"missed", "find", "setport", "setseen", "next", "link", "count"}
      BY <1>8 DEF Insert, InsertCall, InsertFind, InsertPort, InsertSeen, InsertNew,
                  InsertNext, InsertLink, InsertCount
    <3>2. pc'[Solo] \in {"idle", "find", "setport", "setseen", "next", "link", "count"}
      BY <1>0, <1>8 DEF Insert, InsertCall, InsertFind, InsertPort, InsertSeen, InsertNew,
                  InsertNext, InsertLink, InsertCount, InsertReturn, Goto, TypeOK
    <3>. QED
      BY <1>1, <3>1, <3>2 DEF Walking
  <2>1. CASE InsertFind(Solo) \/ InsertCount(Solo) \/ \E p \in Port : InsertCall(Solo, p)
    <3>1. UNCHANGED <<heap, head, now, answer>>
      BY <2>1 DEF InsertFind, InsertCount, InsertReturn, InsertCall
    <3>. QED
      BY <1>6, <2>0, <3>1
  <2>2. CASE InsertPort(Solo)
    <3>1. pc[Solo] = "setport" /\ UNCHANGED <<head, now, answer>>
      BY <2>2 DEF InsertPort
    <3>2. cur[Solo] # NULL /\ port[Solo] \in Port /\ heap[cur[Solo]].key = key[Solo]
      BY <1>0, <3>1 DEF GivenInv, TypeOK
    <3>3. \A p \in 1 .. Len(heap) :
            /\ heap'[p].key = heap[p].key /\ heap'[p].last_seen = heap[p].last_seen
            /\ heap'[p].valid = heap[p].valid
            /\ p # cur[Solo] => heap'[p].port = heap[p].port
      BY <1>0, <2>2, <3>2, Moves
    <3>4. \A p \in 1 .. head : heap[p].valid => p # cur[Solo]
      BY <3>1, <3>2 DEF SearchInv
    <3>. QED
      BY <1>2, <1>6, <2>0, <3>1, <3>3, <3>4
  <2>3. CASE InsertSeen(Solo)
    <3>1. pc[Solo] = "setseen" /\ UNCHANGED <<head, now, answer>>
      BY <2>3 DEF InsertSeen, InsertReturn
    <3>2. cur[Solo] # NULL /\ heap[cur[Solo]].key = key[Solo]
      BY <1>0, <3>1 DEF GivenInv
    <3>3. \A p \in 1 .. Len(heap) :
            /\ heap'[p].key = heap[p].key /\ heap'[p].port = heap[p].port
            /\ heap'[p].valid = heap[p].valid
            /\ p # cur[Solo] => heap'[p].last_seen = heap[p].last_seen
      BY <1>0, <2>3, <3>2, Seen
    <3>4. \A p \in 1 .. head : heap[p].valid => p # cur[Solo]
      BY <3>1, <3>2 DEF SearchInv
    <3>. QED
      BY <1>2, <1>6, <2>0, <3>1, <3>3, <3>4
  <2>4. CASE InsertNew(Solo)
    <3>1. pc[Solo] = "find" /\ UNCHANGED <<head, now, answer>>
      BY <2>4 DEF InsertNew
    <3>2. port[Solo] \in Port
      BY <1>0, <3>1 DEF GivenInv, TypeOK
    <3>3. \A p \in 1 .. Len(heap) : heap'[p] = heap[p]
      BY <1>0, <2>4, <3>2, NewEntry
    <3>. QED
      BY <1>2, <1>6, <2>0, <3>1, <3>3
  <2>5. CASE InsertNext(Solo)
    <3>1. pc[Solo] = "next" /\ UNCHANGED <<head, now, answer>>
      BY <2>5 DEF InsertNext
    <3>2. cur[Solo] # NULL
      BY <1>0, <3>1 DEF GivenInv
    <3>3. \A p \in 1 .. Len(heap) :
            /\ heap'[p].key = heap[p].key /\ heap'[p].port = heap[p].port
            /\ heap'[p].valid = heap[p].valid /\ heap'[p].last_seen = heap[p].last_seen
      BY <1>0, <2>5, <3>2, Links
    <3>. QED
      BY <1>2, <1>6, <2>0, <3>1, <3>3
  <2>6. CASE InsertLink(Solo)
    <3>. DEFINE e == Len(heap)
                k == heap[e].key
    <3>1. pc[Solo] = "link" /\ head' = cur[Solo] /\ UNCHANGED <<heap, now, answer>>
      BY <2>6 DEF InsertLink
    <3>2. head' = e /\ head = e - 1 /\ heap[e].valid /\ e >= 1
      <4>1. head' = e /\ head = e - 1 /\ heap[e].valid
        BY <3>1 DEF AloneInv, SearchInv
      <4>. QED
        BY ONLY <1>2, <4>1
    <3>3. /\ k \in Key /\ heap[e].port \in Port /\ heap[e].last_seen \in 0 .. now
      <4>1. heap[e] \in Entry /\ heap[e].last_seen <= now
        BY <1>2, <3>2 DEF AloneInv
      <4>. QED
        BY <1>2, <4>1 DEF Entry
    <3>4. Table[k] = Addresses!Unknown
      <4>1. \A p \in 1 .. head : p \in 1 .. e /\ e \in 1 .. e /\ p # e
        BY ONLY <1>2, <3>2
      <4>2. \A p \in 1 .. head : heap[p].key # k
        BY <4>1 DEF AloneInv
      <4>. QED
        BY <3>3, <4>2 DEF TableInv
    <3>5. Table'[k] = Addresses!Learned(heap[e].port, heap[e].last_seen)
      <4>1. e \in 1 .. head'
        BY ONLY <1>2, <3>2
      <4>2. Table'[heap'[e].key] = IF heap'[e].valid
                                   THEN Addresses!Learned(heap'[e].port, heap'[e].last_seen)
                                   ELSE Addresses!Lapsed
        BY <4>1 DEF TableInv, Addresses!Learned, Addresses!Lapsed
      <4>. QED
        BY ONLY <3>1, <3>2, <4>2
    <3>6. ASSUME NEW j \in Key, j # k PROVE Table'[j] = Table[j]
      <4>0. \A p \in 1 .. head' : p \in 1 .. head \/ p = e
        BY ONLY <1>2, <3>2
      <4>1. CASE \A p \in 1 .. head : heap[p].key # j
        <5>1. \A p \in 1 .. head' : heap'[p].key # j
          BY <3>1, <3>6, <4>0, <4>1
        <5>. QED
          BY <4>1, <5>1 DEF TableInv, Addresses!Unknown
      <4>2. ASSUME NEW p \in 1 .. head, heap[p].key = j PROVE Table'[j] = Table[j]
        <5>1. p \in 1 .. head'
          BY ONLY <1>2, <3>2, <4>2
        <5>2. /\ Table[j] = IF heap[p].valid
                            THEN Addresses!Learned(heap[p].port, heap[p].last_seen)
                            ELSE Addresses!Lapsed
              /\ Table'[heap'[p].key] = IF heap'[p].valid
                             THEN Addresses!Learned(heap'[p].port, heap'[p].last_seen)
                             ELSE Addresses!Lapsed
          BY <4>2, <5>1 DEF TableInv, Addresses!Learned, Addresses!Lapsed
        <5>. QED
          BY ONLY <3>1, <4>2, <5>2
      <4>. QED
        BY <4>1, <4>2
    <3>7. Table' = [Table EXCEPT ![k] = Addresses!Learned(heap[e].port, heap[e].last_seen)]
      <4>1. Table = [j \in Key |-> Table[j]] /\ Table' = [j \in Key |-> Table'[j]]
        BY DEF Table
      <4>. QED
        BY ONLY <3>3, <3>5, <3>6, <4>1
    <3>8. Addresses!Insert(k, heap[e].port)
      BY <1>1, <2>0, <3>1, <3>3, <3>4, <3>7 DEF Addresses!Insert
    <3>. QED
      BY <3>3, <3>8 DEF Addresses!Next
  <2>. QED
    BY <1>8, <2>1, <2>2, <2>3, <2>4, <2>5, <2>6 DEF Insert
<1>. QED
  BY <1>0, <1>3, <1>4, <1>7, <1>8 DEF Next

\* The invariant of a table that only one worker uses.
LEMMA AloneInvariance == Spec => [](Alone => AloneInv /\ SearchInv /\ TableInv)
<1>. DEFINE I == MacTableInv /\ (Alone => AloneInv /\ SearchInv)
<1>1. Init => I
  BY InitMacTableInv, InitAlone
<1>2. I /\ [Next]_vars => I'
  <2>. SUFFICES ASSUME I, [Next]_vars PROVE I'
    OBVIOUS
  <2>1. MacTableInv'
    BY MacTableStep
  <2>2. Alone' => Alone
    BY DEF Alone, Next, vars
  <2>. QED
    BY <2>1, <2>2, StepAlone
<1>3. I => (Alone => TableInv)
  BY TableAlone
<1>. QED
  BY <1>1, <1>2, <1>3, PTL DEF Spec

\* A switch with one worker resolves addresses as AddressTable says: each step of a
\* lookup or an insertion is one step of that table, or none (mac_table_lookup,
\* mac_table_insert).
THEOREM TableOfOneWorker == Spec => ImplementsAddressTable
<1>. DEFINE I == MacTableInv /\ (Alone => AloneInv /\ SearchInv /\ TableInv)
<1>1. Init => (Alone => Addresses!Init)
  <2>. SUFFICES ASSUME Init, Alone PROVE Addresses!Init
    OBVIOUS
  <2>1. AloneInv /\ TableInv
    BY InitMacTableInv, InitAlone, TableAlone
  <2>2. head = 0 /\ now = 0 /\ Answer = NoPort /\ Asking = Addresses!NoLookup
    BY <2>1 DEF Init, NULL, AloneInv, Answer, Asking, Addresses!NoLookup
  <2>3. \A k \in Key : Table[k] = Addresses!Unknown
    BY <2>1, <2>2 DEF TableInv
  <2>4. Table = [k \in Key |-> Addresses!Unknown]
    <3>1. Table = [k \in Key |-> Table[k]]
      BY DEF Table
    <3>. QED
      BY ONLY <2>3, <3>1
  <2>. QED
    BY <2>2, <2>4 DEF Addresses!Init
<1>2. I /\ I' /\ [Next]_vars => [Alone => Addresses!Next]_<<now, Table, Asking, Answer>>
  <2>. SUFFICES ASSUME I, I', [Next]_vars, Alone PROVE [Addresses!Next]_<<now, Table, Asking, Answer>>
    OBVIOUS
  <2>1. Alone'
    BY DEF Alone, Next, vars
  <2>. QED
    BY <2>1, StepImplements
<1>3. Spec => []I
  BY MacTableInvariance, AloneInvariance, PTL
<1>. QED
  BY <1>1, <1>2, <1>3, PTL DEF Spec, ImplementsAddressTable
===============================================================================
