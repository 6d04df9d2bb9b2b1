-------------------------------- MODULE MacTable --------------------------------
(***************************************************************************)
(* One bucket of mac_table_t (src/control_plane/hash_table.c): a chain of  *)
(* entries that the workers search and extend at the same time without a   *)
(* lock.  Every shared access of mac_table_lookup and mac_table_insert is  *)
(* a step.  Keys are the (mac, vlan) pairs that hash to the bucket.        *)
(*                                                                         *)
(* A worker looks an address up and, when that fails and the address is    *)
(* the source of a frame, inserts it (thread_pool.c:85-95).                *)
(***************************************************************************)
EXTENDS Integers, Sequences, FiniteSets

CONSTANTS Worker,    \* the threads that may share the table
          Crew,      \* the sets of them that may have been started
          Key,       \* the addresses of the bucket
          Port,      \* port numbers
          NoPort,    \* -1
          TTL,       \* ENTRY_TTL
          MaxTime,   \* bound: seconds that pass, by the number of threads
          MaxCalls   \* bound: lookups in all, likewise

ASSUME MacTableAssumption ==
  /\ NoPort \notin Port /\ TTL \in Nat /\ Key # {}
  /\ IsFiniteSet(Worker) /\ Crew \subseteq SUBSET Worker \ {{}}

NULL == 0

VARIABLES
  crew,                 \* the threads of this switch
  now,                  \* time(NULL)
  heap, head,           \* the entries ever allocated, buckets[idx]
  size,                 \* table->size
  pc, key, port,        \* per worker: where it is, and the arguments
  cur, since,           \* entry; now of a lookup
  answer,               \* result of the worker's last lookup
  given,                \* which ports were inserted for which address
  calls

locals == <<pc, key, port, cur, since>>
vars == <<crew, now, heap, head, size, locals, answer, given, calls>>

Entry == [key : Key, port : Port, last_seen : Nat, valid : BOOLEAN, next : Nat]

Init == /\ crew \in Crew /\ now = 0 /\ heap = << >> /\ head = NULL /\ size = 0
        /\ pc = [w \in Worker |-> "idle"]
        /\ key = [w \in Worker |-> CHOOSE k \in Key : TRUE]
        /\ port = [w \in Worker |-> NoPort]
        /\ cur = [w \in Worker |-> NULL] /\ since = [w \in Worker |-> 0]
        /\ answer = [w \in Worker |-> NoPort]
        /\ given = {} /\ calls = 0

Tick == /\ now < MaxTime[Cardinality(crew)] /\ now' = now + 1
        /\ UNCHANGED <<heap, head, size, locals, answer, given, calls>>

Goto(w, l) == pc' = [pc EXCEPT ![w] = l]

Set(w, field, value) == heap' = [heap EXCEPT ![cur[w]][field] = value]

-------------------------------------------------------------------------------
(* mac_table_lookup *)

\* entry = table->buckets[idx]
LookupCall(w, k) == /\ pc[w] = "idle" /\ calls < MaxCalls[Cardinality(crew)]
                    /\ calls' = calls + 1
                    /\ key' = [key EXCEPT ![w] = k]
                    /\ cur' = [cur EXCEPT ![w] = head]
                    /\ answer' = [answer EXCEPT ![w] = NoPort]
                    /\ Goto(w, "time")
                    /\ UNCHANGED <<now, heap, head, size, port, since, given>>

LookupTime(w) == /\ pc[w] = "time"
                 /\ since' = [since EXCEPT ![w] = now]
                 /\ Goto(w, "walk")
                 /\ UNCHANGED <<now, heap, head, size, key, port, cur, answer, given, calls>>

\* The lookup returns p; on -1 the caller may go on to insert.
Return(w, p) == /\ answer' = [answer EXCEPT ![w] = p]
                /\ Goto(w, IF p = NoPort THEN "missed" ELSE "idle")
                /\ cur' = [cur EXCEPT ![w] = NULL]
                /\ since' = [since EXCEPT ![w] = 0]
                /\ UNCHANGED <<now, head, size, key, port, given, calls>>

LookupEnd(w) == /\ pc[w] = "walk" /\ cur[w] = NULL
                /\ Return(w, NoPort)
                /\ UNCHANGED heap

Matches(w) == heap[cur[w]].key = key[w]

LookupWalk(w) ==
  /\ pc[w] = "walk" /\ cur[w] # NULL
  /\ IF Matches(w) /\ heap[cur[w]].valid
     THEN Goto(w, "age") /\ UNCHANGED cur
     ELSE cur' = [cur EXCEPT ![w] = heap[cur[w]].next] /\ UNCHANGED pc
  /\ UNCHANGED <<now, heap, head, size, key, port, since, answer, given, calls>>

\* Mutation of LookupAge: an entry lapses one second early.
LookupAgeEarly(w) ==
  /\ pc[w] = "age"
  /\ Goto(w, IF since[w] - heap[cur[w]].last_seen >= TTL THEN "expire" ELSE "port")
  /\ UNCHANGED <<now, heap, head, size, key, port, cur, since, answer, given, calls>>

LookupAge(w) ==
  /\ pc[w] = "age"
  /\ Goto(w, IF since[w] - heap[cur[w]].last_seen > TTL THEN "expire" ELSE "port")
  /\ UNCHANGED <<now, heap, head, size, key, port, cur, since, answer, given, calls>>

LookupExpire(w) == /\ pc[w] = "expire"
                   /\ Set(w, "valid", FALSE)
                   /\ Return(w, NoPort)

\* Mutation of LookupPort: the port of the head of the chain.
LookupHeadPort(w) == /\ pc[w] = "port"
                     /\ Return(w, heap[head].port)
                     /\ UNCHANGED heap

LookupPort(w) == /\ pc[w] = "port"
                 /\ Return(w, heap[cur[w]].port)
                 /\ UNCHANGED heap

\* The address was the destination of the frame.
GiveUp(w) == /\ pc[w] = "missed" /\ Goto(w, "idle")
             /\ UNCHANGED <<now, heap, head, size, key, port, cur, since, answer,
                            given, calls>>

-------------------------------------------------------------------------------
(* mac_table_insert *)

InsertCall(w, p) == /\ pc[w] = "missed"
                    /\ port' = [port EXCEPT ![w] = p]
                    /\ given' = given \cup {<<key[w], p>>}
                    /\ cur' = [cur EXCEPT ![w] = head]
                    /\ Goto(w, "find")
                    /\ UNCHANGED <<now, heap, head, size, key, since, answer, calls>>

InsertFind(w) ==
  /\ pc[w] = "find" /\ cur[w] # NULL
  /\ IF Matches(w)
     THEN Goto(w, "setport") /\ UNCHANGED cur
     ELSE cur' = [cur EXCEPT ![w] = heap[cur[w]].next] /\ UNCHANGED pc
  /\ UNCHANGED <<now, heap, head, size, key, port, since, answer, given, calls>>

InsertPort(w) == /\ pc[w] = "setport"
                 /\ Set(w, "port", port[w])
                 /\ Goto(w, "setseen")
                 /\ UNCHANGED <<now, head, size, key, port, cur, since, answer, given, calls>>

InsertReturn(w) == /\ Goto(w, "idle")
                   /\ cur' = [cur EXCEPT ![w] = NULL]
                   /\ port' = [port EXCEPT ![w] = NoPort]
                   /\ UNCHANGED <<now, head, key, since, answer, given, calls>>

InsertSeen(w) == /\ pc[w] = "setseen"
                 /\ Set(w, "last_seen", now)
                 /\ InsertReturn(w)
                 /\ UNCHANGED size

\* calloc and the fields: nobody else sees the entry yet.
InsertNew(w) ==
  /\ pc[w] = "find" /\ cur[w] = NULL
  /\ heap' = Append(heap, [key |-> key[w], port |-> port[w], last_seen |-> now,
                           valid |-> TRUE, next |-> NULL])
  /\ cur' = [cur EXCEPT ![w] = Len(heap) + 1]
  /\ Goto(w, "next")
  /\ UNCHANGED <<now, head, size, key, port, since, answer, given, calls>>

\* Mutation of InsertNext: the new entry is linked to itself.
InsertNextSelf(w) ==
  /\ pc[w] = "next"
  /\ Set(w, "next", cur[w])
  /\ Goto(w, "link")
  /\ UNCHANGED <<now, head, size, key, port, cur, since, answer, given, calls>>

InsertNext(w) == /\ pc[w] = "next"
                 /\ Set(w, "next", head)
                 /\ Goto(w, "link")
                 /\ UNCHANGED <<now, head, size, key, port, cur, since, answer, given, calls>>

\* Mutation of InsertLink: the bucket gets the slot after the new entry.
InsertLinkBeyond(w) ==
  /\ pc[w] = "link"
  /\ head' = cur[w] + 1
  /\ Goto(w, "count")
  /\ UNCHANGED <<now, heap, size, key, port, cur, since, answer, given, calls>>

InsertLink(w) == /\ pc[w] = "link"
                 /\ head' = cur[w]
                 /\ Goto(w, "count")
                 /\ UNCHANGED <<now, heap, size, key, port, cur, since, answer, given, calls>>

\* Mutation of InsertCount: entries are not counted.
InsertUncounted(w) == /\ pc[w] = "count"
                      /\ InsertReturn(w)
                      /\ UNCHANGED <<heap, size>>

InsertCount(w) == /\ pc[w] = "count"
                  /\ size' = size + 1
                  /\ InsertReturn(w)
                  /\ UNCHANGED heap

-------------------------------------------------------------------------------
Lookup(w) == \/ \E k \in Key : LookupCall(w, k)
             \/ LookupTime(w) \/ LookupEnd(w) \/ LookupWalk(w) \/ LookupAge(w)
             \/ LookupExpire(w) \/ LookupPort(w) \/ GiveUp(w)

Insert(w) == \/ \E p \in Port : InsertCall(w, p)
             \/ InsertFind(w) \/ InsertPort(w) \/ InsertSeen(w) \/ InsertNew(w)
             \/ InsertNext(w) \/ InsertLink(w) \/ InsertCount(w)

Next == /\ Tick \/ \E w \in crew : Lookup(w) \/ Insert(w)
        /\ crew' = crew

Spec == Init /\ [][Next]_vars

-------------------------------------------------------------------------------
(* Properties *)

\* Type correctness.
TypeOK ==
  /\ crew \in Crew /\ now \in Nat /\ heap \in Seq(Entry) /\ size \in Nat /\ calls \in Nat
  /\ head \in 0 .. Len(heap)
  /\ pc \in [Worker -> {"idle", "time", "walk", "age", "expire", "port", "missed",
                        "find", "setport", "setseen", "next", "link", "count"}]
  /\ key \in [Worker -> Key] /\ port \in [Worker -> Port \cup {NoPort}]
  /\ cur \in [Worker -> 0 .. Len(heap)] /\ since \in [Worker -> Nat]
  /\ answer \in [Worker -> Port \cup {NoPort}]
  /\ given \subseteq Key \X Port

\* The pointers met from p on: the first is p, NULL ends the walk.
Walk(p) ==
  LET step[i \in 0 .. Len(heap)] ==
        IF i = 0 THEN p ELSE IF step[i - 1] = NULL THEN NULL ELSE heap[step[i - 1]].next
  IN step

Chain == {Walk(head)[i] : i \in 0 .. Len(heap)} \ {NULL}

\* However insertions interleave, no walk ever goes round in a circle: from any
\* entry a worker may hold, NULL is at most Len(heap) steps away.
WalksEnd == \A p \in 0 .. Len(heap) : Walk(p)[Len(heap)] = NULL

\* An address is never resolved to a port that was inserted for another one, nor
\* to one nobody inserted.
AnswersAreGiven ==
  \A w \in Worker : answer[w] # NoPort => <<key[w], answer[w]>> \in given

\* size never falls behind the chain: it misses only what is about to be counted.
SizeBoundsChain ==
  Cardinality(Chain) <= size + Cardinality({w \in Worker : pc[w] = "count"})

\* An address that was inserted can be resolved for TTL seconds: when the
\* insertion is done, its entry is in the chain and valid, or too old by then.
Resolvable(k) ==
  \E p \in Chain : /\ heap[p].key = k
                   /\ heap[p].valid \/ now - heap[p].last_seen > TTL

InsertResolves ==
  [][\A w \in Worker : InsertSeen(w) \/ InsertCount(w) => Resolvable(key[w])']_vars

\* The chain as the table that AddressTable describes.
AddressOf(k) ==
  LET mine == {p \in Chain : heap[p].key = k}
  IN IF mine = {} THEN [state |-> "unknown"]
     ELSE LET e == heap[CHOOSE p \in mine : TRUE]
          IN IF e.valid THEN [state |-> "learned", port |-> e.port, time |-> e.last_seen]
             ELSE [state |-> "lapsed"]

Alone == Cardinality(crew) = 1
Solo == CHOOSE w \in crew : TRUE
Table == [k \in Key |-> AddressOf(k)]
Answer == answer[Solo]
Asking == IF pc[Solo] \in {"walk", "age", "expire", "port"}
          THEN [state |-> "asked", key |-> key[Solo], since |-> since[Solo]]
          ELSE [state |-> "none"]

Addresses == INSTANCE AddressTable WITH table <- Table, lookup <- Asking, answer <- Answer

\* A switch with one worker implements it, every step of a lookup or an insertion
\* being one step of the table, or none: an address is resolved, to the port it was
\* last learned on, exactly if it is known and at most TTL seconds old when the
\* lookup reads the clock; it lapses exactly if it is older, and comes back only by
\* an insertion (of which the table does not say that it must succeed:
\* InsertResolves does).
ImplementsAddressTable ==
  /\ Alone => Addresses!Init
  /\ [][Alone => Addresses!Next]_<<now, Table, Asking, Answer>>
===============================================================================
