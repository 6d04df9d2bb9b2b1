------------------------------- MODULE FlowTable -------------------------------
(***************************************************************************)
(* flow_table.c: the flows are kept twice, in the chains of a hash table   *)
(* for exact lookups and in a trie of bits for prefixes.                   *)
(*                                                                         *)
(* A flow is its number, in the order of insertion.  It lies in a chunk of *)
(* memory, as the inner nodes of the trie do, and the links of the trie    *)
(* are addresses: calloc may hand out any chunk that is not in use, one    *)
(* that was freed included, or none at all.  flow_table_delete frees what  *)
(* the trie may still point to: `stale' is what becomes of memory that is  *)
(* used after that, and nothing is said of what follows; `reused' is that  *)
(* such a chunk was handed out again before it was used.                   *)
(***************************************************************************)
EXTENDS Integers, Sequences, FiniteSets, SequencesExt

CONSTANTS Key,       \* keys: [field, mask]; masks are compared, and that is all
          MaxLength, \* bound: bits of a field, which the code has in eights
          Bucket,    \* hash_function, by field
          Chunk,     \* memory that calloc hands out
          NULL,
          MaxFlows   \* bound: flows that are inserted

Bit == {0, 1}
Field == UNION {[1 .. n -> Bit] : n \in 0 .. MaxLength}

ASSUME FlowTableAssumption ==
  /\ MaxLength \in Nat /\ MaxFlows \in Nat /\ DOMAIN Bucket = Field
  /\ \A k \in Key : k.field \in Field
  /\ NULL \notin Chunk

Nothing == 0
Inner == -1
Entry == [key : Key, action_length : {0, 1}]

VARIABLES
  entries,     \* every flow that was inserted
  hash_table,  \* the flows of each bucket, newest first
  memory,      \* what is in each chunk: a flow, an inner node or nothing
  trie_root,
  freed,       \* flows that were deleted
  call,        \* the call that is walking the trie
  unfinished,  \* flows whose insertion returned -1
  answer,      \* what the last lookup returned
  stale,       \* a freed flow was read or written
  reused       \* calloc gave a chunk that a link still led to

table == <<entries, hash_table, freed>>
trie == <<memory, trie_root, reused>>
vars == <<table, trie, call, unfinished, answer, stale>>

Buckets == {Bucket[f] : f \in Field}

Fresh(what) == [is |-> what, child |-> [b \in Bit |-> NULL]]

\* Between two calls: op is the call, i its loop counter, at the node whose link is
\* looked at, and entry new_entry of an insertion or last_match of a lookup.
Idle == [op |-> "none", key |-> NULL, i |-> 0, at |-> NULL, entry |-> NULL]

Init == /\ entries = << >> /\ hash_table = [b \in Buckets |-> << >>]
        /\ memory = [c \in Chunk |-> Fresh(Nothing)] /\ trie_root = NULL
        /\ freed = {} /\ call = Idle /\ unfinished = {} /\ answer = Nothing
        /\ stale = FALSE /\ reused = FALSE

\* No call is under way.
Ready == call.op = "none" /\ ~ stale

\* What calloc can return.
Available == {c \in Chunk : memory[c].is = Nothing \/ memory[c].is \in freed}

Leads(c) == trie_root = c \/ \E d \in Chunk, b \in Bit : memory[d].child[b] = c

\* *node, the link that the call has come to.
Here == IF call.at = NULL THEN trie_root
        ELSE memory[call.at].child[call.key.field[call.i]]

\* *node = c, in the memory m.
Point(c, m) ==
  IF call.at = NULL THEN trie_root' = c /\ memory' = m
  ELSE /\ memory' = [m EXCEPT ![call.at].child[call.key.field[call.i]] = c]
       /\ UNCHANGED trie_root

-------------------------------------------------------------------------------
\* Mutation of flow_table_insert: what create_flow_entry returns is not looked at.
InsertUnchecked(k, n) ==
  /\ Ready /\ Len(entries) < MaxFlows
  /\ LET e == Len(entries) + 1
     IN /\ entries' = Append(entries, [key |-> k, action_length |-> n])
        /\ hash_table' = [hash_table EXCEPT ![Bucket[k.field]] = <<e>> \o @]
        /\ \E c \in Available \cup {NULL} :
             /\ memory' = [d \in Chunk |-> IF d = c THEN Fresh(e) ELSE memory[d]]
             /\ reused' = (reused \/ Leads(c))
             /\ call' = [op |-> "insert", key |-> k, i |-> 0, at |-> NULL, entry |-> c]
  /\ UNCHANGED <<trie_root, freed, unfinished, answer, stale>>

\* create_flow_entry and the chain; when calloc fails here nothing has changed.
flow_table_insert(k, n) ==
  /\ Ready /\ Len(entries) < MaxFlows
  /\ LET e == Len(entries) + 1
     IN /\ entries' = Append(entries, [key |-> k, action_length |-> n])
        /\ hash_table' = [hash_table EXCEPT ![Bucket[k.field]] = <<e>> \o @]
        /\ \E c \in Available :
             /\ memory' = [memory EXCEPT ![c] = Fresh(e)]
             /\ reused' = (reused \/ Leads(c))
             /\ call' = [op |-> "insert", key |-> k, i |-> 0, at |-> NULL, entry |-> c]
  /\ UNCHANGED <<trie_root, freed, unfinished, answer, stale>>

HasAction(c) == memory[c].is > 0 /\ entries[memory[c].is].action_length > 0

\* One round of either loop that finds a node: a lookup remembers one with an action.
Descend ==
  /\ call.op # "none" /\ ~ stale /\ call.i < Len(call.key.field) /\ Here # NULL
  /\ call' = [call EXCEPT !.i = @ + 1, !.at = Here,
                !.entry = IF call.op = "lookup" /\ HasAction(Here) THEN Here ELSE @]
  /\ stale' = (memory[Here].is \in freed)
  /\ UNCHANGED <<table, trie, unfinished, answer>>

\* An insertion makes the inner node that lacks on its way ...
MakeInner ==
  /\ call.op = "insert" /\ ~ stale /\ call.i < Len(call.key.field) /\ Here = NULL
  /\ \E c \in Available : /\ Point(c, [memory EXCEPT ![c] = Fresh(Inner)])
                          /\ reused' = (reused \/ Leads(c))
  /\ UNCHANGED <<table, call, unfinished, answer, stale>>

\* ... or there is no memory for it: -1, with the flow in its chain already.
OutOfMemory ==
  /\ call.op = "insert" /\ ~ stale /\ call.i < Len(call.key.field) /\ Here = NULL
  /\ call' = Idle /\ unfinished' = unfinished \cup {Len(entries)}
  /\ UNCHANGED <<table, trie, answer, stale>>

\* Mutation of InsertEnds: an entry that is there stays.
InsertOnce ==
  /\ call.op = "insert" /\ ~ stale /\ call.i = Len(call.key.field)
  /\ IF Here = NULL THEN Point(call.entry, memory) ELSE UNCHANGED <<memory, trie_root>>
  /\ call' = Idle /\ UNCHANGED <<table, unfinished, answer, stale, reused>>

\* Mutation of InsertEnds: the walk ends a bit too early.
InsertShort ==
  /\ call.op = "insert" /\ ~ stale /\ call.i + 1 >= Len(call.key.field)
  /\ Point(call.entry, memory)
  /\ call' = Idle /\ UNCHANGED <<table, unfinished, answer, stale, reused>>

\* The new entry takes the place of what was at the end of its field.
InsertEnds ==
  /\ call.op = "insert" /\ ~ stale /\ call.i = Len(call.key.field)
  /\ Point(call.entry, memory)
  /\ call' = Idle /\ UNCHANGED <<table, unfinished, answer, stale, reused>>

\* Where the chain of k has an entry with this key.
Places(k) == {i \in 1 .. Len(hash_table[Bucket[k.field]]) :
                entries[hash_table[Bucket[k.field]][i]].key = k}

\* Mutation of FirstOf: the last one.
LastOf(S) == CHOOSE i \in S : \A j \in S : i >= j

FirstOf(S) == CHOOSE i \in S : \A j \in S : i <= j

LookupExact(k) == /\ Ready /\ Places(k) # {}
                  /\ answer' = hash_table[Bucket[k.field]][FirstOf(Places(k))]
                  /\ UNCHANGED <<table, trie, call, unfinished, stale>>

LookupWildcard(k) ==
  /\ Ready /\ Places(k) = {}
  /\ call' = [op |-> "lookup", key |-> k, i |-> 0, at |-> NULL, entry |-> NULL]
  /\ UNCHANGED <<table, trie, unfinished, answer, stale>>

\* The last node with an action before the end of the field or, when there is none,
\* the node at its end, whatever it is.
LookupEnds ==
  /\ call.op = "lookup" /\ ~ stale
  /\ call.i = Len(call.key.field) \/ Here = NULL
  /\ LET found == IF call.entry # NULL THEN call.entry ELSE Here
     IN answer' = IF found = NULL THEN Nothing ELSE memory[found].is
  /\ call' = Idle /\ UNCHANGED <<table, trie, unfinished, stale>>

\* Mutation of flow_table_delete: the chain is cut where the entry was.
DeleteCutsChain(k) ==
  /\ Ready /\ Places(k) # {}
  /\ LET b == Bucket[k.field]
         i == FirstOf(Places(k))
     IN /\ hash_table' = [hash_table EXCEPT ![b] = SubSeq(@, 1, i - 1)]
        /\ freed' = freed \cup {hash_table[b][i]}
  /\ UNCHANGED <<entries, trie, call, unfinished, answer, stale>>

\* The entry leaves its chain and is freed; the trie keeps its links to it.
flow_table_delete(k) ==
  /\ Ready /\ Places(k) # {}
  /\ LET b == Bucket[k.field]
         i == FirstOf(Places(k))
     IN /\ hash_table' = [hash_table EXCEPT ![b] = RemoveAt(@, i)]
        /\ freed' = freed \cup {hash_table[b][i]}
  /\ UNCHANGED <<entries, trie, call, unfinished, answer, stale>>

Next == \/ \E k \in Key : \/ \E n \in {0, 1} : flow_table_insert(k, n)
                          \/ LookupExact(k) \/ LookupWildcard(k) \/ flow_table_delete(k)
        \/ Descend \/ MakeInner \/ OutOfMemory \/ InsertEnds \/ LookupEnds

Spec == Init /\ [][Next]_vars

-------------------------------------------------------------------------------
(* Properties *)

Flows == 1 .. Len(entries)
Pointer == Chunk \cup {NULL}

\* Type correctness.
TypeOK ==
  /\ entries \in Seq(Entry) /\ hash_table \in [Buckets -> Seq(Flows)]
  /\ memory \in [Chunk -> [is : Flows \cup {Nothing, Inner}, child : [Bit -> Pointer]]]
  /\ trie_root \in Pointer
  /\ freed \subseteq Flows /\ unfinished \subseteq Flows
  /\ call \in [op : {"none", "insert", "lookup"}, key : Key \cup {NULL},
               i : 0 .. MaxLength, at : Pointer, entry : Pointer]
  /\ call.op = "insert" => call.entry # NULL
  /\ answer \in Flows \cup {Nothing, Inner} /\ stale \in BOOLEAN /\ reused \in BOOLEAN

\* A wildcard match is one: the entry that a walk of the trie answers with, deleted or
\* not, was inserted for a prefix of the field that is looked up.  There is one way
\* out, the defect of flow_table_delete: that the memory of a deleted flow was given
\* to another while the trie still led to it.
WildcardIsPrefix ==
  [][~ reused /\ call.op = "lookup" /\ call'.op = "none" =>
       \/ answer' \in {Nothing, Inner}
       \/ IsPrefix(entries[answer'].key.field, call.key.field)]_vars

\* A walk along the field of flow e comes to it.
InTrie(e) ==
  LET f == entries[e].key.field
  IN \E p \in [0 .. Len(f) -> Chunk] :
       /\ p[0] = trie_root /\ \A j \in 1 .. Len(f) : memory[p[j - 1]].child[f[j]] = p[j]
       /\ memory[p[Len(f)]].is = e

\* Flows whose insertion has returned 0.
Completed == {e \in Flows \ unfinished : call.op = "insert" => e # Len(entries)}

\* What the trie forgets: a flow whose insertion returned 0 is missing from it only if
\* one for the same field or for a prefix of it was inserted later, and one whose
\* insertion failed half-way, which stays in its chain, never is in it.  (Unless, again,
\* memory that the trie led to was handed out.)
ForgottenByTrie ==
  ~ reused =>
    /\ \A e \in Completed :
         \/ InTrie(e)
         \/ \E later \in Completed :
              later > e /\ IsPrefix(entries[later].key.field, entries[e].key.field)
    /\ \A e \in Flows : InTrie(e) => e \in Completed

\* Where an entry is found.
PlacesOf(e) == {at \in Buckets \X Flows :
                  at[2] <= Len(hash_table[at[1]]) /\ hash_table[at[1]][at[2]] = e}

\* The chains never hold a freed entry, and hold every other one exactly once, one whose
\* insertion failed in the trie included.
ChainsHoldTheLiving ==
  \A e \in Flows : Cardinality(PlacesOf(e)) = IF e \in freed THEN 0 ELSE 1

\* For exact lookups the chains implement the store of flows by key, however keys
\* collide and memory is reused; an insertion counts even if it returned -1 later.
FlowsOf(k) == {hash_table[Bucket[k.field]][i] : i \in Places(k)}

Store == INSTANCE FlowStore WITH flows <- [k \in Key |-> FlowsOf(k)],
                                 Answer <- (1 .. MaxFlows) \cup {Nothing, Inner}

ImplementsFlowStore == Store!Spec
===============================================================================
