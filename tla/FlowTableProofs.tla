----------------------------- MODULE FlowTableProofs -----------------------------
(***************************************************************************)
(* Proofs about FlowTable, for any keys and masks, any length of a field,  *)
(* any hash function, any memory and any number of flows.                  *)
(***************************************************************************)
EXTENDS FlowTable, SetInduction, FunctionTheorems, SequenceTheorems

ChainOf(e) == hash_table[Bucket[entries[e].key.field]]

\* A chain holds entries of its bucket that live, each once, the newest first.
ChainInv ==
  /\ \A b \in Buckets : \A i \in 1 .. Len(hash_table[b]) :
       LET e == hash_table[b][i] IN e \notin freed /\ Bucket[entries[e].key.field] = b
  /\ \A b \in Buckets : \A i, j \in 1 .. Len(hash_table[b]) :
       i < j => hash_table[b][j] < hash_table[b][i]
  /\ \A e \in (1 .. Len(entries)) \ freed : \E i \in 1 .. Len(ChainOf(e)) : ChainOf(e)[i] = e

\* The first i bits of a field.
Bits(f, i) == [j \in 1 .. i |-> f[j]]

\* What the call that walks the trie knows: its key, where it is, and an insertion the
\* chunk of its flow, the last one; a walk of a lookup that the chain had nothing for.
\* Links lead to chunks that calloc handed out.
CallInv ==
  /\ call.op = "none" => call = Idle
  /\ call.op # "none" => call.key \in Key /\ call.i \in 0 .. Len(call.key.field)
  /\ (call.at = NULL) <=> (call.i = 0)
  /\ call.at # NULL /\ ~ stale => call.at \notin Available
  /\ call.op = "insert" =>
       /\ Len(entries) \in Flows /\ entries[Len(entries)].key = call.key
       /\ Len(entries) \notin freed \cup unfinished
       /\ memory[call.entry].is = Len(entries)
  /\ call.op = "lookup" => Places(call.key) = {}
  /\ \A c \in Chunk : Leads(c) => memory[c].is # Nothing

\* w says at which path of the trie each chunk lies.
Placed(w) ==
  /\ trie_root # NULL => w[trie_root] = << >>
  /\ \A c \in Chunk, b \in Bit :
       memory[c].child[b] # NULL => w[memory[c].child[b]] = Append(w[c], b)
  /\ \A c \in Chunk : memory[c].is \in Flows => w[c] = entries[memory[c].is].key.field
  /\ call.at # NULL => w[call.at] = Bits(call.key.field, call.i - 1)
  /\ call.op = "lookup" /\ call.entry # NULL =>
       \E j \in 0 .. Len(call.key.field) : w[call.entry] = Bits(call.key.field, j)

PlacedInv == \E w \in [Chunk -> Seq(Bit)] : Placed(w)

\* p is the way of n links along field f.
Way(f, n, p) == /\ p \in [0 .. n -> Chunk] /\ p[0] = trie_root
                /\ \A j \in 1 .. n : memory[p[j - 1]].child[f[j]] = p[j]

\* An insertion has come to its place from the root.
WalkInv == call.op = "insert" /\ call.at # NULL =>
             \E p : Way(call.key.field, call.i - 1, p) /\ p[call.i - 1] = call.at

\* No link leads to a flow that is not in the trie yet or never will be.
LooseInv == \A c \in Chunk : memory[c].is \in Flows \ Completed => ~ Leads(c)

\* A flow that the trie has lost was overwritten.
LostInv == \A e \in Completed :
             \/ InTrie(e)
             \/ \E later \in Completed :
                  later > e /\ IsPrefix(entries[later].key.field, entries[e].key.field)

TrieInv == ~ reused => PlacedInv /\ WalkInv /\ LooseInv /\ LostInv

FlowTableInv == TypeOK /\ ChainInv /\ CallInv /\ TrieInv

-------------------------------------------------------------------------------
(* Operators of the model *)

\* The place that FirstOf chooses is the first.
LEMMA First ==
  ASSUME NEW S \in SUBSET Nat, S # {}
  PROVE  FirstOf(S) \in S /\ \A i \in S : FirstOf(S) <= i
<1>1. \E i \in S : \A j \in S : i <= j
  BY LeastNatural
<1>. QED
  BY <1>1 DEF FirstOf

\* A new entry moves the others of its chain back by one.
LEMMA Pushed ==
  ASSUME NEW n \in Nat, NEW s \in Seq(1 .. n)
  PROVE  /\ <<n + 1>> \o s \in Seq(1 .. n + 1)
         /\ Len(<<n + 1>> \o s) = Len(s) + 1 /\ Len(s) \in Nat
         /\ (<<n + 1>> \o s)[1] = n + 1
         /\ \A i \in 1 .. Len(s) : (<<n + 1>> \o s)[i + 1] = s[i]
<1>. DEFINE T == 1 .. n + 1
            one == <<n + 1>>
<1>1. one \in Seq(T) /\ Len(one) = 1 /\ one[1] = n + 1
  OBVIOUS
<1>2. s \in Seq(T) /\ Len(s) \in Nat
  BY LenProperties
<1>. HIDE DEF T, one
<1>3. /\ one \o s \in Seq(T) /\ Len(one \o s) = Len(one) + Len(s)
      /\ \A i \in 1 .. Len(one) + Len(s) :
           (one \o s)[i] = IF i <= Len(one) THEN one[i] ELSE s[i - Len(one)]
  BY <1>1, <1>2, ConcatProperties
<1>4. Len(one \o s) = Len(s) + 1 /\ (one \o s)[1] = n + 1
  BY ONLY <1>1, <1>2, <1>3
<1>5. ASSUME NEW i \in 1 .. Len(s) PROVE (one \o s)[i + 1] = s[i]
  BY ONLY <1>1, <1>2, <1>3
<1>. QED
  BY <1>2, <1>3, <1>4, <1>5 DEF T, one

\* Removing an element moves those behind it forward by one.
LEMMA Removed ==
  ASSUME NEW S, NEW s \in Seq(S), NEW i \in 1 .. Len(s)
  PROVE  /\ RemoveAt(s, i) \in Seq(S)
         /\ Len(RemoveAt(s, i)) = Len(s) - 1 /\ Len(s) \in Nat
         /\ \A j \in 1 .. Len(s) - 1 : RemoveAt(s, i)[j] = IF j < i THEN s[j] ELSE s[j + 1]
<1>. DEFINE a == SubSeq(s, 1, i - 1)
            z == SubSeq(s, i + 1, Len(s))
<1>1. Len(s) \in Nat /\ \A j \in 1 .. Len(s) : s[j] \in S
  BY LenProperties, ElementOfSeq
<1>2. /\ a \in Seq(S) /\ Len(a) = i - 1
      /\ \A j \in 1 .. i - 1 : a[j] = s[j]
  <2>1. 1 \in Int /\ i - 1 \in Int /\ \A j \in 1 .. i - 1 : s[j] \in S
    BY <1>1
  <2>2. /\ a \in Seq(S) /\ Len(a) = IF 1 <= i - 1 THEN (i - 1) - 1 + 1 ELSE 0
        /\ \A j \in 1 .. (i - 1) - 1 + 1 : a[j] = s[1 + j - 1]
    BY <2>1, SubSeqProperties
  <2>. HIDE DEF a
  <2>. QED
    BY <1>1, <2>2
<1>3. /\ z \in Seq(S) /\ Len(z) = Len(s) - i
      /\ \A j \in 1 .. Len(s) - i : z[j] = s[i + j]
  <2>1. i + 1 \in Int /\ Len(s) \in Int /\ \A j \in i + 1 .. Len(s) : s[j] \in S
    BY <1>1
  <2>2. /\ z \in Seq(S) /\ Len(z) = IF i + 1 <= Len(s) THEN Len(s) - (i + 1) + 1 ELSE 0
        /\ \A j \in 1 .. Len(s) - (i + 1) + 1 : z[j] = s[(i + 1) + j - 1]
    BY <2>1, SubSeqProperties
  <2>. HIDE DEF z
  <2>. QED
    BY <1>1, <2>2
<1>. HIDE DEF a, z
<1>4. /\ a \o z \in Seq(S) /\ Len(a \o z) = Len(a) + Len(z)
      /\ \A j \in 1 .. Len(a) + Len(z) : (a \o z)[j] = IF j <= Len(a) THEN a[j] ELSE z[j - Len(a)]
  BY <1>2, <1>3, ConcatProperties
<1>5. Len(a \o z) = Len(s) - 1
  BY ONLY <1>1, <1>2, <1>3, <1>4, i \in 1 .. Len(s)
<1>6. ASSUME NEW j \in 1 .. Len(s) - 1 PROVE (a \o z)[j] = IF j < i THEN s[j] ELSE s[j + 1]
  <2>1. CASE j < i
    BY ONLY <1>1, <1>2, <1>3, <1>4, <2>1, i \in 1 .. Len(s)
  <2>2. CASE ~ (j < i)
    <3>1. /\ j \in 1 .. Len(a) + Len(z) /\ ~ (j <= Len(a)) /\ j - Len(a) \in 1 .. Len(s) - i
          /\ i + (j - Len(a)) = j + 1
      BY ONLY <1>1, <1>2, <1>3, <2>2, i \in 1 .. Len(s)
    <3>. QED
      BY ONLY <1>3, <1>4, <2>2, <3>1
  <2>. QED
    BY <2>1, <2>2
<1>. QED
  BY <1>1, <1>4, <1>5, <1>6 DEF RemoveAt, a, z

\* Which entries the chain of a key is made of, and where they are.
LEMMA ChainOfKey ==
  ASSUME TypeOK, NEW k \in Key
  PROVE  /\ Bucket[k.field] \in Buckets /\ k.field \in Field
         /\ Len(entries) \in Nat /\ Len(hash_table[Bucket[k.field]]) \in Nat
         /\ \A b \in Buckets : hash_table[b] \in Seq(1 .. Len(entries))
         /\ \A b \in Buckets : \A i \in 1 .. Len(hash_table[b]) : hash_table[b][i] \in 1 .. Len(entries)
         /\ Places(k) # {} => FirstOf(Places(k)) \in Places(k)
                             /\ \A i \in Places(k) : FirstOf(Places(k)) <= i
<1>1. k.field \in Field /\ Bucket[k.field] \in Buckets
  BY FlowTableAssumption DEF Buckets
<1>2. \A b \in Buckets : hash_table[b] \in Seq(1 .. Len(entries))
  BY DEF TypeOK, Flows
<1>3. \A b \in Buckets : \A i \in 1 .. Len(hash_table[b]) : hash_table[b][i] \in 1 .. Len(entries)
  BY <1>2, ElementOfSeq
<1>4. Places(k) \in SUBSET Nat
  BY DEF Places
<1>. QED
  BY <1>1, <1>2, <1>3, <1>4, First, LenProperties DEF TypeOK

\* An entry has a key, and the key a field.
LEMMA EntryKey ==
  ASSUME TypeOK, NEW e \in 1 .. Len(entries)
  PROVE  entries[e].key \in Key /\ entries[e].key.field \in Field
<1>1. entries[e] \in Entry
  BY ElementOfSeq DEF TypeOK
<1>2. entries[e].key \in Key
  BY <1>1 DEF Entry
<1>. QED
  BY <1>2, FlowTableAssumption

-------------------------------------------------------------------------------
(* The chains *)

\* flow_table_insert: the new flow is the last entry and the first of its chain.
LEMMA ChainGrows ==
  ASSUME TypeOK, NEW k \in Key, NEW n \in {0, 1}, flow_table_insert(k, n)
  PROVE  /\ entries' \in Seq(Entry) /\ Len(entries') = Len(entries) + 1
         /\ entries'[Len(entries) + 1].key = k
         /\ \A e \in 1 .. Len(entries) : entries'[e] = entries[e]
         /\ hash_table' \in [Buckets -> Seq(1 .. Len(entries'))]
         /\ \A b \in Buckets :
              IF b = Bucket[k.field]
              THEN /\ Len(hash_table'[b]) = Len(hash_table[b]) + 1
                   /\ hash_table'[b][1] = Len(entries) + 1
                   /\ \A i \in 1 .. Len(hash_table[b]) : hash_table'[b][i + 1] = hash_table[b][i]
              ELSE hash_table'[b] = hash_table[b]
<1>. DEFINE N == Len(entries)
            e == [key |-> k, action_length |-> n]
            c == Bucket[k.field]
            s == hash_table[c]
<1>1. /\ c \in Buckets /\ N \in Nat
      /\ \A b \in Buckets : hash_table[b] \in Seq(1 .. N)
  BY ChainOfKey
<1>2. /\ entries \in Seq(Entry) /\ e \in Entry /\ entries' = Append(entries, e)
      /\ hash_table \in [Buckets -> Seq(1 .. N)]
      /\ hash_table' = [hash_table EXCEPT ![c] = <<N + 1>> \o s]
  BY DEF TypeOK, Flows, Entry, flow_table_insert
<1>3. /\ <<N + 1>> \o s \in Seq(1 .. N + 1)
      /\ Len(<<N + 1>> \o s) = Len(s) + 1
      /\ (<<N + 1>> \o s)[1] = N + 1
      /\ \A i \in 1 .. Len(s) : (<<N + 1>> \o s)[i + 1] = s[i]
  BY <1>1, Pushed
<1>4. /\ entries' \in Seq(Entry) /\ Len(entries') = N + 1 /\ entries'[N + 1] = e
      /\ \A i \in 1 .. N : entries'[i] = entries[i]
  <2>. HIDE DEF e
  <2>. QED
    BY <1>2, AppendProperties
<1>5. \A b \in Buckets : hash_table[b] \in Seq(1 .. N + 1)
  BY <1>1
<1>6. hash_table' \in [Buckets -> Seq(1 .. N + 1)]
  <2>. DEFINE S == Seq(1 .. N + 1)
              t == <<N + 1>> \o s
  <2>1. t \in S /\ \A b \in Buckets : hash_table[b] \in S
    BY <1>3, <1>5
  <2>2. hash_table' = [hash_table EXCEPT ![c] = t] /\ DOMAIN hash_table = Buckets
    BY <1>2
  <2>3. hash_table = [b \in Buckets |-> hash_table[b]]
    BY <1>2
  <2>. HIDE DEF S, t
  <2>4. hash_table' \in [Buckets -> S]
    BY <1>1, <2>1, <2>2, <2>3
  <2>. QED
    BY <2>4 DEF S
<1>7. ASSUME NEW b \in Buckets
      PROVE  IF b = c
             THEN /\ Len(hash_table'[b]) = Len(hash_table[b]) + 1
                  /\ hash_table'[b][1] = N + 1
                  /\ \A i \in 1 .. Len(hash_table[b]) : hash_table'[b][i + 1] = hash_table[b][i]
             ELSE hash_table'[b] = hash_table[b]
  <2>1. hash_table'[b] = IF b = c THEN <<N + 1>> \o s ELSE hash_table[b]
    BY <1>2
  <2>. QED
    BY <1>3, <2>1
<1>. QED
  BY <1>4, <1>6, <1>7

\* flow_table_delete: the newest flow with the key leaves its chain.
LEMMA ChainShrinks ==
  ASSUME TypeOK, NEW k \in Key, flow_table_delete(k)
  PROVE  LET b == Bucket[k.field]
             i == FirstOf(Places(k))
         IN /\ i \in 1 .. Len(hash_table[b]) /\ hash_table[b][i] \in 1 .. Len(entries)
            /\ entries[hash_table[b][i]].key = k
            /\ freed' = freed \cup {hash_table[b][i]}
            /\ hash_table' \in [Buckets -> Seq(1 .. Len(entries))]
            /\ \A a \in Buckets : a # b => hash_table'[a] = hash_table[a]
            /\ Len(hash_table'[b]) = Len(hash_table[b]) - 1
            /\ \A j \in 1 .. Len(hash_table[b]) - 1 :
                 hash_table'[b][j] = IF j < i THEN hash_table[b][j] ELSE hash_table[b][j + 1]
<1>. DEFINE b == Bucket[k.field]
            i == FirstOf(Places(k))
            S == Seq(1 .. Len(entries))
            t == RemoveAt(hash_table[b], i)
<1>1. /\ b \in Buckets /\ hash_table \in [Buckets -> S] /\ i \in Places(k)
      /\ \A a \in Buckets : \A j \in 1 .. Len(hash_table[a]) : hash_table[a][j] \in 1 .. Len(entries)
  BY ChainOfKey DEF flow_table_delete, TypeOK
<1>2. i \in 1 .. Len(hash_table[b]) /\ entries[hash_table[b][i]].key = k
  BY <1>1 DEF Places
<1>3. hash_table' = [hash_table EXCEPT ![b] = t] /\ freed' = freed \cup {hash_table[b][i]}
  BY DEF flow_table_delete
<1>4. /\ t \in S /\ Len(t) = Len(hash_table[b]) - 1
      /\ \A j \in 1 .. Len(hash_table[b]) - 1 :
           t[j] = IF j < i THEN hash_table[b][j] ELSE hash_table[b][j + 1]
  BY <1>1, <1>2, Removed
<1>. HIDE DEF S, t
<1>5. /\ hash_table' \in [Buckets -> S] /\ hash_table'[b] = t
      /\ \A a \in Buckets : a # b => hash_table'[a] = hash_table[a]
  BY <1>1, <1>3, <1>4
<1>. QED
  BY <1>1, <1>2, <1>3, <1>4, <1>5 DEF S

\* Chains change at one end or lose an element.
LEMMA StepChainInv == FlowTableInv /\ [Next]_vars => ChainInv'
<1>. SUFFICES ASSUME FlowTableInv, [Next]_vars PROVE ChainInv'
  OBVIOUS
<1>0. TypeOK /\ ChainInv
  BY DEF FlowTableInv
<1>1. ASSUME NEW k \in Key, NEW n \in {0, 1}, flow_table_insert(k, n) PROVE ChainInv'
  <2>. DEFINE N == Len(entries)
              c == Bucket[k.field]
              C(b) == Len(hash_table[b])
  <2>1. /\ Len(entries') = N + 1 /\ entries'[N + 1].key = k /\ N \in Nat /\ c \in Buckets
        /\ \A e \in 1 .. N : entries'[e] = entries[e]
        /\ \A b \in Buckets :
             IF b = c
             THEN /\ Len(hash_table'[b]) = C(b) + 1
                  /\ hash_table'[b][1] = N + 1
                  /\ \A i \in 1 .. C(b) : hash_table'[b][i + 1] = hash_table[b][i]
             ELSE hash_table'[b] = hash_table[b]
    BY <1>0, <1>1, ChainGrows, ChainOfKey
  <2>2. /\ \A b \in Buckets : \A i \in 1 .. C(b) : hash_table[b][i] \in 1 .. N
        /\ \A b \in Buckets : C(b) \in Nat
        /\ freed' = freed /\ freed \subseteq 1 .. N
    BY <1>0, <1>1, ChainOfKey, LenProperties DEF flow_table_insert, TypeOK, Flows
  <2>3. \A b \in Buckets : \A i \in 1 .. Len(hash_table'[b]) :
          \/ b = c /\ i = 1 /\ hash_table'[b][i] = N + 1
          \/ b = c /\ i - 1 \in 1 .. C(b) /\ hash_table'[b][i] = hash_table[b][i - 1]
          \/ b # c /\ i \in 1 .. C(b) /\ hash_table'[b][i] = hash_table[b][i]
    <3>1. ASSUME NEW i \in 1 .. C(c) + 1, i # 1
          PROVE  i - 1 \in 1 .. C(c) /\ hash_table'[c][i] = hash_table[c][i - 1]
      <4>1. i - 1 \in 1 .. C(c) /\ (i - 1) + 1 = i
        BY <2>1, <2>2, <3>1
      <4>. QED
        BY <2>1, <4>1
    <3>. QED
      BY <2>1, <2>2, <3>1
  <2>4. \A b \in Buckets : \A i \in 1 .. Len(hash_table'[b]) :
          LET e == hash_table'[b][i] IN e \notin freed' /\ Bucket[entries'[e].key.field] = b
    <3>. SUFFICES ASSUME NEW b \in Buckets, NEW i \in 1 .. Len(hash_table'[b])
                  PROVE  /\ hash_table'[b][i] \notin freed
                         /\ Bucket[entries'[hash_table'[b][i]].key.field] = b
      BY <2>2
    <3>1. CASE b = c /\ i = 1 /\ hash_table'[b][i] = N + 1
      BY <2>1, <2>2, <3>1
    <3>2. ASSUME NEW j \in 1 .. C(b), hash_table'[b][i] = hash_table[b][j]
          PROVE  /\ hash_table'[b][i] \notin freed
                 /\ Bucket[entries'[hash_table'[b][i]].key.field] = b
      <4>1. hash_table[b][j] \notin freed /\ Bucket[entries[hash_table[b][j]].key.field] = b
        BY <1>0 DEF ChainInv
      <4>. QED
        BY <2>1, <2>2, <3>2, <4>1
    <3>. QED
      BY <2>3, <3>1, <3>2
  <2>5. \A b \in Buckets : \A i, j \in 1 .. Len(hash_table'[b]) :
          i < j => hash_table'[b][j] < hash_table'[b][i]
    <3>. SUFFICES ASSUME NEW b \in Buckets, NEW i \in 1 .. Len(hash_table'[b]),
                         NEW j \in 1 .. Len(hash_table'[b]), i < j
                  PROVE  hash_table'[b][j] < hash_table'[b][i]
      OBVIOUS
    <3>0. \A x, y \in 1 .. C(b) : x < y => hash_table[b][y] < hash_table[b][x]
      BY <1>0 DEF ChainInv
    <3>1. CASE b # c
      BY <2>3, <3>0, <3>1
    <3>2. CASE b = c /\ i = 1
      <4>1. j # 1 /\ hash_table'[b][i] = N + 1
        BY <2>3, <3>2
      <4>2. j - 1 \in 1 .. C(b) /\ hash_table'[b][j] = hash_table[b][j - 1]
        BY <2>3, <3>2, <4>1
      <4>3. hash_table[b][j - 1] \in 1 .. N
        BY <2>2, <4>2
      <4>. QED
        BY ONLY <2>1, <4>1, <4>2, <4>3
    <3>3. CASE b = c /\ i # 1
      <4>1. j # 1
        OBVIOUS
      <4>2. /\ i - 1 \in 1 .. C(b) /\ hash_table'[b][i] = hash_table[b][i - 1]
            /\ j - 1 \in 1 .. C(b) /\ hash_table'[b][j] = hash_table[b][j - 1]
        BY <2>3, <3>3, <4>1
      <4>3. i - 1 < j - 1
        OBVIOUS
      <4>. QED
        BY <3>0, <4>2, <4>3
    <3>. QED
      BY <3>1, <3>2, <3>3
  <2>6. ASSUME NEW e \in 1 .. N + 1, e \notin freed
        PROVE  \E i \in 1 .. Len(ChainOf(e)') : ChainOf(e)'[i] = e
    <3>1. CASE e = N + 1
      <4>1. ChainOf(e)' = hash_table'[c]
        BY <2>1, <3>1 DEF ChainOf
      <4>2. 1 \in 1 .. Len(hash_table'[c]) /\ hash_table'[c][1] = N + 1
        BY <2>1, <2>2
      <4>. QED
        BY <3>1, <4>1, <4>2
    <3>2. CASE e # N + 1
      <4>. DEFINE b == Bucket[entries[e].key.field]
      <4>1. e \in 1 .. N
        BY <2>1, <3>2
      <4>2. entries[e].key.field \in Field
        BY <1>0, <4>1, EntryKey
      <4>3. b \in Buckets /\ ChainOf(e) = hash_table[b] /\ ChainOf(e)' = hash_table'[b]
        BY <2>1, <4>1, <4>2 DEF ChainOf, Buckets
      <4>4. PICK i \in 1 .. C(b) : hash_table[b][i] = e
        BY <1>0, <2>6, <4>1, <4>3 DEF ChainInv
      <4>. HIDE DEF b
      <4>5. CASE b = c
        <5>1. i + 1 \in 1 .. Len(hash_table'[b]) /\ hash_table'[b][i + 1] = e
          <6>1. i + 1 \in 1 .. C(c) + 1 /\ hash_table[c][i] = e
            BY ONLY <4>4, <4>5
          <6>. QED
            BY <2>1, <2>2, <4>4, <4>5, <6>1
        <5>. QED
          BY <4>3, <5>1
      <4>6. CASE b # c
        BY <2>1, <4>3, <4>4, <4>6
      <4>. QED
        BY <4>5, <4>6
    <3>. QED
      BY <3>1, <3>2
  <2>. QED
    BY <2>1, <2>2, <2>4, <2>5, <2>6 DEF ChainInv
<1>2. ASSUME NEW k \in Key, flow_table_delete(k) PROVE ChainInv'
  <2>. DEFINE c == Bucket[k.field]
              x == FirstOf(Places(k))
              d == hash_table[c][x]
              L == Len(hash_table[c])
  <2>1. /\ x \in 1 .. L /\ d \in 1 .. Len(entries) /\ entries[d].key = k
        /\ freed' = freed \cup {d} /\ entries' = entries
        /\ \A a \in Buckets : a # c => hash_table'[a] = hash_table[a]
        /\ Len(hash_table'[c]) = L - 1
        /\ \A j \in 1 .. L - 1 :
             hash_table'[c][j] = IF j < x THEN hash_table[c][j] ELSE hash_table[c][j + 1]
    BY <1>0, <1>2, ChainShrinks DEF flow_table_delete
  <2>2. L \in Nat /\ c \in Buckets
        /\ \A i \in 1 .. L : hash_table[c][i] \in 1 .. Len(entries)
    BY <1>0, ChainOfKey
  <2>. DEFINE at(j) == IF j < x THEN j ELSE j + 1
  <2>3. /\ \A j \in 1 .. L - 1 : at(j) \in (1 .. L) \ {x} /\ hash_table'[c][j] = hash_table[c][at(j)]
        /\ \A i, j \in 1 .. L - 1 : i < j => at(i) < at(j)
        /\ \A y \in (1 .. L) \ {x} : \E j \in 1 .. L - 1 : at(j) = y
    <3>1. \A j \in 1 .. L - 1 : at(j) \in (1 .. L) \ {x} /\ hash_table'[c][j] = hash_table[c][at(j)]
      <4>1. ASSUME NEW j \in 1 .. L - 1 PROVE at(j) \in (1 .. L) \ {x}
        BY ONLY <2>1, <2>2
      <4>. QED
        BY <2>1, <4>1
    <3>2. \A i, j \in 1 .. L - 1 : i < j => at(i) < at(j)
      BY ONLY <2>1, <2>2
    <3>3. ASSUME NEW y \in (1 .. L) \ {x} PROVE \E j \in 1 .. L - 1 : at(j) = y
      <4>1. CASE y < x
        <5>1. y \in 1 .. L - 1 /\ at(y) = y
          BY ONLY <2>1, <2>2, <4>1, y \in (1 .. L) \ {x}
        <5>. QED
          BY <5>1
      <4>2. CASE ~ (y < x)
        <5>1. y - 1 \in 1 .. L - 1 /\ at(y - 1) = y
          BY ONLY <2>1, <2>2, <4>2, y \in (1 .. L) \ {x}
        <5>. QED
          BY <5>1
      <4>. QED
        BY <4>1, <4>2
    <3>. QED
      BY <3>1, <3>2, <3>3
  <2>. HIDE DEF at, x, d, L
  <2>4. \A i, j \in 1 .. L : i < j => hash_table[c][j] < hash_table[c][i]
    BY <1>0, <2>2 DEF ChainInv, L
  <2>5. \A b \in Buckets : \A i \in 1 .. Len(hash_table'[b]) :
          LET e == hash_table'[b][i] IN e \notin freed' /\ Bucket[entries'[e].key.field] = b
    <3>. SUFFICES ASSUME NEW b \in Buckets, NEW i \in 1 .. Len(hash_table'[b])
                  PROVE  /\ hash_table'[b][i] \notin freed /\ hash_table'[b][i] # d
                         /\ Bucket[entries[hash_table'[b][i]].key.field] = b
      BY <2>1
    <3>0. \A a \in Buckets : \A j \in 1 .. Len(hash_table[a]) :
            hash_table[a][j] \notin freed /\ Bucket[entries[hash_table[a][j]].key.field] = a
      BY <1>0 DEF ChainInv
    <3>1. CASE b # c
      <4>1. /\ i \in 1 .. Len(hash_table[b]) /\ hash_table'[b][i] = hash_table[b][i]
        BY <2>1, <3>1
      <4>2. Bucket[entries[d].key.field] = c
        BY <2>1
      <4>. QED
        BY <3>0, <3>1, <4>1, <4>2
    <3>2. CASE b = c
      <4>1. i \in 1 .. L - 1
        BY <2>1, <3>2
      <4>2. /\ at(i) \in 1 .. L /\ at(i) # x /\ hash_table'[b][i] = hash_table[c][at(i)]
        BY <2>3, <3>2, <4>1
      <4>3. hash_table[c][at(i)] # d
        <5>1. at(i) < x \/ x < at(i)
          BY ONLY <2>1, <2>2, <4>2
        <5>2. hash_table[c][at(i)] \in Int /\ d \in Int /\ d = hash_table[c][x]
          BY <2>1, <2>2, <4>2 DEF d
        <5>3. hash_table[c][at(i)] < d \/ d < hash_table[c][at(i)]
          BY ONLY <2>1, <2>4, <4>2, <5>1, <5>2
        <5>. QED
          BY ONLY <5>2, <5>3
      <4>. QED
        BY <2>2, <3>0, <3>2, <4>2, <4>3 DEF L
    <3>. QED
      BY <3>1, <3>2
  <2>6. \A b \in Buckets : \A i, j \in 1 .. Len(hash_table'[b]) :
          i < j => hash_table'[b][j] < hash_table'[b][i]
    <3>1. ASSUME NEW i \in 1 .. L - 1, NEW j \in 1 .. L - 1, i < j
          PROVE  hash_table'[c][j] < hash_table'[c][i]
      BY <2>3, <2>4, <3>1
    <3>. QED
      BY <1>0, <2>1, <3>1 DEF ChainInv
  <2>7. ASSUME NEW e \in (1 .. Len(entries)) \ freed, e # d
        PROVE  \E i \in 1 .. Len(ChainOf(e)') : ChainOf(e)'[i] = e
    <3>. DEFINE b == Bucket[entries[e].key.field]
    <3>1. b \in Buckets
      BY <1>0, EntryKey DEF Buckets
    <3>2. ChainOf(e) = hash_table[b] /\ ChainOf(e)' = hash_table'[b]
      BY <2>1 DEF ChainOf
    <3>3. PICK y \in 1 .. Len(hash_table[b]) : hash_table[b][y] = e
      BY <1>0, <3>2 DEF ChainInv
    <3>. HIDE DEF b
    <3>4. CASE b # c
      BY <2>1, <3>1, <3>2, <3>3, <3>4
    <3>5. CASE b = c
      <4>1. y \in (1 .. L) \ {x}
        BY <2>7, <3>3, <3>5 DEF d, L
      <4>2. PICK j \in 1 .. L - 1 : at(j) = y
        BY <2>3, <4>1
      <4>3. j \in 1 .. Len(hash_table'[b]) /\ hash_table'[b][j] = e
        BY <2>1, <2>3, <3>3, <3>5, <4>2
      <4>. QED
        BY <3>2, <4>3
    <3>. QED
      BY <3>4, <3>5
  <2>. QED
    BY <2>1, <2>5, <2>6, <2>7 DEF ChainInv
<1>3. CASE UNCHANGED <<entries, hash_table, freed>>
  BY <1>0, <1>3 DEF ChainInv, ChainOf
<1>. QED
  BY <1>1, <1>2, <1>3 DEF Next, vars, table, LookupExact, LookupWildcard, Descend, MakeInner,
                          OutOfMemory, InsertEnds, LookupEnds

-------------------------------------------------------------------------------
(* Fields, memory and the ways through it *)

\* A field is a sequence of bits.
LEMMA FieldSeq ==
  ASSUME NEW f \in Field
  PROVE  /\ f \in Seq(Bit) /\ Len(f) \in 0 .. MaxLength /\ Len(f) \in Nat
         /\ \A j \in 1 .. Len(f) : f[j] \in Bit
<1>1. PICK n \in 0 .. MaxLength : f \in [1 .. n -> Bit]
  BY DEF Field
<1>2. n \in Nat
  BY FlowTableAssumption
<1>3. f \in Seq(Bit) /\ Len(f) = n
  BY <1>1, <1>2
<1>. QED
  BY <1>1, <1>2, <1>3

\* What the first bits of a field are, and that they grow by one.
LEMMA BitsOf ==
  ASSUME NEW f \in Seq(Bit), NEW j \in 0 .. Len(f)
  PROVE  /\ Bits(f, j) \in Seq(Bit) /\ Len(Bits(f, j)) = j /\ IsPrefix(Bits(f, j), f)
         /\ j = 0 => Bits(f, j) = << >>
         /\ j = Len(f) => Bits(f, j) = f
         /\ j > 0 => Bits(f, j) = Append(Bits(f, j - 1), f[j]) /\ f[j] \in Bit
<1>0. Len(f) \in Nat /\ j \in Nat /\ \A i \in 1 .. Len(f) : f[i] \in Bit
  BY LenProperties, ElementOfSeq
<1>1. Bits(f, j) \in Seq(Bit) /\ Len(Bits(f, j)) = j
  BY <1>0 DEF Bits
<1>2. IsPrefix(Bits(f, j), f)
  BY <1>0, <1>1 DEF Bits, IsPrefix
<1>3. j = 0 => Bits(f, j) = << >>
  BY <1>1, EmptySeq
<1>4. j = Len(f) => Bits(f, j) = f
  BY <1>0 DEF Bits
<1>5. ASSUME j > 0 PROVE Bits(f, j) = Append(Bits(f, j - 1), f[j]) /\ f[j] \in Bit
  <2>1. j - 1 \in Nat /\ f[j] \in Bit /\ Bits(f, j - 1) \in Seq(Bit) /\ Len(Bits(f, j - 1)) = j - 1
    BY <1>0, <1>5 DEF Bits
  <2>2. /\ Append(Bits(f, j - 1), f[j]) \in Seq(Bit) /\ Len(Append(Bits(f, j - 1), f[j])) = j
        /\ \A i \in 1 .. j - 1 : Append(Bits(f, j - 1), f[j])[i] = Bits(f, j - 1)[i]
        /\ Append(Bits(f, j - 1), f[j])[j] = f[j]
    BY <1>0, <2>1, AppendProperties
  <2>3. \A i \in 1 .. j : Append(Bits(f, j - 1), f[j])[i] = Bits(f, j)[i]
    BY <1>0, <2>1, <2>2 DEF Bits
  <2>. QED
    BY <1>0, <1>1, <2>1, <2>2, <2>3, SeqEqual
<1>. QED
  BY <1>1, <1>2, <1>3, <1>4, <1>5

\* What memory may hold when n flows were inserted.
Content(n) == (1 .. n) \cup {Nothing, Inner}
Memory(n) == [Chunk -> [is : Content(n), child : [Bit -> Pointer]]]

\* What calloc makes of a chunk.
LEMMA Cleared ==
  ASSUME NEW n, NEW x \in Content(n)
  PROVE  /\ Fresh(x) \in [is : Content(n), child : [Bit -> Pointer]]
         /\ Fresh(x).is = x /\ \A b \in Bit : Fresh(x).child[b] = NULL
  BY DEF Fresh, Pointer

\* The link that an insertion has come to, and none but it, is set.
LEMMA Pointed ==
  ASSUME TypeOK, CallInv, call.op = "insert", NEW n, NEW m \in Memory(n), NEW c \in Chunk,
         Point(c, m)
  PROVE  /\ memory' \in Memory(n) /\ trie_root' \in Pointer
         /\ trie_root' = IF call.at = NULL THEN c ELSE trie_root
         /\ \A d \in Chunk : memory'[d].is = m[d].is
         /\ \A d \in Chunk, b \in Bit :
              memory'[d].child[b] = IF call.at # NULL /\ d = call.at /\ b = call.key.field[call.i]
                                    THEN c ELSE m[d].child[b]
<1>1. CASE call.at = NULL
  BY <1>1 DEF Point, Pointer
<1>2. CASE call.at # NULL
  <2>. DEFINE a == call.at
              x == call.key.field[call.i]
              new == [m[a] EXCEPT !.child[x] = c]
              Node == [is : Content(n), child : [Bit -> Pointer]]
  <2>1. a \in Chunk /\ x \in Bit /\ c \in Pointer
    <3>1. a \in Chunk /\ call.key \in Key /\ call.i \in 1 .. Len(call.key.field)
      <4>1. call.key \in Key /\ call.i \in 0 .. Len(call.key.field) /\ call.i # 0
        BY <1>2 DEF CallInv
      <4>2. a \in Chunk
        BY <1>2 DEF TypeOK, Pointer
      <4>. QED
        BY <4>1, <4>2
    <3>. QED
      BY <3>1, FlowTableAssumption, FieldSeq DEF Pointer
  <2>2. memory' = [m EXCEPT ![a] = new] /\ trie_root' = trie_root
    BY <1>2 DEF Point
  <2>. HIDE DEF a, x
  <2>3. m \in [Chunk -> Node] /\ m[a] \in Node
    BY <2>1 DEF Memory
  <2>4. /\ new \in Node /\ new.is = m[a].is
        /\ \A b \in Bit : new.child[b] = IF b = x THEN c ELSE m[a].child[b]
    BY <2>1, <2>3
  <2>. HIDE DEF new, Node
  <2>5. /\ memory' \in [Chunk -> Node]
        /\ \A d \in Chunk : memory'[d] = IF d = a THEN new ELSE m[d]
    BY <2>1, <2>2, <2>3, <2>4
  <2>6. trie_root' \in Pointer
    BY <2>2 DEF TypeOK
  <2>. QED
    BY <1>2, <2>2, <2>4, <2>5, <2>6 DEF a, x, Node, Memory
<1>. QED
  BY <1>1, <1>2

\* The memory and the key of a call, as TypeOK has them.
LEMMA MemoryOK ==
  ASSUME TypeOK
  PROVE  /\ Len(entries) \in Nat /\ memory \in Memory(Len(entries))
         /\ \A c \in Chunk : memory[c].is \in Flows \cup {Nothing, Inner}
         /\ \A c \in Chunk, b \in Bit : memory[c].child[b] \in Pointer
<1>1. Len(entries) \in Nat /\ memory \in Memory(Len(entries))
  BY LenProperties DEF TypeOK, Memory, Flows, Content
<1>. QED
  BY <1>1 DEF Memory, Flows, Content

LEMMA CallKey ==
  ASSUME CallInv, call.op # "none"
  PROVE  /\ call.key \in Key /\ call.key.field \in Field /\ call.key.field \in Seq(Bit)
         /\ Len(call.key.field) \in 0 .. MaxLength /\ Len(call.key.field) \in Nat
         /\ call.i \in 0 .. Len(call.key.field)
         /\ \A j \in 1 .. Len(call.key.field) : call.key.field[j] \in Bit
<1>1. call.key \in Key /\ call.i \in 0 .. Len(call.key.field)
  BY DEF CallInv
<1>2. call.key.field \in Field
  BY <1>1, FlowTableAssumption
<1>. QED
  BY <1>1, <1>2, FieldSeq

\* The chunks of a way have links that lead to them.
LEMMA WayLeads ==
  ASSUME TypeOK, NEW f \in Seq(Bit), NEW n \in 0 .. Len(f), NEW p, Way(f, n, p), NEW j \in 0 .. n
  PROVE  p[j] \in Chunk /\ Leads(p[j])
<1>1. p[j] \in Chunk /\ n \in Nat
  BY LenProperties DEF Way
<1>2. CASE j = 0
  BY <1>1, <1>2 DEF Way, Leads
<1>3. CASE j # 0
  <2>1. j \in 1 .. n /\ j \in 1 .. Len(f) /\ j - 1 \in 0 .. n
    BY <1>1, <1>3, LenProperties
  <2>2. p[j - 1] \in Chunk /\ f[j] \in Bit /\ memory[p[j - 1]].child[f[j]] = p[j]
    BY <2>1, ElementOfSeq DEF Way
  <2>. QED
    BY <1>1, <2>2 DEF Leads
<1>. QED
  BY <1>2, <1>3

\* A way stays when what changes is a chunk that no link led to, and links that were NULL.
LEMMA WayStays ==
  ASSUME TypeOK, NEW f \in Seq(Bit), NEW n \in 0 .. Len(f), NEW p, Way(f, n, p),
         NEW c, ~ Leads(c), trie_root # NULL => trie_root' = trie_root,
         \A d \in Chunk, b \in Bit : d # c /\ memory[d].child[b] # NULL =>
           memory'[d].child[b] = memory[d].child[b]
  PROVE  Way(f, n, p)' /\ \A j \in 0 .. n : p[j] \in Chunk \ {c}
<1>1. \A j \in 0 .. n : p[j] \in Chunk /\ Leads(p[j])
  BY WayLeads
<1>2. \A j \in 0 .. n : p[j] \in Chunk \ {c} /\ p[j] # NULL
  BY <1>1, FlowTableAssumption
<1>3. n \in Nat /\ Len(f) \in Nat
  BY LenProperties
<1>4. p[0] = trie_root'
  BY <1>2, <1>3 DEF Way
<1>5. ASSUME NEW j \in 1 .. n PROVE memory'[p[j - 1]].child[f[j]] = p[j]
  <2>1. j - 1 \in 0 .. n /\ j \in 0 .. n /\ j \in 1 .. Len(f)
    BY <1>3
  <2>2. f[j] \in Bit /\ memory[p[j - 1]].child[f[j]] = p[j]
    BY <2>1, ElementOfSeq DEF Way
  <2>. QED
    BY <1>2, <2>1, <2>2
<1>. QED
  BY <1>2, <1>4, <1>5 DEF Way

\* A flow that a walk came to has a field and a way.
LEMMA WayOfFlow ==
  ASSUME TypeOK, NEW e \in Flows
  PROVE  /\ entries[e].key \in Key /\ entries[e].key.field \in Seq(Bit)
         /\ Len(entries[e].key.field) \in Nat
         /\ InTrie(e) <=> \E p : /\ Way(entries[e].key.field, Len(entries[e].key.field), p)
                                 /\ memory[p[Len(entries[e].key.field)]].is = e
<1>1. entries[e].key \in Key /\ entries[e].key.field \in Field
  BY EntryKey DEF Flows
<1>. QED
  BY <1>1, FieldSeq DEF InTrie, Way

\* So the flow is still found.
LEMMA InTrieStays ==
  ASSUME TypeOK, TypeOK', NEW e \in Flows, InTrie(e), e \in Flows', entries'[e] = entries[e],
         NEW c, ~ Leads(c), trie_root # NULL => trie_root' = trie_root,
         \A d \in Chunk, b \in Bit : d # c /\ memory[d].child[b] # NULL =>
           memory'[d].child[b] = memory[d].child[b],
         \A d \in Chunk : d # c => memory'[d].is = memory[d].is
  PROVE  InTrie(e)'
<1>1. PICK f : f = entries[e].key.field
  OBVIOUS
<1>2. f \in Seq(Bit) /\ Len(f) \in Nat /\ Len(f) \in 0 .. Len(f)
  BY <1>1, WayOfFlow
<1>3. PICK p : Way(f, Len(f), p) /\ memory[p[Len(f)]].is = e
  BY <1>1, WayOfFlow
<1>4. Way(f, Len(f), p)' /\ p[Len(f)] \in Chunk \ {c}
  BY <1>2, <1>3, WayStays
<1>5. memory'[p[Len(f)]].is = e /\ f = entries'[e].key.field
  BY <1>1, <1>3, <1>4
<1>6. InTrie(e)' <=> \E q : Way(f, Len(f), q)' /\ memory'[q[Len(f)]].is = e
  BY <1>5 DEF InTrie, Way
<1>. QED
  BY <1>4, <1>5, <1>6

\* Where the chunks of a way lie.
LEMMA WayPlaces ==
  ASSUME TypeOK, NEW w, Placed(w), NEW f \in Seq(Bit), NEW n \in 0 .. Len(f), NEW p,
         Way(f, n, p)
  PROVE  \A j \in 0 .. n : w[p[j]] = Bits(f, j)
<1>. DEFINE S == {j \in Nat : j <= n => w[p[j]] = Bits(f, j)}
<1>0. n \in Nat /\ Len(f) \in Nat /\ n <= Len(f)
  BY LenProperties
<1>1. 0 \in S
  <2>1. p[0] = trie_root /\ p[0] \in Chunk
    BY <1>0 DEF Way
  <2>2. w[p[0]] = << >>
    BY <2>1, FlowTableAssumption DEF Placed
  <2>3. Bits(f, 0) = << >>
    BY <1>0, BitsOf
  <2>. QED
    BY <2>2, <2>3
<1>2. ASSUME NEW i \in Nat, i \in S PROVE i + 1 \in S
  <2>1. SUFFICES ASSUME i + 1 <= n PROVE w[p[i + 1]] = Bits(f, i + 1)
    OBVIOUS
  <2>2. i \in 0 .. n /\ i + 1 \in 1 .. n /\ i + 1 \in 0 .. n /\ i + 1 \in 0 .. Len(f)
        /\ i + 1 \in 1 .. Len(f) /\ (i + 1) - 1 = i /\ i + 1 > 0
    BY <1>0, <2>1
  <2>3. p[i] \in Chunk /\ p[i + 1] \in Chunk /\ memory[p[i]].child[f[i + 1]] = p[i + 1]
    BY <2>2 DEF Way
  <2>4. Bits(f, i + 1) = Append(Bits(f, i), f[i + 1]) /\ f[i + 1] \in Bit
    BY <2>2, BitsOf
  <2>5. w[p[i + 1]] = Append(w[p[i]], f[i + 1])
    BY <2>3, <2>4, FlowTableAssumption DEF Placed
  <2>6. w[p[i]] = Bits(f, i)
    BY <1>2, <2>2
  <2>. QED
    BY <2>4, <2>5, <2>6
<1>. HIDE DEF S
<1>3. Nat \subseteq S
  BY <1>1, <1>2, AllNaturals
<1>. QED
  BY <1>0, <1>3 DEF S

\* The node that a call has come to lies at the bits that it has gone.
LEMMA HereLies ==
  ASSUME TypeOK, CallInv, call.op # "none", NEW w, Placed(w), Here # NULL
  PROVE  Here \in Chunk /\ Leads(Here) /\ w[Here] = Bits(call.key.field, call.i)
<1>. DEFINE f == call.key.field
            i == call.i
<1>0. f \in Seq(Bit) /\ Len(f) \in Nat /\ i \in 0 .. Len(f) /\ i \in Nat
      /\ \A j \in 1 .. Len(f) : f[j] \in Bit
  BY CallKey
<1>1. CASE call.at = NULL
  <2>1. Here = trie_root /\ i = 0
    BY <1>1 DEF Here, CallInv
  <2>2. Here \in Chunk /\ w[Here] = << >> /\ Leads(Here)
    BY <2>1 DEF Placed, TypeOK, Pointer, Leads
  <2>. QED
    BY <1>0, <2>1, <2>2, BitsOf
<1>2. CASE call.at # NULL
  <2>1. Here = memory[call.at].child[f[i]] /\ i > 0 /\ call.at \in Chunk
        /\ w[call.at] = Bits(f, i - 1)
    BY <1>0, <1>2 DEF Here, CallInv, TypeOK, Pointer, Placed
  <2>2. f[i] \in Bit /\ Bits(f, i) = Append(Bits(f, i - 1), f[i])
    BY <1>0, <2>1, BitsOf
  <2>3. Here \in Chunk /\ Leads(Here)
    BY <2>1, <2>2, MemoryOK DEF Pointer, Leads
  <2>4. w[Here] = Append(w[call.at], f[i])
    BY <2>1, <2>2 DEF Placed
  <2>. QED
    BY <2>1, <2>2, <2>3, <2>4
<1>. QED
  BY <1>1, <1>2

\* The same without the places.
LEMMA HereLeads ==
  ASSUME TypeOK, CallInv, call.op # "none", Here # NULL
  PROVE  Here \in Chunk /\ Leads(Here)
<1>1. CASE call.at = NULL
  BY <1>1 DEF Here, TypeOK, Pointer, Leads
<1>2. CASE call.at # NULL
  <2>1. call.i \in 1 .. Len(call.key.field) /\ call.at \in Chunk
    <3>1. call.i # 0
      BY <1>2 DEF CallInv
    <3>. QED
      BY <1>2, <3>1, CallKey DEF TypeOK, Pointer
  <2>2. call.key.field[call.i] \in Bit
    BY <2>1, CallKey
  <2>. QED
    BY <1>2, <2>1, <2>2, MemoryOK DEF Here, Pointer, Leads
<1>. QED
  BY <1>1, <1>2

-------------------------------------------------------------------------------
(* What the steps do to the trie *)

\* flow_table_insert: a chunk that was free holds the new flow, and the walk begins.
LEMMA Starts ==
  ASSUME TypeOK, CallInv, NEW k \in Key, NEW n \in {0, 1}, flow_table_insert(k, n)
  PROVE  /\ Len(entries') = Len(entries) + 1 /\ entries'[Len(entries) + 1].key = k
         /\ \A e \in Flows : entries'[e] = entries[e]
         /\ \E c \in Available :
              /\ memory' \in Memory(Len(entries'))
              /\ \A d \in Chunk : memory'[d].is = IF d = c THEN Len(entries) + 1 ELSE memory[d].is
              /\ \A d \in Chunk, b \in Bit :
                   memory'[d].child[b] = IF d = c THEN NULL ELSE memory[d].child[b]
              /\ reused' = (reused \/ Leads(c))
              /\ call' = [op |-> "insert", key |-> k, i |-> 0, at |-> NULL, entry |-> c]
         /\ call = Idle /\ trie_root' = trie_root /\ freed' = freed /\ unfinished' = unfinished
<1>1. /\ Len(entries') = Len(entries) + 1 /\ entries'[Len(entries) + 1].key = k
      /\ \A e \in Flows : entries'[e] = entries[e]
  BY ChainGrows DEF Flows
<1>2. PICK c \in Available :
        /\ memory' = [memory EXCEPT ![c] = Fresh(Len(entries) + 1)]
        /\ reused' = (reused \/ Leads(c))
        /\ call' = [op |-> "insert", key |-> k, i |-> 0, at |-> NULL, entry |-> c]
  BY DEF flow_table_insert
<1>3. /\ c \in Chunk /\ Len(entries) \in Nat /\ memory \in Memory(Len(entries) + 1)
      /\ Len(entries) + 1 \in 1 .. Len(entries) + 1
  <2>1. Len(entries) \in Nat /\ memory \in Memory(Len(entries))
    BY MemoryOK
  <2>2. 1 .. Len(entries) \subseteq 1 .. Len(entries) + 1 /\ Len(entries) + 1 \in 1 .. Len(entries) + 1
    BY <2>1
  <2>. DEFINE A == Content(Len(entries))
              B == Content(Len(entries) + 1)
              C == [Bit -> Pointer]
  <2>3. memory \in [Chunk -> [is : A, child : C]] /\ A \subseteq B
    BY <2>1, <2>2 DEF Memory, Content
  <2>. HIDE DEF A, B, C
  <2>4. memory \in [Chunk -> [is : B, child : C]]
    BY <2>3
  <2>. QED
    BY <2>1, <2>2, <2>4 DEF Memory, Available, A, B, C
<1>. DEFINE N == Len(entries) + 1
<1>4. N \in Content(N) /\ memory' = [memory EXCEPT ![c] = Fresh(N)]
  BY <1>2, <1>3 DEF Content
<1>5. memory \in Memory(N) /\ c \in Chunk
  BY <1>3
<1>. HIDE DEF N
<1>6. /\ memory' \in Memory(N)
      /\ \A d \in Chunk : memory'[d].is = IF d = c THEN N ELSE memory[d].is
      /\ \A d \in Chunk, b \in Bit : memory'[d].child[b] = IF d = c THEN NULL ELSE memory[d].child[b]
  <2>1. /\ Fresh(N) \in [is : Content(N), child : [Bit -> Pointer]]
        /\ Fresh(N).is = N /\ \A b \in Bit : Fresh(N).child[b] = NULL
    BY <1>4, Cleared
  <2>. QED
    BY <1>4, <1>5, <2>1 DEF Memory
<1>7. call = Idle
  BY DEF CallInv, flow_table_insert, Ready
<1>8. trie_root' = trie_root /\ freed' = freed /\ unfinished' = unfinished
  BY DEF flow_table_insert
<1>. QED
  BY <1>1, <1>2, <1>6, <1>7, <1>8 DEF N

\* MakeInner: a chunk that was free becomes an inner node where there was none.
LEMMA Makes ==
  ASSUME TypeOK, CallInv, MakeInner
  PROVE  \E c \in Available :
           /\ memory' \in Memory(Len(entries)) /\ trie_root' \in Pointer
           /\ trie_root' = IF call.at = NULL THEN c ELSE trie_root
           /\ \A d \in Chunk : memory'[d].is = IF d = c THEN Inner ELSE memory[d].is
           /\ \A d \in Chunk, b \in Bit :
                memory'[d].child[b] =
                  IF call.at # NULL /\ d = call.at /\ b = call.key.field[call.i] THEN c
                  ELSE IF d = c THEN NULL ELSE memory[d].child[b]
           /\ reused' = (reused \/ Leads(c))
<1>1. PICK c \in Available :
        Point(c, [memory EXCEPT ![c] = Fresh(Inner)]) /\ reused' = (reused \/ Leads(c))
  BY DEF MakeInner
<1>2. PICK m : m = [memory EXCEPT ![c] = Fresh(Inner)]
  OBVIOUS
<1>3. c \in Chunk /\ memory \in Memory(Len(entries)) /\ call.op = "insert"
  BY MemoryOK DEF Available, MakeInner
<1>a. Inner \in Content(Len(entries))
  BY DEF Content
<1>4. /\ m \in Memory(Len(entries))
      /\ \A d \in Chunk : m[d].is = IF d = c THEN Inner ELSE memory[d].is
      /\ \A d \in Chunk, b \in Bit : m[d].child[b] = IF d = c THEN NULL ELSE memory[d].child[b]
  <2>1. /\ Fresh(Inner) \in [is : Content(Len(entries)), child : [Bit -> Pointer]]
        /\ Fresh(Inner).is = Inner /\ \A b \in Bit : Fresh(Inner).child[b] = NULL
    BY <1>a, Cleared
  <2>. QED
    BY <1>2, <1>3, <2>1 DEF Memory
<1>5. Point(c, m)
  BY <1>1, <1>2
<1>6. /\ memory' \in Memory(Len(entries)) /\ trie_root' \in Pointer
      /\ trie_root' = IF call.at = NULL THEN c ELSE trie_root
      /\ \A d \in Chunk : memory'[d].is = m[d].is
      /\ \A d \in Chunk, b \in Bit :
           memory'[d].child[b] = IF call.at # NULL /\ d = call.at /\ b = call.key.field[call.i]
                                 THEN c ELSE m[d].child[b]
  BY <1>3, <1>4, <1>5, Pointed
<1>7. c \in Available /\ reused' = (reused \/ Leads(c))
  BY <1>1
<1>. QED
  BY <1>4, <1>6, <1>7

\* InsertEnds: the link at the end of the field leads to the flow.
LEMMA Ends ==
  ASSUME TypeOK, CallInv, InsertEnds
  PROVE  /\ memory' \in Memory(Len(entries)) /\ trie_root' \in Pointer
         /\ call.entry \in Chunk /\ memory[call.entry].is = Len(entries)
         /\ trie_root' = IF call.at = NULL THEN call.entry ELSE trie_root
         /\ \A d \in Chunk : memory'[d].is = memory[d].is
         /\ \A d \in Chunk, b \in Bit :
              memory'[d].child[b] = IF call.at # NULL /\ d = call.at /\ b = call.key.field[call.i]
                                    THEN call.entry ELSE memory[d].child[b]
<1>1. call.entry \in Chunk /\ call.op = "insert" /\ Point(call.entry, memory)
      /\ memory[call.entry].is = Len(entries)
  BY DEF InsertEnds, TypeOK, Pointer, CallInv
<1>2. memory \in Memory(Len(entries))
  BY MemoryOK
<1>. QED
  BY <1>1, <1>2, Pointed

-------------------------------------------------------------------------------
(* The inductive invariant *)

\* A table without flows.
LEMMA InitFlowTableInv == Init => FlowTableInv
<1>. SUFFICES ASSUME Init PROVE FlowTableInv
  OBVIOUS
<1>1. Len(entries) = 0 /\ Flows = {} /\ \A b \in Buckets : Len(hash_table[b]) = 0
  BY DEF Init, Flows
<1>2. entries \in Seq(Entry) /\ hash_table \in [Buckets -> Seq(Flows)]
  <2>1. << >> \in Seq(Entry) /\ << >> \in Seq(Flows)
    OBVIOUS
  <2>. QED
    BY <2>1 DEF Init
<1>3. memory \in [Chunk -> [is : Flows \cup {Nothing, Inner}, child : [Bit -> Pointer]]]
  BY DEF Init, Fresh, Pointer
<1>4. call = Idle /\ trie_root = NULL
      /\ \A c \in Chunk : memory[c].is = Nothing /\ \A b \in Bit : memory[c].child[b] = NULL
  BY DEF Init, Fresh
<1>5. TypeOK
  <2>1. call \in [op : {"none", "insert", "lookup"}, key : Key \cup {NULL},
                 i : 0 .. MaxLength, at : Pointer, entry : Pointer] /\ call.op # "insert"
    BY <1>4, FlowTableAssumption DEF Idle, Pointer
  <2>. QED
    BY <1>1, <1>2, <1>3, <1>4, <2>1 DEF TypeOK, Init, Pointer
<1>6. CallInv /\ ChainInv
  BY <1>1, <1>4, FlowTableAssumption DEF CallInv, ChainInv, Idle, Leads, Init
<1>7. PlacedInv
  <2>1. [c \in Chunk |-> << >>] \in [Chunk -> Seq(Bit)]
    BY EmptySeq
  <2>2. Placed([c \in Chunk |-> << >>])
    BY <1>1, <1>4 DEF Placed, Idle
  <2>. QED
    BY <2>1, <2>2 DEF PlacedInv
<1>8. WalkInv /\ LooseInv /\ LostInv
  BY <1>1, <1>4 DEF WalkInv, LooseInv, LostInv, Completed, Idle
<1>. QED
  BY <1>5, <1>6, <1>7, <1>8 DEF FlowTableInv, TrieInv

\* Steps of a call keep its variables in their types.
LEMMA StepTypeOK == FlowTableInv /\ [Next]_vars => TypeOK'
<1>. SUFFICES ASSUME FlowTableInv, [Next]_vars PROVE TypeOK'
  OBVIOUS
<1>0. TypeOK /\ CallInv
  BY DEF FlowTableInv
<1>a. Idle \in [op : {"none", "insert", "lookup"}, key : Key \cup {NULL},
               i : 0 .. MaxLength, at : Pointer, entry : Pointer]
  BY FlowTableAssumption DEF Idle, Pointer
<1>1. ASSUME NEW k \in Key, NEW n \in {0, 1}, flow_table_insert(k, n) PROVE TypeOK'
  <2>1. /\ entries' \in Seq(Entry) /\ hash_table' \in [Buckets -> Seq(Flows')]
        /\ Len(entries) \in Nat /\ Len(entries') = Len(entries) + 1
    BY <1>0, <1>1, ChainGrows, MemoryOK DEF Flows
  <2>2. PICK c \in Available :
              /\ memory' \in Memory(Len(entries'))
              /\ call' = [op |-> "insert", key |-> k, i |-> 0, at |-> NULL, entry |-> c]
    BY <1>0, <1>1, Starts
  <2>3. trie_root' = trie_root /\ freed' = freed /\ unfinished' = unfinished /\ answer' = answer
        /\ stale' = stale /\ reused' \in BOOLEAN
    <3>1. trie_root' = trie_root /\ freed' = freed /\ unfinished' = unfinished /\ answer' = answer
          /\ stale' = stale
      BY <1>1 DEF flow_table_insert
    <3>2. PICK d \in Available : reused' = (reused \/ Leads(d))
      BY <1>1 DEF flow_table_insert
    <3>. QED
      BY <3>1, <3>2
  <2>4. c \in Chunk /\ c # NULL
    BY <2>2, FlowTableAssumption DEF Available
  <2>5. Flows \subseteq Flows'
    BY <2>1 DEF Flows
  <2>6. call' \in [op : {"none", "insert", "lookup"}, key : Key \cup {NULL},
                  i : 0 .. MaxLength, at : Pointer, entry : Pointer] /\ call'.entry # NULL
    BY <2>2, <2>4, FlowTableAssumption DEF Pointer
  <2>7. memory' \in [Chunk -> [is : Flows' \cup {Nothing, Inner}, child : [Bit -> Pointer]]]
    BY <2>2 DEF Memory, Flows, Content
  <2>. QED
    BY <1>0, <2>1, <2>3, <2>5, <2>6, <2>7 DEF TypeOK
<1>2. ASSUME NEW k \in Key, LookupExact(k) PROVE TypeOK'
  <2>1. /\ FirstOf(Places(k)) \in Places(k) /\ Bucket[k.field] \in Buckets
        /\ \A b \in Buckets : \A i \in 1 .. Len(hash_table[b]) : hash_table[b][i] \in 1 .. Len(entries)
    BY <1>0, <1>2, ChainOfKey DEF LookupExact
  <2>2. hash_table[Bucket[k.field]][FirstOf(Places(k))] \in Flows
    BY <2>1 DEF Places, Flows
  <2>. QED
    BY <1>0, <1>2, <2>2 DEF TypeOK, LookupExact, Flows, table, trie
<1>3. ASSUME NEW k \in Key, LookupWildcard(k) PROVE TypeOK'
  BY <1>0, <1>3, FlowTableAssumption DEF TypeOK, LookupWildcard, Pointer, Flows, table, trie
<1>4. ASSUME NEW k \in Key, flow_table_delete(k) PROVE TypeOK'
  <2>. DEFINE d == hash_table[Bucket[k.field]][FirstOf(Places(k))]
  <2>1. /\ hash_table' \in [Buckets -> Seq(1 .. Len(entries))]
        /\ d \in 1 .. Len(entries) /\ freed' = freed \cup {d}
    BY <1>0, <1>4, ChainShrinks
  <2>2. freed \subseteq 1 .. Len(entries)
    BY <1>0 DEF TypeOK, Flows
  <2>3. freed' \subseteq 1 .. Len(entries)
    BY ONLY <2>1, <2>2
  <2>. QED
    BY <1>0, <1>4, <2>1, <2>3 DEF TypeOK, flow_table_delete, Flows, trie
<1>5. CASE Descend
  <2>1. Here \in Chunk
    BY <1>0, <1>5, HereLeads DEF Descend
  <2>2. call.i + 1 \in 0 .. MaxLength
    BY <1>0, <1>5, CallKey, FlowTableAssumption DEF Descend
  <2>3. /\ call' = [call EXCEPT !.i = @ + 1, !.at = Here,
                      !.entry = IF call.op = "lookup" /\ HasAction(Here) THEN Here ELSE @]
        /\ stale' \in BOOLEAN /\ UNCHANGED <<table, trie, unfinished, answer>>
    BY <1>5 DEF Descend
  <2>4. call' \in [op : {"none", "insert", "lookup"}, key : Key \cup {NULL},
                  i : 0 .. MaxLength, at : Pointer, entry : Pointer]
    BY <1>0, <2>1, <2>2, <2>3 DEF TypeOK, Pointer
  <2>5. call'.op = "insert" => call'.entry # NULL
    BY <1>0, <2>3 DEF TypeOK
  <2>. QED
    BY <1>0, <2>3, <2>4, <2>5 DEF TypeOK, Flows, table, trie
<1>6. CASE MakeInner
  <2>1. PICK c \in Available :
              /\ memory' \in Memory(Len(entries)) /\ trie_root' \in Pointer
              /\ reused' = (reused \/ Leads(c))
    BY <1>0, <1>6, Makes
  <2>2. UNCHANGED <<table, call, unfinished, answer, stale>>
    BY <1>6 DEF MakeInner
  <2>. QED
    BY <1>0, <2>1, <2>2 DEF TypeOK, Flows, table, Memory, Content
<1>7. CASE OutOfMemory
  <2>1. Len(entries) \in Flows
    BY <1>0, <1>7 DEF CallInv, OutOfMemory
  <2>2. call'.op = "none"
    BY <1>7 DEF OutOfMemory, Idle
  <2>. QED
    BY <1>0, <1>7, <1>a, <2>1, <2>2 DEF TypeOK, OutOfMemory, Flows, table, trie
<1>8. CASE InsertEnds
  <2>1. memory' \in Memory(Len(entries)) /\ trie_root' \in Pointer
    BY <1>0, <1>8, Ends
  <2>2. call' = Idle /\ call'.op = "none" /\ UNCHANGED <<table, unfinished, answer, stale, reused>>
    BY <1>8 DEF InsertEnds, Idle
  <2>. QED
    BY <1>0, <1>a, <2>1, <2>2 DEF TypeOK, Flows, table, Memory, Content
<1>9. CASE LookupEnds
  <2>1. answer' \in Flows \cup {Nothing, Inner}
    <3>1. Here \in Pointer
      BY <1>0, <1>9, HereLeads DEF LookupEnds, Pointer
    <3>2. call.entry \in Pointer
      BY <1>0 DEF TypeOK
    <3>3. PICK x \in Pointer : answer' = IF x = NULL THEN Nothing ELSE memory[x].is
      BY <1>9, <3>1, <3>2 DEF LookupEnds
    <3>. QED
      BY <1>0, <3>3, MemoryOK DEF Pointer
  <2>2. call' = Idle /\ call'.op = "none" /\ UNCHANGED <<table, trie, unfinished, stale>>
    BY <1>9 DEF LookupEnds, Idle
  <2>. QED
    BY <1>0, <1>a, <2>1, <2>2 DEF TypeOK, Flows, table, trie
<1>10. CASE UNCHANGED vars
  BY <1>0, <1>10 DEF TypeOK, vars, table, trie, Flows
<1>. QED
  BY <1>1, <1>2, <1>3, <1>4, <1>5, <1>6, <1>7, <1>8, <1>9, <1>10 DEF Next

\* A call knows where it is, and what it came through is not handed out meanwhile.
LEMMA StepCallInv == FlowTableInv /\ TypeOK' /\ [Next]_vars => CallInv'
<1>. SUFFICES ASSUME FlowTableInv, TypeOK', [Next]_vars PROVE CallInv'
  OBVIOUS
<1>0. TypeOK /\ CallInv /\ Len(entries) \in Nat /\ NULL \notin Chunk
  BY MemoryOK, FlowTableAssumption DEF FlowTableInv
<1>a. Idle.op = "none" /\ Idle.at = NULL /\ Idle.i = 0
  BY DEF Idle
<1>b. \A c \in Chunk : Leads(c) => memory[c].is # Nothing
  BY <1>0 DEF CallInv
<1>1. ASSUME NEW k \in Key, NEW n \in {0, 1}, flow_table_insert(k, n) PROVE CallInv'
  <2>1. /\ Len(entries') = Len(entries) + 1 /\ entries'[Len(entries) + 1].key = k
        /\ freed' = freed /\ unfinished' = unfinished /\ trie_root' = trie_root
    BY <1>0, <1>1, Starts
  <2>2. PICK c \in Available :
          /\ \A d \in Chunk : memory'[d].is = IF d = c THEN Len(entries) + 1 ELSE memory[d].is
          /\ \A d \in Chunk, b \in Bit :
               memory'[d].child[b] = IF d = c THEN NULL ELSE memory[d].child[b]
          /\ call' = [op |-> "insert", key |-> k, i |-> 0, at |-> NULL, entry |-> c]
    BY <1>0, <1>1, Starts
  <2>3. c \in Chunk
    BY DEF Available
  <2>4. freed \subseteq Flows /\ unfinished \subseteq Flows /\ Len(entries) + 1 \notin Flows
    BY <1>0 DEF TypeOK, Flows
  <2>5. 0 \in 0 .. Len(k.field)
    <3>1. Len(k.field) \in Nat
      BY FlowTableAssumption, FieldSeq
    <3>. QED
      BY <3>1
  <2>6. /\ call'.op = "insert" /\ call'.key = k /\ call'.i = 0 /\ call'.at = NULL
        /\ call'.entry = c
    BY <2>2
  <2>7. Len(entries') \in Flows' /\ Len(entries') \notin freed' \cup unfinished'
    BY <1>0, <2>1, <2>4 DEF Flows
  <2>8. \A d \in Chunk : Leads(d)' => memory'[d].is # Nothing
    <3>. SUFFICES ASSUME NEW d \in Chunk, Leads(d)' PROVE memory'[d].is # Nothing
      OBVIOUS
    <3>1. CASE d = c
      BY <1>0, <2>2, <3>1 DEF Nothing
    <3>2. CASE d # c
      <4>1. Leads(d)
        BY <1>0, <2>1, <2>2, <3>2 DEF Leads
      <4>. QED
        BY <1>b, <2>2, <3>2, <4>1
    <3>. QED
      BY <3>1, <3>2
  <2>. QED
    BY <2>1, <2>2, <2>3, <2>5, <2>6, <2>7, <2>8 DEF CallInv
<1>2. ASSUME NEW k \in Key, LookupExact(k) PROVE CallInv'
  BY <1>0, <1>2 DEF CallInv, LookupExact, table, trie, Flows, Available, Leads, Places
<1>3. ASSUME NEW k \in Key, LookupWildcard(k) PROVE CallInv'
  <2>1. Len(k.field) \in Nat
    BY FlowTableAssumption, FieldSeq
  <2>2. /\ call'.op = "lookup" /\ call'.key = k /\ call'.i = 0 /\ call'.at = NULL
        /\ UNCHANGED <<memory, trie_root>> /\ Places(k) = {} /\ UNCHANGED <<entries, hash_table>>
    BY <1>3 DEF LookupWildcard, trie, table
  <2>3. Places(call.key)' = {}
    BY <2>2 DEF Places
  <2>. QED
    BY <1>b, <2>1, <2>2, <2>3 DEF CallInv, Leads
<1>4. ASSUME NEW k \in Key, flow_table_delete(k) PROVE CallInv'
  <2>1. /\ call' = call /\ call.op = "none" /\ call = Idle
        /\ UNCHANGED <<memory, trie_root>>
    BY <1>0, <1>4 DEF flow_table_delete, Ready, CallInv, trie
  <2>. QED
    BY <1>a, <1>b, <2>1 DEF CallInv, Leads
<1>5. CASE Descend
  <2>1. /\ call.op # "none" /\ call.i < Len(call.key.field) /\ Here # NULL
        /\ UNCHANGED <<table, trie, unfinished>>
        /\ stale' = (memory[Here].is \in freed)
    BY <1>5 DEF Descend
  <2>2. /\ call'.op = call.op /\ call'.key = call.key /\ call'.i = call.i + 1 /\ call'.at = Here
        /\ call'.entry = IF call.op = "lookup" /\ HasAction(Here) THEN Here ELSE call.entry
    <3>1. call' = [call EXCEPT !.i = @ + 1, !.at = Here,
                     !.entry = IF call.op = "lookup" /\ HasAction(Here) THEN Here ELSE @]
      BY <1>5 DEF Descend
    <3>2. call \in [op : {"none", "insert", "lookup"}, key : Key \cup {NULL},
                    i : 0 .. MaxLength, at : Pointer, entry : Pointer]
      BY <1>0 DEF TypeOK
    <3>. QED
      BY <3>1, <3>2
  <2>3. Here \in Chunk /\ Leads(Here)
    BY <1>0, <2>1, HereLeads
  <2>4. call.key \in Key /\ call.i \in Nat /\ call.i + 1 \in 0 .. Len(call.key.field) /\ call.i + 1 # 0
    BY <1>0, <2>1, CallKey
  <2>5. ~ stale' => Here \notin Available'
    BY <1>b, <2>1, <2>3 DEF Available, table, trie
  <2>6. call.op = "insert" => call'.entry = call.entry
    BY <2>2
  <2>7. call'.op = "lookup" => Places(call.key)' = {}
    BY <1>0, <2>1, <2>2 DEF CallInv, Places, table
  <2>. QED
    BY <1>0, <2>1, <2>2, <2>3, <2>4, <2>5, <2>6, <2>7 DEF CallInv, Flows, Leads, table, trie
<1>6. CASE MakeInner
  <2>1. PICK c \in Available :
              /\ trie_root' = IF call.at = NULL THEN c ELSE trie_root
              /\ \A d \in Chunk : memory'[d].is = IF d = c THEN Inner ELSE memory[d].is
              /\ \A d \in Chunk, b \in Bit :
                   memory'[d].child[b] =
                     IF call.at # NULL /\ d = call.at /\ b = call.key.field[call.i] THEN c
                     ELSE IF d = c THEN NULL ELSE memory[d].child[b]
    BY <1>0, <1>6, Makes
  <2>2. UNCHANGED <<table, call, unfinished, stale>> /\ call.op = "insert" /\ ~ stale
    BY <1>6 DEF MakeInner
  <2>3. c \in Chunk /\ (memory[c].is = Nothing \/ memory[c].is \in freed)
    BY DEF Available
  <2>4. call.at # NULL => call.at \in Chunk /\ call.at \notin Available /\ call.at # c
    BY <1>0, <2>2 DEF CallInv, TypeOK, Pointer
  <2>5. call.at # NULL => call.at \notin Available'
    BY <2>1, <2>2, <2>4 DEF Available, table
  <2>6. call.entry \in Chunk /\ call.entry # c /\ memory'[call.entry].is = Len(entries)
    <3>1. /\ call.entry \in Chunk /\ memory[call.entry].is = Len(entries)
          /\ Len(entries) \notin freed /\ Len(entries) # Nothing
      BY <1>0, <2>2 DEF CallInv, TypeOK, Pointer, Flows, Nothing
    <3>. QED
      BY <2>1, <2>3, <3>1
  <2>7. \A d \in Chunk : Leads(d)' => memory'[d].is # Nothing
    <3>. SUFFICES ASSUME NEW d \in Chunk, Leads(d)' PROVE memory'[d].is # Nothing
      OBVIOUS
    <3>1. CASE d = c
      BY <2>1, <3>1 DEF Nothing, Inner
    <3>2. CASE d # c
      <4>1. Leads(d)
        BY <1>0, <2>1, <3>2 DEF Leads
      <4>. QED
        BY <1>b, <2>1, <3>2, <4>1
    <3>. QED
      BY <3>1, <3>2
  <2>. QED
    BY <1>0, <2>2, <2>5, <2>6, <2>7 DEF CallInv, Flows, table
<1>7. CASE OutOfMemory
  <2>1. call' = Idle /\ UNCHANGED <<memory, trie_root>>
    BY <1>7 DEF OutOfMemory, trie
  <2>. QED
    BY <1>a, <1>b, <2>1 DEF CallInv, Leads
<1>8. CASE InsertEnds
  <2>1. /\ call.entry \in Chunk /\ memory[call.entry].is = Len(entries)
        /\ trie_root' = IF call.at = NULL THEN call.entry ELSE trie_root
        /\ \A d \in Chunk : memory'[d].is = memory[d].is
        /\ \A d \in Chunk, b \in Bit :
             memory'[d].child[b] = IF call.at # NULL /\ d = call.at /\ b = call.key.field[call.i]
                                   THEN call.entry ELSE memory[d].child[b]
    BY <1>0, <1>8, Ends
  <2>2. call' = Idle /\ call.op = "insert"
    BY <1>8 DEF InsertEnds
  <2>3. Len(entries) # Nothing
    BY <1>0, <2>2 DEF CallInv, Flows, Nothing
  <2>4. \A d \in Chunk : Leads(d)' => memory'[d].is # Nothing
    <3>. SUFFICES ASSUME NEW d \in Chunk, Leads(d)' PROVE memory'[d].is # Nothing
      OBVIOUS
    <3>1. CASE d = call.entry
      BY <2>1, <2>3, <3>1
    <3>2. CASE d # call.entry
      <4>1. Leads(d)
        BY <1>0, <2>1, <3>2 DEF Leads
      <4>. QED
        BY <1>b, <2>1, <3>2, <4>1
    <3>. QED
      BY <3>1, <3>2
  <2>. QED
    BY <1>a, <2>2, <2>4 DEF CallInv
<1>9. CASE LookupEnds
  <2>1. call' = Idle /\ UNCHANGED <<memory, trie_root>>
    BY <1>9 DEF LookupEnds, trie
  <2>. QED
    BY <1>a, <1>b, <2>1 DEF CallInv, Leads
<1>10. CASE UNCHANGED vars
  BY <1>0, <1>10 DEF CallInv, vars, table, trie, Flows, Available, Leads, Places
<1>. QED
  BY <1>1, <1>2, <1>3, <1>4, <1>5, <1>6, <1>7, <1>8, <1>9, <1>10 DEF Next

\* When the trie stays as it is and no insertion ends well, neither is lost nor found.
LEMMA TrieStays ==
  ASSUME UNCHANGED <<entries, memory, trie_root>>, Completed' = Completed
  PROVE  /\ LooseInv => LooseInv'
         /\ LostInv => LostInv'
<1>1. LooseInv => LooseInv'
  BY DEF LooseInv, Leads, Flows
<1>2. \A e : InTrie(e)' = InTrie(e)
  BY DEF InTrie
<1>. QED
  BY <1>1, <1>2 DEF LostInv

\* flow_table_insert: the chunk of the new flow was at no path, and no link leads to it.
LEMMA StartKeepsTrie ==
  ASSUME FlowTableInv, TypeOK', NEW k \in Key, NEW n \in {0, 1}, flow_table_insert(k, n)
  PROVE  TrieInv'
<1>0. TypeOK /\ CallInv /\ TrieInv /\ Len(entries) \in Nat /\ NULL \notin Chunk
  BY MemoryOK, FlowTableAssumption DEF FlowTableInv
<1>1. /\ Len(entries') = Len(entries) + 1 /\ entries'[Len(entries) + 1].key = k
      /\ \A e \in Flows : entries'[e] = entries[e]
      /\ call = Idle /\ trie_root' = trie_root /\ unfinished' = unfinished
  BY <1>0, Starts
<1>2. PICK c \in Available :
        /\ \A d \in Chunk : memory'[d].is = IF d = c THEN Len(entries) + 1 ELSE memory[d].is
        /\ \A d \in Chunk, b \in Bit :
             memory'[d].child[b] = IF d = c THEN NULL ELSE memory[d].child[b]
        /\ reused' = (reused \/ Leads(c))
        /\ call' = [op |-> "insert", key |-> k, i |-> 0, at |-> NULL, entry |-> c]
  BY <1>0, Starts
<1>. SUFFICES ASSUME ~ reused' PROVE (PlacedInv /\ WalkInv /\ LooseInv /\ LostInv)'
  BY DEF TrieInv
<1>3. PlacedInv /\ WalkInv /\ LooseInv /\ LostInv /\ ~ Leads(c) /\ c \in Chunk
  BY <1>0, <1>2 DEF TrieInv, Available
<1>4. /\ Flows' = Flows \cup {Len(entries) + 1} /\ Len(entries) + 1 \notin Flows
      /\ unfinished \subseteq Flows
  BY <1>0, <1>1 DEF Flows, TypeOK
<1>5. Completed' = Completed /\ Completed \subseteq Flows
  <2>1. call.op = "none" /\ call'.op = "insert"
    BY <1>1, <1>2 DEF Idle
  <2>. QED
    BY <1>0, <1>1, <1>4, <2>1 DEF Completed, Flows
<1>6. k.field \in Seq(Bit)
  BY FlowTableAssumption, FieldSeq
<1>7. \A d \in Chunk, b \in Bit : trie_root # c /\ memory[d].child[b] # c
  BY <1>3 DEF Leads
<1>8. PlacedInv'
  <2>1. PICK w \in [Chunk -> Seq(Bit)] : Placed(w)
    BY <1>3 DEF PlacedInv
  <2>2. PICK u : u = [w EXCEPT ![c] = k.field]
    OBVIOUS
  <2>3. /\ u \in [Chunk -> Seq(Bit)] /\ u[c] = k.field
        /\ \A d \in Chunk : d # c => u[d] = w[d]
    BY <1>3, <1>6, <2>2
  <2>4. trie_root' # NULL => u[trie_root'] = << >>
    BY <1>0, <1>1, <1>7, <2>1, <2>3 DEF Placed, TypeOK, Pointer
  <2>5. ASSUME NEW d \in Chunk, NEW b \in Bit, memory'[d].child[b] # NULL
        PROVE  u[memory'[d].child[b]] = Append(u[d], b)
    <3>1. d # c /\ memory'[d].child[b] = memory[d].child[b] /\ memory[d].child[b] \in Chunk \ {c}
      BY <1>0, <1>2, <1>7, <2>5, MemoryOK DEF Pointer
    <3>. QED
      BY <2>1, <2>3, <2>5, <3>1 DEF Placed
  <2>6. ASSUME NEW d \in Chunk, memory'[d].is \in Flows'
        PROVE  u[d] = entries'[memory'[d].is].key.field
    <3>1. CASE d = c
      BY <1>1, <1>2, <2>3, <3>1
    <3>2. CASE d # c
      <4>1. memory'[d].is = memory[d].is /\ memory[d].is \in Flows
        BY <1>0, <1>2, <1>4, <2>6, <3>2, MemoryOK DEF Nothing, Inner
      <4>. QED
        BY <1>1, <2>1, <2>3, <3>2, <4>1 DEF Placed
    <3>. QED
      BY <3>1, <3>2
  <2>7. call'.at = NULL /\ call'.op # "lookup"
    BY <1>2
  <2>8. Placed(u)'
    BY <2>4, <2>5, <2>6, <2>7 DEF Placed
  <2>. QED
    BY <2>3, <2>8 DEF PlacedInv
<1>9. WalkInv'
  BY <1>2 DEF WalkInv
<1>10. LooseInv'
  <2>. SUFFICES ASSUME NEW d \in Chunk, memory'[d].is \in Flows' \ Completed', Leads(d)'
                PROVE  FALSE
    BY DEF LooseInv
  <2>1. Leads(d)
    BY <1>0, <1>1, <1>2 DEF Leads
  <2>2. d # c
    BY <1>3, <2>1
  <2>3. memory[d].is \in Flows \ Completed
    BY <1>0, <1>2, <1>4, <1>5, <2>2, MemoryOK DEF Nothing, Inner
  <2>. QED
    BY <1>3, <2>1, <2>3 DEF LooseInv
<1>11. LostInv'
  <2>. SUFFICES ASSUME NEW e \in Completed
                PROVE  \/ InTrie(e)'
                       \/ \E later \in Completed :
                            later > e /\ IsPrefix(entries'[later].key.field, entries'[e].key.field)
    BY <1>5 DEF LostInv
  <2>1. e \in Flows /\ entries'[e] = entries[e] /\ e \in Flows'
    BY <1>1, <1>4, <1>5
  <2>2. CASE InTrie(e)
    <3>1. /\ \A d \in Chunk, b \in Bit : d # c /\ memory[d].child[b] # NULL =>
               memory'[d].child[b] = memory[d].child[b]
          /\ \A d \in Chunk : d # c => memory'[d].is = memory[d].is
      BY <1>2
    <3>. QED
      BY <1>0, <1>1, <1>3, <2>1, <2>2, <3>1, InTrieStays
  <2>3. CASE \E later \in Completed :
               later > e /\ IsPrefix(entries[later].key.field, entries[e].key.field)
    BY <1>1, <1>5, <2>1, <2>3
  <2>. QED
    BY <1>3, <2>2, <2>3 DEF LostInv
<1>. QED
  BY <1>8, <1>9, <1>10, <1>11

\* Descend: the call goes on to the node that its link leads to.
LEMMA DescendKeepsTrie == ASSUME FlowTableInv, Descend PROVE TrieInv'
<1>. DEFINE f == call.key.field
            i == call.i
<1>0. TypeOK /\ CallInv /\ TrieInv /\ NULL \notin Chunk
  BY FlowTableAssumption DEF FlowTableInv
<1>1. /\ call.op # "none" /\ i < Len(f) /\ Here # NULL
      /\ UNCHANGED <<entries, memory, trie_root, reused, unfinished>>
  BY DEF Descend, table, trie
<1>2. /\ call'.op = call.op /\ call'.key = call.key /\ call'.i = i + 1 /\ call'.at = Here
      /\ call'.entry = IF call.op = "lookup" /\ HasAction(Here) THEN Here ELSE call.entry
  <2>1. call' = [call EXCEPT !.i = @ + 1, !.at = Here,
                   !.entry = IF call.op = "lookup" /\ HasAction(Here) THEN Here ELSE @]
    BY DEF Descend
  <2>2. call \in [op : {"none", "insert", "lookup"}, key : Key \cup {NULL},
                  i : 0 .. MaxLength, at : Pointer, entry : Pointer]
    BY <1>0 DEF TypeOK
  <2>. QED
    BY <2>1, <2>2
<1>3. f \in Seq(Bit) /\ Len(f) \in Nat /\ i \in 0 .. Len(f) /\ i \in Nat /\ (i + 1) - 1 = i
      /\ \A j \in 1 .. Len(f) : f[j] \in Bit
  BY <1>0, <1>1, CallKey
<1>. SUFFICES ASSUME ~ reused' PROVE (PlacedInv /\ WalkInv /\ LooseInv /\ LostInv)'
  BY DEF TrieInv
<1>4. PlacedInv /\ WalkInv /\ LooseInv /\ LostInv
  BY <1>0, <1>1 DEF TrieInv
<1>5. LooseInv' /\ LostInv'
  <2>1. Completed' = Completed
    BY <1>1, <1>2 DEF Completed, Flows
  <2>. QED
    BY <1>1, <1>4, <2>1, TrieStays
<1>6. PlacedInv'
  <2>1. PICK w \in [Chunk -> Seq(Bit)] : Placed(w)
    BY <1>4 DEF PlacedInv
  <2>2. Here \in Chunk /\ w[Here] = Bits(f, i)
    BY <1>0, <1>1, <2>1, HereLies
  <2>3. call'.at # NULL => w[call'.at] = Bits(call'.key.field, call'.i - 1)
    BY <1>2, <1>3, <2>2
  <2>4. call'.op = "lookup" /\ call'.entry # NULL =>
          \E j \in 0 .. Len(call'.key.field) : w[call'.entry] = Bits(call'.key.field, j)
    <3>1. CASE call'.entry = Here
      BY <1>2, <1>3, <2>2, <3>1
    <3>2. CASE call'.entry = call.entry
      BY <1>2, <2>1, <3>2 DEF Placed
    <3>. QED
      BY <1>2, <3>1, <3>2
  <2>5. Placed(w)'
    BY <1>1, <2>1, <2>3, <2>4 DEF Placed, Flows
  <2>. QED
    BY <2>5 DEF PlacedInv
<1>7. WalkInv'
  <2>1. PICK g : g = f
    OBVIOUS
  <2>2. PICK n : n = i
    OBVIOUS
  <2>3. SUFFICES ASSUME call.op = "insert"
                 PROVE  \E q : Way(g, n, q)' /\ q[n] = Here
    <3>1. WalkInv' <=> (call'.op = "insert" /\ call'.at # NULL =>
                          \E q : Way(call.key.field, call.i - 1, q)' /\ q[call'.i - 1] = call'.at)
      BY DEF WalkInv
    <3>2. call'.key.field = g /\ call'.i - 1 = n
      BY <1>2, <1>3, <2>1, <2>2
    <3>3. \A q : Way(call.key.field, call.i - 1, q)' <=> Way(g, n, q)'
      BY <3>2 DEF Way
    <3>. QED
      BY <1>2, <2>3, <3>1, <3>2, <3>3
  <2>4. Here \in Chunk /\ n \in Nat
    BY <1>0, <1>1, <1>3, <2>2, HereLeads
  <2>5. CASE call.at = NULL
    <3>1. n = 0 /\ Here = trie_root
      BY <1>0, <2>2, <2>5 DEF CallInv, Here
    <3>2. PICK q : q = [j \in 0 .. 0 |-> Here]
      OBVIOUS
    <3>3. q \in [0 .. n -> Chunk] /\ q[0] = trie_root' /\ q[n] = Here
      BY <1>1, <2>4, <3>1, <3>2
    <3>4. Way(g, n, q)'
      BY <3>1, <3>3 DEF Way
    <3>. QED
      BY <3>3, <3>4
  <2>6. CASE call.at # NULL
    <3>1. PICK p : Way(g, n - 1, p) /\ p[n - 1] = call.at
      BY <1>4, <2>1, <2>2, <2>3, <2>6 DEF WalkInv
    <3>2. n # 0 /\ Here = memory[call.at].child[g[n]]
      BY <1>0, <2>1, <2>2, <2>6 DEF CallInv, Here
    <3>3. PICK h : h = Here
      OBVIOUS
    <3>4. PICK q : q = [j \in 0 .. n |-> IF j = n THEN h ELSE p[j]]
      OBVIOUS
    <3>5. /\ p \in [0 .. n - 1 -> Chunk] /\ p[0] = trie_root
          /\ \A j \in 1 .. n - 1 : memory[p[j - 1]].child[g[j]] = p[j]
      BY <3>1 DEF Way
    <3>6. q \in [0 .. n -> Chunk] /\ q[0] = trie_root /\ q[n] = Here
      BY <2>4, <3>2, <3>3, <3>4, <3>5
    <3>7. ASSUME NEW j \in 1 .. n PROVE memory[q[j - 1]].child[g[j]] = q[j]
      <4>1. CASE j = n
        <5>1. q[j - 1] = call.at /\ q[j] = Here
          BY <2>4, <3>1, <3>2, <3>3, <3>4, <4>1
        <5>. QED
          BY <3>2, <4>1, <5>1
      <4>2. CASE j # n
        <5>1. j \in 1 .. n - 1 /\ q[j - 1] = p[j - 1] /\ q[j] = p[j]
          BY <2>4, <3>2, <3>4, <4>2
        <5>. QED
          BY <3>5, <5>1
      <4>. QED
        BY <4>1, <4>2
    <3>8. Way(g, n, q)'
      BY <1>1, <3>6, <3>7 DEF Way
    <3>. QED
      BY <3>6, <3>8
  <2>. QED
    BY <2>5, <2>6
<1>. QED
  BY <1>5, <1>6, <1>7

\* MakeInner: the new node lies where the insertion is, and only a NULL link changes.
LEMMA MakeKeepsTrie == ASSUME FlowTableInv, TypeOK', MakeInner PROVE TrieInv'
<1>. DEFINE f == call.key.field
            i == call.i
<1>0. TypeOK /\ CallInv /\ TrieInv /\ NULL \notin Chunk
  BY FlowTableAssumption DEF FlowTableInv
<1>1. /\ call.op = "insert" /\ i < Len(f) /\ Here = NULL /\ ~ stale
      /\ UNCHANGED <<entries, call, unfinished>>
  BY DEF MakeInner, table
<1>2. PICK c \in Available :
        /\ trie_root' = IF call.at = NULL THEN c ELSE trie_root
        /\ \A d \in Chunk : memory'[d].is = IF d = c THEN Inner ELSE memory[d].is
        /\ \A d \in Chunk, b \in Bit :
             memory'[d].child[b] = IF call.at # NULL /\ d = call.at /\ b = f[i] THEN c
                                   ELSE IF d = c THEN NULL ELSE memory[d].child[b]
        /\ reused' = (reused \/ Leads(c))
  BY <1>0, Makes
<1>3. f \in Seq(Bit) /\ Len(f) \in Nat /\ i \in 0 .. Len(f) /\ i \in Nat
      /\ \A j \in 1 .. Len(f) : f[j] \in Bit
  BY <1>0, <1>1, CallKey
<1>. SUFFICES ASSUME ~ reused' PROVE (PlacedInv /\ WalkInv /\ LooseInv /\ LostInv)'
  BY DEF TrieInv
<1>4. PlacedInv /\ WalkInv /\ LooseInv /\ LostInv /\ ~ Leads(c) /\ c \in Chunk
  BY <1>0, <1>2 DEF TrieInv, Available
<1>5. Completed' = Completed /\ Flows' = Flows /\ Completed \subseteq Flows
  BY <1>1 DEF Completed, Flows
<1>6. call.at # NULL => call.at \in Chunk /\ call.at # c
  BY <1>0, <1>1 DEF CallInv, TypeOK, Pointer
<1>7. /\ call.at = NULL => trie_root = NULL
      /\ call.at # NULL => memory[call.at].child[f[i]] = NULL
  BY <1>1 DEF Here
<1>8. /\ trie_root # NULL => trie_root' = trie_root
      /\ \A d \in Chunk, b \in Bit : d # c /\ memory[d].child[b] # NULL =>
           memory'[d].child[b] = memory[d].child[b]
      /\ \A d \in Chunk : d # c => memory'[d].is = memory[d].is
  BY <1>2, <1>7
<1>9. \A d \in Chunk, b \in Bit : trie_root # c /\ memory[d].child[b] # c
  BY <1>4 DEF Leads
<1>10. PlacedInv'
  <2>1. PICK w \in [Chunk -> Seq(Bit)] : Placed(w)
    BY <1>4 DEF PlacedInv
  <2>2. PICK u : u = [w EXCEPT ![c] = Bits(f, i)]
    OBVIOUS
  <2>3. /\ u \in [Chunk -> Seq(Bit)] /\ u[c] = Bits(f, i)
        /\ \A d \in Chunk : d # c => u[d] = w[d]
    BY <1>3, <1>4, <2>1, <2>2, BitsOf
  <2>4. trie_root' # NULL => u[trie_root'] = << >>
    <3>1. CASE call.at = NULL
      <4>1. i = 0 /\ Bits(f, 0) = << >>
        BY <1>0, <1>3, <3>1, BitsOf DEF CallInv
      <4>. QED
        BY <1>2, <2>3, <3>1, <4>1
    <3>2. CASE call.at # NULL
      BY <1>0, <1>2, <1>9, <2>1, <2>3, <3>2 DEF Placed, TypeOK, Pointer
    <3>. QED
      BY <3>1, <3>2
  <2>5. ASSUME NEW d \in Chunk, NEW b \in Bit, memory'[d].child[b] # NULL
        PROVE  u[memory'[d].child[b]] = Append(u[d], b)
    <3>1. CASE call.at # NULL /\ d = call.at /\ b = f[i]
      <4>1. i > 0 /\ w[d] = Bits(f, i - 1) /\ memory'[d].child[b] = c /\ u[d] = w[d]
        BY <1>0, <1>2, <1>3, <1>6, <2>1, <2>3, <3>1 DEF CallInv, Placed
      <4>2. Bits(f, i) = Append(Bits(f, i - 1), f[i])
        BY <1>3, <4>1, BitsOf
      <4>. QED
        BY <2>3, <3>1, <4>1, <4>2
    <3>2. CASE ~ (call.at # NULL /\ d = call.at /\ b = f[i])
      <4>1. d # c /\ memory'[d].child[b] = memory[d].child[b] /\ memory[d].child[b] \in Chunk \ {c}
        BY <1>0, <1>2, <1>9, <2>5, <3>2, MemoryOK DEF Pointer
      <4>. QED
        BY <2>1, <2>3, <2>5, <4>1 DEF Placed
    <3>. QED
      BY <3>1, <3>2
  <2>6. ASSUME NEW d \in Chunk, memory'[d].is \in Flows'
        PROVE  u[d] = entries'[memory'[d].is].key.field
    <3>1. d # c
      BY <1>2, <2>6 DEF Flows, Inner
    <3>. QED
      BY <1>1, <1>2, <1>5, <2>1, <2>3, <2>6, <3>1 DEF Placed
  <2>7. call'.at # NULL => u[call'.at] = Bits(call'.key.field, call'.i - 1)
    BY <1>1, <1>6, <2>1, <2>3 DEF Placed
  <2>8. Placed(u)'
    BY <1>1, <2>4, <2>5, <2>6, <2>7 DEF Placed
  <2>. QED
    BY <2>3, <2>8 DEF PlacedInv
<1>11. WalkInv'
  <2>. SUFFICES ASSUME call.at # NULL PROVE \E p : Way(f, i - 1, p)' /\ p[i - 1] = call.at
    BY <1>1 DEF WalkInv, Way
  <2>1. PICK p : Way(f, i - 1, p) /\ p[i - 1] = call.at
    BY <1>1, <1>4 DEF WalkInv
  <2>2. PICK g : g = f
    OBVIOUS
  <2>3. PICK n : n = i - 1
    OBVIOUS
  <2>4. g \in Seq(Bit) /\ n \in 0 .. Len(g) /\ Way(g, n, p)
    BY <1>0, <1>3, <2>1, <2>2, <2>3 DEF CallInv
  <2>5. Way(g, n, p)'
    BY <1>0, <1>4, <1>8, <2>4, WayStays
  <2>. QED
    BY <1>1, <2>1, <2>2, <2>3, <2>5 DEF Way
<1>12. LooseInv'
  <2>. SUFFICES ASSUME NEW d \in Chunk, memory'[d].is \in Flows \ Completed, Leads(d)'
                PROVE  FALSE
    BY <1>5 DEF LooseInv
  <2>1. d # c
    BY <1>2 DEF Flows, Inner
  <2>2. Leads(d)
    BY <1>0, <1>2, <2>1 DEF Leads
  <2>. QED
    BY <1>2, <1>4, <2>1, <2>2 DEF LooseInv
<1>13. LostInv'
  <2>. SUFFICES ASSUME NEW e \in Completed
                PROVE  \/ InTrie(e)'
                       \/ \E later \in Completed :
                            later > e /\ IsPrefix(entries'[later].key.field, entries'[e].key.field)
    BY <1>5 DEF LostInv
  <2>1. CASE InTrie(e)
    <3>1. entries'[e] = entries[e] /\ e \in Flows /\ e \in Flows'
      BY <1>1, <1>5
    <3>. QED
      BY <1>0, <1>4, <1>8, <2>1, <3>1, InTrieStays
  <2>2. CASE \E later \in Completed :
               later > e /\ IsPrefix(entries[later].key.field, entries[e].key.field)
    BY <1>1, <2>2
  <2>. QED
    BY <1>4, <2>1, <2>2 DEF LostInv
<1>. QED
  BY <1>10, <1>11, <1>12, <1>13

\* InsertEnds: the flow is where its field leads, and what it hides lay at that path
\* or below.
LEMMA EndKeepsTrie == ASSUME FlowTableInv, TypeOK', InsertEnds PROVE TrieInv'
<1>. DEFINE N == Len(entries)
<1>0. TypeOK /\ CallInv /\ TrieInv /\ NULL \notin Chunk /\ N \in Nat
  BY MemoryOK, FlowTableAssumption DEF FlowTableInv
<1>1. /\ call.op = "insert" /\ call.i = Len(call.key.field)
      /\ call' = Idle /\ UNCHANGED <<entries, unfinished, reused>>
  BY DEF InsertEnds, table
<1>2. PICK f : f = call.key.field
  OBVIOUS
<1>3. PICK x : x = call.entry
  OBVIOUS
<1>4. /\ f \in Seq(Bit) /\ Len(f) \in Nat /\ call.i = Len(f) /\ f \in Field
      /\ \A j \in 1 .. Len(f) : f[j] \in Bit
  BY <1>0, <1>1, <1>2, CallKey
<1>5. /\ x \in Chunk /\ memory[x].is = N
      /\ trie_root' = IF call.at = NULL THEN x ELSE trie_root
      /\ \A d \in Chunk : memory'[d].is = memory[d].is
      /\ \A d \in Chunk, b \in Bit :
           memory'[d].child[b] = IF call.at # NULL /\ d = call.at /\ b = f[Len(f)]
                                 THEN x ELSE memory[d].child[b]
  BY <1>0, <1>1, <1>2, <1>3, Ends
<1>6. N \in Flows \ unfinished /\ entries[N].key.field = f /\ (call.at = NULL <=> Len(f) = 0)
  BY <1>0, <1>1, <1>2, <1>4 DEF CallInv
<1>7. Flows' = Flows /\ N \notin Completed /\ Completed' = Completed \cup {N}
      /\ Completed \subseteq Flows
  BY <1>1, <1>6 DEF Completed, Flows, Idle
<1>8. \A e \in Completed : N > e
  BY <1>0, <1>7 DEF Flows
<1>. SUFFICES ASSUME ~ reused' PROVE (PlacedInv /\ WalkInv /\ LooseInv /\ LostInv)'
  BY DEF TrieInv
<1>9. PlacedInv /\ WalkInv /\ LooseInv /\ LostInv
  BY <1>0, <1>1 DEF TrieInv
<1>10. PICK w \in [Chunk -> Seq(Bit)] : Placed(w)
  BY <1>9 DEF PlacedInv
<1>11. w[x] = f
  BY <1>5, <1>6, <1>10 DEF Placed
<1>12. Len(f) # 0 => /\ call.at \in Chunk /\ w[call.at] = Bits(f, Len(f) - 1)
                     /\ f = Append(Bits(f, Len(f) - 1), f[Len(f)])
                     /\ Len(Bits(f, Len(f) - 1)) = Len(f) - 1
  <2>. SUFFICES ASSUME Len(f) # 0
                PROVE  /\ call.at \in Chunk /\ w[call.at] = Bits(f, Len(f) - 1)
                       /\ f = Append(Bits(f, Len(f) - 1), f[Len(f)])
                       /\ Len(Bits(f, Len(f) - 1)) = Len(f) - 1
    OBVIOUS
  <2>1. call.at \in Chunk /\ w[call.at] = Bits(f, Len(f) - 1)
    BY <1>0, <1>2, <1>4, <1>6, <1>10 DEF Placed, TypeOK, Pointer
  <2>2. Len(f) \in 0 .. Len(f) /\ Len(f) - 1 \in 0 .. Len(f) /\ Len(f) > 0
    BY <1>4
  <2>3. Bits(f, Len(f)) = f /\ Bits(f, Len(f)) = Append(Bits(f, Len(f) - 1), f[Len(f)])
        /\ Len(Bits(f, Len(f) - 1)) = Len(f) - 1
    BY <1>4, <2>2, BitsOf
  <2>. QED
    BY <2>1, <2>3
<1>13. PlacedInv'
  <2>1. trie_root' # NULL => w[trie_root'] = << >>
    <3>1. CASE call.at = NULL
      BY <1>4, <1>5, <1>6, <1>11, <3>1, EmptySeq
    <3>2. CASE call.at # NULL
      BY <1>5, <1>10, <3>2 DEF Placed
    <3>. QED
      BY <3>1, <3>2
  <2>2. ASSUME NEW d \in Chunk, NEW b \in Bit, memory'[d].child[b] # NULL
        PROVE  w[memory'[d].child[b]] = Append(w[d], b)
    <3>1. CASE call.at # NULL /\ d = call.at /\ b = f[Len(f)]
      BY <1>5, <1>6, <1>11, <1>12, <3>1
    <3>2. CASE ~ (call.at # NULL /\ d = call.at /\ b = f[Len(f)])
      <4>1. memory'[d].child[b] = memory[d].child[b]
        BY <1>5, <3>2
      <4>. QED
        BY <1>10, <2>2, <4>1 DEF Placed
    <3>. QED
      BY <3>1, <3>2
  <2>3. \A d \in Chunk : memory'[d].is \in Flows' => w[d] = entries'[memory'[d].is].key.field
    BY <1>1, <1>5, <1>7, <1>10 DEF Placed
  <2>4. call'.at = NULL /\ call'.op # "lookup"
    BY <1>1 DEF Idle
  <2>5. Placed(w)'
    BY <2>1, <2>2, <2>3, <2>4 DEF Placed
  <2>. QED
    BY <2>5 DEF PlacedInv
<1>14. WalkInv'
  BY <1>1 DEF WalkInv, Idle
<1>15. LooseInv'
  <2>. SUFFICES ASSUME NEW d \in Chunk, memory'[d].is \in Flows \ Completed', Leads(d)'
                PROVE  FALSE
    BY <1>7 DEF LooseInv
  <2>1. d # x /\ memory[d].is \in Flows \ Completed
    BY <1>5, <1>7
  <2>2. Leads(d)
    BY <1>5, <2>1 DEF Leads
  <2>. QED
    BY <1>9, <2>1, <2>2 DEF LooseInv
<1>16. InTrie(N)'
  <2>1. InTrie(N)' <=> \E q : Way(f, Len(f), q)' /\ memory'[q[Len(f)]].is = N
    <3>1. PICK e : e = N
      OBVIOUS
    <3>2. InTrie(e)' <=> \E q : Way(f, Len(f), q)' /\ memory'[q[Len(f)]].is = e
      BY <1>1, <1>6, <3>1 DEF InTrie, Way
    <3>3. InTrie(N)' <=> InTrie(e)'
      BY <1>1, <3>1 DEF InTrie
    <3>. QED
      BY <3>1, <3>2, <3>3
  <2>2. CASE Len(f) = 0
    <3>1. PICK q : q = [j \in 0 .. 0 |-> x]
      OBVIOUS
    <3>2. Way(f, Len(f), q)' /\ memory'[q[Len(f)]].is = N
      BY <1>5, <1>6, <2>2, <3>1 DEF Way
    <3>. QED
      BY <2>1, <3>2
  <2>3. CASE Len(f) # 0
    <3>. DEFINE n == Len(f)
    <3>1. PICK p : Way(f, n - 1, p) /\ p[n - 1] = call.at
      BY <1>1, <1>2, <1>4, <1>6, <1>9, <2>3 DEF WalkInv
    <3>2. n - 1 \in Nat /\ n \in Nat /\ n - 1 \in 0 .. n
      BY <1>4, <2>3
    <3>3. /\ p \in [0 .. n - 1 -> Chunk] /\ p[0] = trie_root
          /\ \A j \in 1 .. n - 1 : memory[p[j - 1]].child[f[j]] = p[j]
      BY <3>1 DEF Way
    <3>4. \A j \in 0 .. n - 1 : w[p[j]] = Bits(f, j)
      BY <1>0, <1>4, <1>10, <3>1, <3>2, WayPlaces
    <3>5. PICK q : q = [j \in 0 .. n |-> IF j = n THEN x ELSE p[j]]
      OBVIOUS
    <3>6. q \in [0 .. n -> Chunk] /\ q[0] = trie_root' /\ q[n] = x
      <4>1. q \in [0 .. n -> Chunk] /\ q[n] = x
        BY <1>5, <3>2, <3>3, <3>5
      <4>2. q[0] = p[0]
        BY <2>3, <3>2, <3>5
      <4>. QED
        BY <1>5, <1>6, <2>3, <3>3, <4>1, <4>2
    <3>7. ASSUME NEW j \in 1 .. n PROVE memory'[q[j - 1]].child[f[j]] = q[j]
      <4>a. j - 1 \in 0 .. n - 1 /\ j - 1 \in 0 .. n /\ j - 1 # n
        BY ONLY <3>2, j \in 1 .. n
      <4>b. f[j] \in Bit
        BY <1>4
      <4>c. q[j - 1] = p[j - 1]
        BY ONLY <3>5, <4>a
      <4>0. f[j] \in Bit /\ j - 1 \in 0 .. n - 1 /\ q[j - 1] = p[j - 1] /\ p[j - 1] \in Chunk
        BY <3>3, <4>a, <4>b, <4>c
      <4>1. CASE j = n
        BY <1>5, <1>6, <2>3, <3>1, <3>5, <4>0, <4>1
      <4>2. CASE j # n
        <5>1. j \in 1 .. n - 1 /\ q[j] = p[j] /\ j - 1 \in 0 .. n
          BY <3>2, <3>5, <4>2
        <5>2. Len(w[p[j - 1]]) = j - 1 /\ Len(w[call.at]) = n - 1
          <6>1. Len(Bits(f, j - 1)) = j - 1
            BY <1>4, <4>a, BitsOf
          <6>2. w[p[j - 1]] = Bits(f, j - 1)
            BY <3>4, <4>0
          <6>. QED
            BY <1>12, <2>3, <6>1, <6>2
        <5>3. p[j - 1] # call.at
          BY <3>2, <4>2, <5>2
        <5>4. memory[p[j - 1]].child[f[j]] = p[j]
          BY <3>3, <5>1
        <5>. QED
          BY <1>5, <4>0, <5>1, <5>3, <5>4
      <4>. QED
        BY <4>1, <4>2
    <3>8. Way(f, n, q)' /\ memory'[q[n]].is = N
      BY <1>5, <3>6, <3>7 DEF Way
    <3>. QED
      BY <2>1, <3>8
  <2>. QED
    BY <2>2, <2>3
<1>17. LostInv'
  <2>. SUFFICES ASSUME NEW e \in Completed
                PROVE  \/ InTrie(e)'
                       \/ \E later \in Completed \cup {N} :
                            later > e /\ IsPrefix(entries[later].key.field, entries[e].key.field)
    BY <1>1, <1>7, <1>16 DEF LostInv
  <2>1. CASE \E later \in Completed :
               later > e /\ IsPrefix(entries[later].key.field, entries[e].key.field)
    BY <2>1
  <2>2. CASE InTrie(e)
    <3>1. PICK g : g = entries[e].key.field
      OBVIOUS
    <3>2. g \in Seq(Bit) /\ Len(g) \in Nat /\ e \in Flows
      BY <1>0, <1>7, <3>1, WayOfFlow
    <3>3. PICK p : Way(g, Len(g), p) /\ memory[p[Len(g)]].is = e
      BY <1>0, <1>7, <2>2, <3>1, WayOfFlow
    <3>4. p \in [0 .. Len(g) -> Chunk] /\ p[0] = trie_root
          /\ \A j \in 1 .. Len(g) : memory[p[j - 1]].child[g[j]] = p[j]
      BY <3>3 DEF Way
    <3>5. \A j \in 0 .. Len(g) : w[p[j]] = Bits(g, j)
      <4>1. Len(g) \in 0 .. Len(g)
        BY <3>2
      <4>. QED
        BY <1>0, <1>10, <3>2, <3>3, <4>1, WayPlaces
    <3>6. SUFFICES ASSUME ~ IsPrefix(f, g) PROVE InTrie(e)'
      BY <1>6, <1>8, <3>1
    <3>7. Len(f) # 0
      <4>1. Bits(g, 0) = << >> /\ IsPrefix(Bits(g, 0), g)
        BY <3>2, BitsOf
      <4>2. Len(f) = 0 => f = << >>
        BY <1>4, EmptySeq
      <4>. QED
        BY <3>6, <4>1, <4>2
    <3>8. ASSUME NEW j \in 1 .. Len(g), p[j - 1] = call.at, g[j] = f[Len(f)] PROVE FALSE
      <4>1. j - 1 \in 0 .. Len(g) /\ j \in 0 .. Len(g) /\ j > 0
        BY <3>2
      <4>2. w[call.at] = Bits(g, j - 1) /\ w[call.at] = Bits(f, Len(f) - 1)
        BY <1>12, <3>5, <3>7, <3>8, <4>1
      <4>3. Bits(g, j) = Append(Bits(g, j - 1), g[j]) /\ IsPrefix(Bits(g, j), g)
        BY <3>2, <4>1, BitsOf
      <4>4. Bits(g, j) = f
        BY <1>12, <3>7, <3>8, <4>2, <4>3
      <4>. QED
        BY <3>6, <4>3, <4>4
    <3>9. ASSUME NEW j \in 1 .. Len(g) PROVE memory'[p[j - 1]].child[g[j]] = p[j]
      <4>1. p[j - 1] \in Chunk /\ g[j] \in Bit
        <5>1. j - 1 \in 0 .. Len(g)
          BY <3>2
        <5>. QED
          BY <3>2, <3>4, <5>1, ElementOfSeq
      <4>. QED
        BY <1>5, <3>4, <3>8, <4>1
    <3>10. p[0] = trie_root'
      BY <1>5, <1>6, <3>4, <3>7
    <3>11. Way(g, Len(g), p)'
      BY <3>4, <3>9, <3>10 DEF Way
    <3>12. memory'[p[Len(g)]].is = e
      <4>1. p[Len(g)] \in Chunk
        <5>1. Len(g) \in 0 .. Len(g)
          BY <3>2
        <5>. QED
          BY <3>4, <5>1
      <4>. QED
        BY <1>5, <3>3, <4>1
    <3>13. InTrie(e)' <=> \E q : Way(g, Len(g), q)' /\ memory'[q[Len(g)]].is = e
      BY <1>1, <3>1 DEF InTrie, Way
    <3>. QED
      BY <3>11, <3>12, <3>13
  <2>. QED
    BY <1>9, <2>1, <2>2 DEF LostInv
<1>. QED
  BY <1>13, <1>14, <1>15, <1>17

\* The trie through every step.
LEMMA StepTrieInv == FlowTableInv /\ TypeOK' /\ [Next]_vars => TrieInv'
<1>. SUFFICES ASSUME FlowTableInv, TypeOK', [Next]_vars PROVE TrieInv'
  OBVIOUS
<1>0. TypeOK /\ CallInv /\ TrieInv
  BY DEF FlowTableInv
<1>a. Idle.op = "none" /\ Idle.at = NULL /\ Idle.entry = NULL
  BY DEF Idle
<1>1. ASSUME NEW k \in Key, NEW n \in {0, 1}, flow_table_insert(k, n) PROVE TrieInv'
  BY <1>1, StartKeepsTrie
<1>2. ASSUME UNCHANGED <<entries, memory, trie_root, reused>>, Completed' = Completed,
             call'.at = NULL, call'.op = "lookup" => call'.entry = NULL
      PROVE  TrieInv'
  <2>. SUFFICES ASSUME ~ reused' PROVE (PlacedInv /\ WalkInv /\ LooseInv /\ LostInv)'
    BY DEF TrieInv
  <2>1. PlacedInv /\ LooseInv /\ LostInv
    BY <1>0, <1>2 DEF TrieInv
  <2>2. LooseInv' /\ LostInv'
    BY <1>2, <2>1, TrieStays
  <2>3. PICK w \in [Chunk -> Seq(Bit)] : Placed(w)
    BY <2>1 DEF PlacedInv
  <2>4. Placed(w)'
    BY <1>2, <2>3 DEF Placed, Flows
  <2>5. PlacedInv' /\ WalkInv'
    BY <1>2, <2>4 DEF PlacedInv, WalkInv
  <2>. QED
    BY <2>2, <2>5
<1>3. ASSUME NEW k \in Key, LookupExact(k) \/ flow_table_delete(k) PROVE TrieInv'
  <2>1. call = Idle /\ call' = call /\ UNCHANGED <<entries, memory, trie_root, reused, unfinished>>
    BY <1>0, <1>3 DEF LookupExact, flow_table_delete, table, trie, Ready, CallInv
  <2>2. Completed' = Completed
    BY <2>1 DEF Completed, Flows
  <2>. QED
    BY <1>2, <1>a, <2>1, <2>2
<1>4. ASSUME NEW k \in Key, LookupWildcard(k) PROVE TrieInv'
  <2>1. /\ call.op = "none" /\ call'.op = "lookup" /\ call'.at = NULL /\ call'.entry = NULL
        /\ UNCHANGED <<entries, memory, trie_root, reused, unfinished>>
    BY <1>4 DEF LookupWildcard, table, trie, Ready
  <2>2. Completed' = Completed
    BY <2>1 DEF Completed, Flows
  <2>. QED
    BY <1>2, <2>1, <2>2
<1>5. CASE Descend
  BY <1>5, DescendKeepsTrie
<1>6. CASE MakeInner
  BY <1>6, MakeKeepsTrie
<1>7. CASE OutOfMemory
  <2>1. /\ call.op = "insert" /\ call' = Idle /\ unfinished' = unfinished \cup {Len(entries)}
        /\ UNCHANGED <<entries, memory, trie_root, reused>>
    BY <1>7 DEF OutOfMemory, table, trie
  <2>2. Completed' = Completed
    BY <1>a, <2>1 DEF Completed, Flows
  <2>. QED
    BY <1>2, <1>a, <2>1, <2>2
<1>8. CASE InsertEnds
  BY <1>8, EndKeepsTrie
<1>9. CASE LookupEnds
  <2>1. /\ call.op = "lookup" /\ call' = Idle
        /\ UNCHANGED <<entries, memory, trie_root, reused, unfinished>>
    BY <1>9 DEF LookupEnds, table, trie
  <2>2. Completed' = Completed
    BY <1>a, <2>1 DEF Completed, Flows
  <2>. QED
    BY <1>2, <1>a, <2>1, <2>2
<1>10. CASE UNCHANGED vars
  <2>1. UNCHANGED <<entries, memory, trie_root, reused, unfinished, call>>
    BY <1>10 DEF vars, table, trie
  <2>2. Completed' = Completed
    BY <2>1 DEF Completed, Flows
  <2>3. /\ LooseInv => LooseInv'
        /\ LostInv => LostInv'
    BY <2>1, <2>2, TrieStays
  <2>4. PlacedInv' <=> PlacedInv
    BY <2>1 DEF PlacedInv, Placed, Flows
  <2>5. WalkInv' <=> WalkInv
    BY <2>1 DEF WalkInv, Way
  <2>. QED
    BY <1>0, <2>1, <2>3, <2>4, <2>5 DEF TrieInv
<1>. QED
  BY <1>1, <1>3, <1>4, <1>5, <1>6, <1>7, <1>8, <1>9, <1>10 DEF Next

\* Chains and trie stay in order through any sequence of operations.
LEMMA FlowTableInvariance == Spec => []FlowTableInv
<1>1. FlowTableInv /\ [Next]_vars => FlowTableInv'
  BY StepTypeOK, StepChainInv, StepCallInv, StepTrieInv DEF FlowTableInv
<1>. QED
  BY <1>1, InitFlowTableInv, PTL DEF Spec

-------------------------------------------------------------------------------
(* The theorems *)

\* The variables have the values their comments announce (flow_table_t): chains and
\* trie hold flows that were inserted, and no walk leaves the field it goes along.
THEOREM FlowTableTypeCorrect == Spec => []TypeOK
  BY FlowTableInvariance, PTL DEF FlowTableInv

\* A walk of the trie answers with a flow for a prefix of the field, if with any, as
\* long as no memory that the trie led to was handed out again (flow_table_lookup).
THEOREM WildcardMatches == Spec => WildcardIsPrefix
<1>1. FlowTableInv /\ FlowTableInv' /\ [Next]_vars =>
        [~ reused /\ call.op = "lookup" /\ call'.op = "none" =>
           \/ answer' \in {Nothing, Inner}
           \/ IsPrefix(entries[answer'].key.field, call.key.field)]_vars
  <2>. SUFFICES ASSUME FlowTableInv, FlowTableInv', [Next]_vars, vars' # vars, ~ reused,
                       call.op = "lookup", call'.op = "none", answer' \notin {Nothing, Inner}
                PROVE  IsPrefix(entries[answer'].key.field, call.key.field)
    OBVIOUS
  <2>0. TypeOK /\ CallInv /\ TrieInv
    BY DEF FlowTableInv
  <2>1. LookupEnds
    <3>1. ~ Ready /\ call.op # "insert"
      BY DEF Ready
    <3>2. ~ Descend
      <4>1. Descend => call'.op = call.op
        <5>1. call \in [op : {"none", "insert", "lookup"}, key : Key \cup {NULL},
                        i : 0 .. MaxLength, at : Pointer, entry : Pointer]
          BY <2>0 DEF TypeOK
        <5>. QED
          BY <5>1 DEF Descend
      <4>. QED
        BY <4>1
    <3>. QED
      BY <3>1, <3>2 DEF Next, flow_table_insert, LookupExact, LookupWildcard, flow_table_delete,
                        MakeInner, OutOfMemory, InsertEnds
  <2>2. PICK w \in [Chunk -> Seq(Bit)] : Placed(w)
    BY <2>0 DEF TrieInv, PlacedInv
  <2>3. PICK found : /\ found = IF call.entry # NULL THEN call.entry ELSE Here
                     /\ answer' = IF found = NULL THEN Nothing ELSE memory[found].is
    BY <2>1 DEF LookupEnds
  <2>4. found \in Chunk /\ \E j \in 0 .. Len(call.key.field) : w[found] = Bits(call.key.field, j)
    <3>1. CASE call.entry # NULL
      <4>1. call.entry \in Chunk
        BY <2>0, <3>1 DEF TypeOK, Pointer
      <4>. QED
        BY <2>2, <2>3, <3>1, <4>1 DEF Placed
    <3>2. CASE call.entry = NULL
      <4>1. Here # NULL /\ found = Here
        BY <2>3, <3>2
      <4>2. Here \in Chunk /\ w[Here] = Bits(call.key.field, call.i)
        BY <2>0, <2>2, <4>1, HereLies
      <4>3. call.i \in 0 .. Len(call.key.field)
        BY <2>0, CallKey
      <4>. QED
        BY <4>1, <4>2, <4>3
    <3>. QED
      BY <3>1, <3>2
  <2>5. answer' = memory[found].is /\ answer' \in Flows
    BY <2>0, <2>3, <2>4, MemoryOK, FlowTableAssumption
  <2>6. w[found] = entries[answer'].key.field
    BY <2>2, <2>4, <2>5 DEF Placed
  <2>7. \A j \in 0 .. Len(call.key.field) : IsPrefix(Bits(call.key.field, j), call.key.field)
    BY <2>0, CallKey, BitsOf
  <2>. QED
    BY <2>4, <2>6, <2>7
<1>. QED
  BY <1>1, FlowTableInvariance, PTL DEF Spec, WildcardIsPrefix

\* Until memory that the trie led to is handed out, the trie loses a flow that was
\* inserted in full to a later one for the same field or a prefix of it only, and never
\* has one whose insertion ran out of memory (flow_table_insert).
THEOREM TrieForgets == Spec => []ForgottenByTrie
<1>1. FlowTableInv => ForgottenByTrie
  <2>. SUFFICES ASSUME FlowTableInv, ~ reused
                PROVE  LostInv /\ \A e \in Flows : InTrie(e) => e \in Completed
    BY DEF ForgottenByTrie, LostInv
  <2>0. TypeOK /\ LooseInv /\ LostInv
    BY DEF FlowTableInv, TrieInv
  <2>1. ASSUME NEW e \in Flows, InTrie(e) PROVE e \in Completed
    <3>. DEFINE f == entries[e].key.field
    <3>1. f \in Seq(Bit) /\ Len(f) \in Nat
      BY <2>0, WayOfFlow
    <3>2. PICK p : Way(f, Len(f), p) /\ memory[p[Len(f)]].is = e
      BY <2>0, <2>1, WayOfFlow
    <3>3. p[Len(f)] \in Chunk /\ Leads(p[Len(f)])
      <4>1. Len(f) \in 0 .. Len(f)
        BY <3>1
      <4>. HIDE DEF f
      <4>. QED
        BY <2>0, <3>1, <3>2, <4>1, WayLeads
    <3>. QED
      BY <2>0, <3>2, <3>3 DEF LooseInv
  <2>. QED
    BY <2>0, <2>1
<1>. QED
  BY <1>1, FlowTableInvariance, PTL

\* A chain is never longer than there are entries.
LEMMA ChainLength ==
  ASSUME TypeOK, ChainInv, NEW b \in Buckets
  PROVE  Len(hash_table[b]) \in Nat /\ Len(hash_table[b]) <= Len(entries)
<1>. DEFINE L == Len(hash_table[b])
            N == Len(entries)
            f == [i \in 1 .. L |-> hash_table[b][i]]
<1>1. L \in Nat /\ N \in Nat /\ \A i \in 1 .. L : hash_table[b][i] \in 1 .. N
  BY LenProperties, ElementOfSeq DEF TypeOK, Flows
<1>2. f \in [1 .. L -> 1 .. N]
  BY <1>1
<1>3. ASSUME NEW i \in 1 .. L, NEW j \in 1 .. L, f[i] = f[j] PROVE i = j
  <2>1. i < j => hash_table[b][j] < hash_table[b][i]
    BY DEF ChainInv
  <2>2. j < i => hash_table[b][i] < hash_table[b][j]
    BY DEF ChainInv
  <2>3. hash_table[b][i] = hash_table[b][j] /\ hash_table[b][i] \in Int
    BY <1>1, <1>3
  <2>. QED
    BY ONLY <1>1, <2>1, <2>2, <2>3
<1>4. f \in Injection(1 .. L, 1 .. N)
  <2>. HIDE DEF f, L, N
  <2>. QED
    BY <1>2, <1>3, Fun_IsInj
<1>5. /\ IsFiniteSet(1 .. L) /\ Cardinality(1 .. L) = L
      /\ IsFiniteSet(1 .. N) /\ Cardinality(1 .. N) = N
  <2>1. \A n \in Nat : IsFiniteSet(1 .. n) /\ Cardinality(1 .. n) = n
    <3>. SUFFICES ASSUME NEW n \in Nat PROVE IsFiniteSet(1 .. n) /\ Cardinality(1 .. n) = n
      OBVIOUS
    <3>1. IsFiniteSet(1 .. n) /\ Cardinality(1 .. n) = IF 1 > n THEN 0 ELSE n - 1 + 1
      BY FS_Interval
    <3>. QED
      BY ONLY <3>1, n \in Nat
  <2>. HIDE DEF L, N
  <2>. QED
    BY <1>1, <2>1
<1>. HIDE DEF f, L, N
<1>6. Cardinality(1 .. L) <= Cardinality(1 .. N)
  BY <1>4, <1>5, FS_Injection
<1>. QED
  BY <1>1, <1>5, <1>6 DEF L, N

\* However keys collide and flows are deleted, an entry that was not freed is in one
\* place of one chain, and a freed one in none (flow_table_insert, flow_table_delete).
THEOREM ChainsHoldLiving == Spec => []ChainsHoldTheLiving
<1>1. FlowTableInv => ChainsHoldTheLiving
  <2>. SUFFICES ASSUME FlowTableInv, NEW e \in 1 .. Len(entries)
                PROVE  Cardinality(PlacesOf(e)) = IF e \in freed THEN 0 ELSE 1
    BY DEF ChainsHoldTheLiving, Flows
  <2>0. TypeOK /\ ChainInv
    BY DEF FlowTableInv
  <2>1. /\ \A b \in Buckets : \A i \in 1 .. Len(hash_table[b]) :
             /\ hash_table[b][i] \notin freed /\ Bucket[entries[hash_table[b][i]].key.field] = b
             /\ hash_table[b][i] \in 1 .. Len(entries)
        /\ \A b \in Buckets : Len(hash_table[b]) \in Nat /\ Len(hash_table[b]) <= Len(entries)
    <3>1. hash_table \in [Buckets -> Seq(Flows)]
      BY <2>0 DEF TypeOK
    <3>2. ASSUME NEW b \in Buckets
          PROVE  /\ Len(hash_table[b]) \in Nat /\ Len(hash_table[b]) <= Len(entries)
                 /\ \A i \in 1 .. Len(hash_table[b]) : hash_table[b][i] \in 1 .. Len(entries)
      <4>1. hash_table[b] \in Seq(Flows)
        BY <3>1
      <4>. QED
        BY <2>0, <4>1, ChainLength, ElementOfSeq, LenProperties DEF Flows
    <3>. QED
      BY <2>0, <3>2 DEF ChainInv
  <2>2. ASSUME NEW at \in PlacesOf(e)
        PROVE  /\ at[1] \in Buckets /\ at[2] \in 1 .. Len(hash_table[at[1]]) /\ at = <<at[1], at[2]>>
               /\ hash_table[at[1]][at[2]] = e
    BY <2>1 DEF PlacesOf, Flows
  <2>3. CASE e \in freed
    <3>1. PlacesOf(e) = {}
      BY <2>1, <2>2, <2>3
    <3>. QED
      BY <2>3, <3>1, FS_EmptySet
  <2>4. CASE e \notin freed
    <3>. DEFINE b == Bucket[entries[e].key.field]
    <3>1. b \in Buckets
      BY <2>0, EntryKey DEF Buckets
    <3>2. PICK i \in 1 .. Len(hash_table[b]) : hash_table[b][i] = e
      BY <2>0, <2>4 DEF ChainInv, ChainOf
    <3>3. <<b, i>> \in PlacesOf(e)
      <4>1. i \in 1 .. Len(entries) /\ i <= Len(hash_table[b])
        BY <2>1, <3>1
      <4>. QED
        BY <3>1, <3>2, <4>1 DEF PlacesOf, Flows
    <3>4. ASSUME NEW at \in PlacesOf(e) PROVE at = <<b, i>>
      <4>1. at[1] = b
        BY <2>1, <2>2
      <4>2. at[2] \in 1 .. Len(hash_table[b]) /\ hash_table[b][at[2]] = e
        BY <2>2, <4>1
      <4>3. /\ at[2] < i => e < e
            /\ i < at[2] => e < e
        BY <2>0, <3>1, <3>2, <4>2 DEF ChainInv
      <4>4. at[2] = i
        BY <4>2, <4>3
      <4>. QED
        BY <2>2, <4>1, <4>4
    <3>5. PlacesOf(e) = {<<b, i>>}
      BY <3>3, <3>4
    <3>. QED
      BY <2>4, <3>5, FS_Singleton
  <2>. QED
    BY <2>3, <2>4
<1>. QED
  BY <1>1, FlowTableInvariance, PTL

-------------------------------------------------------------------------------
(* The chains implement FlowStore *)

\* The flows of a key are its entries that live.
LEMMA FlowsOfKey ==
  ASSUME TypeOK, ChainInv, NEW k \in Key
  PROVE  FlowsOf(k) = {e \in (1 .. Len(entries)) \ freed : entries[e].key = k}
<1>. DEFINE b == Bucket[k.field]
<1>1. /\ b \in Buckets /\ FlowsOf(k) = {hash_table[b][i] : i \in Places(k)}
      /\ Places(k) = {i \in 1 .. Len(hash_table[b]) : entries[hash_table[b][i]].key = k}
      /\ \A i \in 1 .. Len(hash_table[b]) : hash_table[b][i] \in (1 .. Len(entries)) \ freed
  BY ChainOfKey DEF FlowsOf, Places, ChainInv
<1>2. ASSUME NEW e \in (1 .. Len(entries)) \ freed, entries[e].key = k PROVE e \in FlowsOf(k)
  <2>1. PICK i \in 1 .. Len(hash_table[b]) : hash_table[b][i] = e
    BY <1>2 DEF ChainInv, ChainOf
  <2>2. i \in Places(k)
    BY <1>1, <1>2, <2>1
  <2>. QED
    BY <1>1, <2>1, <2>2
<1>. HIDE DEF b
<1>. QED
  BY <1>1, <1>2

\* The first entry of a key in its chain is its newest flow.
LEMMA FirstIsNewest ==
  ASSUME TypeOK, ChainInv, NEW k \in Key, Places(k) # {}
  PROVE  LET e == hash_table[Bucket[k.field]][FirstOf(Places(k))]
         IN e \in FlowsOf(k) /\ e = CHOOSE f \in FlowsOf(k) : \A g \in FlowsOf(k) : g <= f
<1>. DEFINE b == Bucket[k.field]
            x == FirstOf(Places(k))
            e == hash_table[b][x]
<1>1. /\ b \in Buckets /\ x \in Places(k) /\ \A i \in Places(k) : x <= i
      /\ \A i \in 1 .. Len(hash_table[b]) : hash_table[b][i] \in 1 .. Len(entries)
  BY ChainOfKey
<1>2. /\ FlowsOf(k) = {hash_table[b][i] : i \in Places(k)} /\ Places(k) \subseteq 1 .. Len(hash_table[b])
      /\ \A i, j \in 1 .. Len(hash_table[b]) : i < j => hash_table[b][j] < hash_table[b][i]
  BY <1>1 DEF FlowsOf, Places, ChainInv
<1>. HIDE DEF b, x
<1>3. e \in FlowsOf(k)
  BY <1>1, <1>2
<1>4. ASSUME NEW i \in Places(k) PROVE hash_table[b][i] <= e
  BY <1>1, <1>2
<1>5. \A g \in FlowsOf(k) : g <= e
  BY <1>2, <1>4
<1>6. ASSUME NEW f \in FlowsOf(k), \A g \in FlowsOf(k) : g <= f PROVE f = e
  <2>1. f <= e /\ e <= f
    BY <1>3, <1>5, <1>6
  <2>2. f \in Nat /\ e \in Nat
    BY <1>1, <1>2
  <2>. QED
    BY ONLY <2>1, <2>2
<1>7. e = CHOOSE f \in FlowsOf(k) : \A g \in FlowsOf(k) : g <= f
  <2>. HIDE DEF e
  <2>. QED
    BY <1>3, <1>5, <1>6
<1>. QED
  BY <1>3, <1>7 DEF b, x

\* For exact lookups, whatever the collisions, the chains of the hash table are the
\* store of flows by key that FlowStore describes: a lookup answers with the newest
\* flow of the key, and a deletion takes that one (flow_table_lookup,
\* flow_table_insert, flow_table_delete).
THEOREM ChainsImplementStore == Spec => ImplementsFlowStore
<1>. DEFINE flows == [k \in Key |-> FlowsOf(k)]
            Answers == (1 .. MaxFlows) \cup {Nothing, Inner}
            B == Len(entries) <= MaxFlows
            F == \A k \in Key : FlowsOf(k) = {e \in (1 .. Len(entries)) \ freed : entries[e].key = k}
            I == FlowTableInv /\ B /\ F
<1>1. Init => Store!Init
  <2>. SUFFICES ASSUME Init PROVE Store!Init
    OBVIOUS
  <2>1. \A k \in Key : FlowsOf(k) = {}
    <3>1. TypeOK /\ ChainInv /\ Len(entries) = 0
      BY InitFlowTableInv DEF FlowTableInv, Init
    <3>. QED
      BY <3>1, FlowsOfKey
  <2>2. answer \in Answers
    BY DEF Init
  <2>. QED
    BY <2>1, <2>2 DEF Store!Init
<1>2. I /\ I' /\ [Next]_vars => [Store!Next]_<<flows, answer>>
  <2>. SUFFICES ASSUME I, I', [Next]_vars PROVE [Store!Next]_<<flows, answer>>
    OBVIOUS
  <2>0. /\ TypeOK /\ ChainInv /\ TypeOK' /\ ChainInv' /\ Len(entries) \in Nat
        /\ Len(entries') <= MaxFlows /\ CallInv
    BY DEF FlowTableInv, TypeOK
  <2>1. /\ \A k \in Key : FlowsOf(k) = {e \in (1 .. Len(entries)) \ freed : entries[e].key = k}
        /\ \A k \in Key : FlowsOf(k)' = {e \in (1 .. Len(entries')) \ freed' : entries'[e].key = k}
        /\ \A k \in Key : flows[k] = FlowsOf(k) /\ flows'[k] = FlowsOf(k)'
        /\ flows' = [k \in Key |-> FlowsOf(k)']
    OBVIOUS
  <2>2. ASSUME NEW k \in Key, NEW n \in {0, 1}, flow_table_insert(k, n)
        PROVE  Store!Insert(k, Len(entries) + 1) /\ Len(entries) + 1 \in Answers
    <3>. DEFINE N == Len(entries)
    <3>1. /\ Len(entries') = N + 1 /\ entries'[N + 1].key = k /\ freed \subseteq 1 .. N
          /\ \A e \in 1 .. N : entries'[e] = entries[e]
          /\ freed' = freed /\ answer' = answer
      BY <2>0, <2>2, ChainGrows DEF TypeOK, flow_table_insert, Flows
    <3>2. \A j \in Key : FlowsOf(j)' = IF j = k THEN FlowsOf(j) \cup {N + 1} ELSE FlowsOf(j)
      <4>1. ASSUME NEW j \in Key
            PROVE  /\ FlowsOf(j) = {e \in (1 .. N) \ freed : entries[e].key = j}
                   /\ FlowsOf(j)' = {e \in (1 .. N + 1) \ freed : entries'[e].key = j}
        BY <2>1, <3>1
      <4>2. /\ \A e \in (1 .. N + 1) \ freed : e = N + 1 \/ e \in (1 .. N) \ freed
            /\ N + 1 \in (1 .. N + 1) \ freed
            /\ \A e \in (1 .. N) \ freed : e \in (1 .. N + 1) \ freed
        BY <2>0, <3>1
      <4>3. FlowsOf(k)' = FlowsOf(k) \cup {N + 1}
        BY <3>1, <4>1, <4>2
      <4>4. ASSUME NEW j \in Key, j # k PROVE FlowsOf(j)' = FlowsOf(j)
        <5>. DEFINE old == (1 .. N) \ freed
                    new == (1 .. N + 1) \ freed
        <5>1. \A e \in old : entries'[e].key = entries[e].key /\ e \in new
          BY <3>1, <4>2
        <5>2. \A e \in new : e \in old \/ entries'[e].key = k
          BY <3>1, <4>2
        <5>3. FlowsOf(j) = {e \in old : entries[e].key = j} /\ FlowsOf(j)' = {e \in new : entries'[e].key = j}
          BY <4>1
        <5>. HIDE DEF old, new
        <5>. QED
          BY ONLY <4>4, <5>1, <5>2, <5>3
      <4>. QED
        BY <4>3, <4>4
    <3>3. flows' = [flows EXCEPT ![k] = @ \cup {N + 1}]
      BY <2>1, <3>2
    <3>4. \A j \in Key : \A g \in flows[j] : g < N + 1
      BY <2>0, <2>1
    <3>5. N + 1 \in Answers
      BY <2>0, <3>1, FlowTableAssumption
    <3>. QED
      BY <3>1, <3>3, <3>4, <3>5 DEF Store!Insert
  <2>3. ASSUME NEW k \in Key, LookupExact(k) PROVE Store!Lookup(k)
    <3>1. UNCHANGED <<entries, hash_table>> /\ Places(k) # {}
          /\ answer' = hash_table[Bucket[k.field]][FirstOf(Places(k))]
      BY <2>3 DEF LookupExact, table
    <3>2. answer' \in FlowsOf(k) /\ answer' = CHOOSE f \in FlowsOf(k) : \A g \in FlowsOf(k) : g <= f
      BY <2>0, <3>1, FirstIsNewest
    <3>3. flows' = flows
      BY <3>1 DEF FlowsOf, Places
    <3>. QED
      BY <2>1, <3>2, <3>3 DEF Store!Lookup, Store!Newest
  <2>4. CASE LookupEnds
    <3>1. /\ UNCHANGED <<entries, hash_table>> /\ call.key \in Key /\ Places(call.key) = {}
      BY <2>0, <2>4 DEF LookupEnds, table, CallInv
    <3>2. answer' \in Answers
      BY <2>0, <3>1, FlowTableAssumption DEF TypeOK, Flows
    <3>3. flows' = flows /\ FlowsOf(call.key) = {}
      BY <3>1 DEF FlowsOf, Places
    <3>4. Store!Lookup(call.key)
      BY <2>1, <3>1, <3>2, <3>3 DEF Store!Lookup
    <3>. QED
      BY <3>1, <3>4 DEF Store!Next
  <2>5. ASSUME NEW k \in Key, flow_table_delete(k) PROVE Store!Delete(k)
    <3>. DEFINE d == hash_table[Bucket[k.field]][FirstOf(Places(k))]
    <3>1. Places(k) # {} /\ entries' = entries /\ answer' = answer
      BY <2>5 DEF flow_table_delete
    <3>2. d \in FlowsOf(k) /\ d = CHOOSE f \in FlowsOf(k) : \A g \in FlowsOf(k) : g <= f
      BY <2>0, <3>1, FirstIsNewest
    <3>3. freed' = freed \cup {d} /\ entries[d].key = k
      BY <2>0, <2>5, ChainShrinks
    <3>. HIDE DEF d
    <3>4. \A j \in Key : FlowsOf(j)' = IF j = k THEN FlowsOf(j) \ {d} ELSE FlowsOf(j)
      <4>1. ASSUME NEW j \in Key
            PROVE  /\ FlowsOf(j) = {e \in (1 .. Len(entries)) \ freed : entries[e].key = j}
                   /\ FlowsOf(j)' = {e \in (1 .. Len(entries)) \ freed' : entries[e].key = j}
        BY <2>1, <3>1
      <4>2. FlowsOf(k)' = FlowsOf(k) \ {d}
        BY <3>3, <4>1
      <4>3. ASSUME NEW j \in Key, j # k PROVE FlowsOf(j)' = FlowsOf(j)
        BY <3>3, <4>1, <4>3
      <4>. QED
        BY <4>2, <4>3
    <3>5. flows' = [flows EXCEPT ![k] = @ \ {d}]
      BY <2>1, <3>4
    <3>. QED
      BY <2>1, <3>1, <3>2, <3>5 DEF Store!Delete, Store!Newest
  <2>6. CASE UNCHANGED <<entries, hash_table, answer>>
    BY <2>6 DEF FlowsOf, Places
  <2>. QED
    BY <2>2, <2>3, <2>4, <2>5, <2>6 DEF Next, Store!Next, vars, table, LookupWildcard, Descend,
                                        MakeInner, OutOfMemory, InsertEnds
<1>3. Spec => []I
  <2>1. Init => B
    BY FlowTableAssumption DEF Init
  <2>2. FlowTableInv /\ B /\ [Next]_vars => B'
    <3>. SUFFICES ASSUME FlowTableInv, B, [Next]_vars PROVE B'
      OBVIOUS
    <3>1. ASSUME NEW k \in Key, NEW n \in {0, 1}, flow_table_insert(k, n) PROVE B'
      <4>1. Len(entries') = Len(entries) + 1 /\ Len(entries) \in Nat
        BY <3>1, ChainGrows, ChainOfKey DEF FlowTableInv
      <4>2. Len(entries) < MaxFlows
        BY <3>1 DEF flow_table_insert
      <4>. QED
        BY ONLY <4>1, <4>2, FlowTableAssumption
    <3>2. CASE UNCHANGED entries
      BY <3>2
    <3>. QED
      BY <3>1, <3>2 DEF Next, vars, table, LookupExact, LookupWildcard, flow_table_delete, Descend,
                        MakeInner, OutOfMemory, InsertEnds, LookupEnds
  <2>3. FlowTableInv => F
    BY FlowsOfKey DEF FlowTableInv
  <2>. HIDE DEF B, F
  <2>. QED
    BY <2>1, <2>2, <2>3, FlowTableInvariance, PTL DEF Spec
<1>. QED
  BY <1>1, <1>2, <1>3, PTL DEF Spec, ImplementsFlowStore, Store!Spec
===============================================================================
