----------------------------- MODULE OptionsProofs -----------------------------
(***************************************************************************)
(* Proofs about Options and the parser it drives, JsonParser, for every    *)
(* command line, every content of the files it names and every limit of    *)
(* the nesting.  The invariant of the heap says how the lists under        *)
(* construction lie behind each other: addresses only grow, so what a call *)
(* of parse_array or parse_object has allocated lies above the head of its *)
(* list, and nothing below leads there but the stack.  The members of the  *)
(* outermost object are those that the text has named up to there.         *)
(***************************************************************************)
EXTENDS Options, SetInduction, FiniteSetTheorems, SequenceTheorems

ItemType == [type : Kinds \cup {"none"}, number : Int, valuestring : Nat, string : Nat,
             next : Nat, prev : Nat, child : Nat]
StringType == [s : DOMAIN Chars, b : Seq(Int), size : Int]
FrameType == [item : Nat, kind : {"[", "{"}, head : Nat, cur : Nat]

ParserTypeOK ==
  /\ text \in Seq(TokenType) /\ (jpc # "idle" => IsText(text) /\ pos \in DOMAIN text)
  /\ pos \in Nat /\ brk \in Nat \ {0} /\ item \in Nat /\ root \in Nat /\ oom \in BOOLEAN
  /\ DOMAIN items \subseteq 1 .. brk - 1 /\ items \in [DOMAIN items -> ItemType]
  /\ DOMAIN strs \subseteq 1 .. brk - 1 /\ strs \in [DOMAIN strs -> StringType]
  /\ stack \in Seq(FrameType) /\ Len(stack) <= CJSON_NESTING_LIMIT
  /\ jpc \in {"idle", "start", "value", "first", "member", "name", "colon", "after",
              "fail", "done"}

\* Where the parser is, and what it has.
Underway == jpc \in {"value", "first", "member", "name", "colon", "after", "fail"}
PlaceInv ==
  /\ ~ Underway => stack = << >>
  /\ Underway \/ root # NULL => root = 1 /\ root \in DOMAIN items
  /\ ~ Underway /\ root = NULL => DOMAIN items = {} /\ DOMAIN strs = {}
  /\ jpc = "start" => brk = 1 /\ root = NULL
  /\ jpc \in {"first", "member", "name", "colon"} => stack # << >>
  /\ jpc = "first" => Top.head = NULL
  /\ jpc \in {"name", "colon"} => Top.kind = "{"
  /\ jpc \in {"value", "name", "colon"} =>
       /\ item = (IF stack = << >> THEN root ELSE Top.cur) /\ item \in DOMAIN items
       /\ items[item].valuestring = NULL /\ items[item].child = NULL
  /\ jpc = "name" => items[item].string = NULL

\* What is on from i in a heap h: the list from there, and all that hangs on it.
List(h, i) == Reached(i, [j \in DOMAIN h |-> {h[j].next}])
Below(h, i) == Reached(i, [j \in DOMAIN h |-> {h[j].next, h[j].child}])

IsHeap(h) == DOMAIN h \subseteq Nat \ {NULL} /\ h \in [DOMAIN h -> ItemType]

\* A list under construction: what was there before its head does not lead to it.
OpenList(h, o) ==
  /\ o.item \in DOMAIN h /\ h[o.item].child = NULL
  /\ o.head = NULL <=> o.cur = NULL
  /\ o.head # NULL => /\ o.head \in DOMAIN h /\ o.cur \in DOMAIN h
                      /\ o.item < o.head /\ o.head <= o.cur
                      /\ h[o.head].prev = NULL /\ h[o.cur].next = NULL
                      /\ o.cur \in List(h, o.head)
  /\ \A i \in DOMAIN h : i < o.head => /\ h[i].next < o.head /\ h[i].prev < o.head
                                       /\ h[i].child < o.head

\* The lists under construction lie behind each other.
Nested(h, st) ==
  /\ \A f \in DOMAIN st : OpenList(h, st[f])
  /\ \A f, g \in DOMAIN st : f < g => st[f].head # NULL /\ st[f].cur <= st[g].item

\* Pointers lead on; no list that is complete ends where another is going on.
Linked(h, st) ==
  \A i \in DOMAIN h :
    /\ h[i].next \in DOMAIN h \cup {NULL} /\ h[i].prev \in DOMAIN h \cup {NULL}
    /\ h[i].child \in DOMAIN h \cup {NULL}
    /\ h[i].next # NULL => i < h[i].next /\ h[h[i].next].prev = i
    /\ h[i].child # NULL => /\ i < h[i].child /\ h[h[i].child].prev \in List(h, h[i].child)
                            /\ h[h[h[i].child].prev].next = NULL
                            /\ \A f \in DOMAIN st : h[h[i].child].prev # st[f].cur

\* Everything is led to from the root or from the head of a list under construction.
Rooted(h, r, st) ==
  \A j \in DOMAIN h : \/ j = r
                      \/ \E f \in DOMAIN st : j = st[f].head
                      \/ \E i \in DOMAIN h : j = h[i].next \/ j = h[i].child

\* Every string belongs to one item, in one of two ways, and fits.
Owned(h, s) ==
  /\ NULL \notin DOMAIN s
  /\ \A i \in DOMAIN h : /\ h[i].valuestring # NULL => h[i].valuestring \in DOMAIN s
                         /\ h[i].string # NULL => h[i].string \in DOMAIN s
                         /\ h[i].valuestring # NULL => h[i].valuestring # h[i].string
  /\ \A a \in DOMAIN s : \E i \in DOMAIN h : a = h[i].valuestring \/ a = h[i].string
  /\ \A i, j \in DOMAIN h : \A a \in {h[i].valuestring, h[i].string} :
       i # j /\ a # NULL => a # h[j].valuestring /\ a # h[j].string
  /\ \A a \in DOMAIN s : Len(s[a].b) + 1 <= s[a].size

HeapInv == /\ ParserTypeOK /\ PlaceInv
           /\ Nested(items, stack) /\ Linked(items, stack) /\ Rooted(items, root, stack)
           /\ Owned(items, strs)
-------------------------------------------------------------------------------
(* What is reached *)

\* It is in every set that is closed.
LEMMA ReachedLeast ==
  ASSUME NEW leads, NEW i, NEW S \in SUBSET DOMAIN leads, i \in S \cup {NULL},
         \A k \in S : leads[k] \subseteq S \cup {NULL}
  PROVE  Reached(i, leads) \subseteq S
BY DEF Reached

\* It is closed itself.
LEMMA ReachedClosed ==
  ASSUME NEW leads, NEW i \in DOMAIN leads, NULL \notin DOMAIN leads
  PROVE  /\ i \in Reached(i, leads) /\ Reached(i, leads) \subseteq DOMAIN leads
         /\ \A k \in Reached(i, leads) : leads[k] \cap DOMAIN leads \subseteq Reached(i, leads)
BY DEF Reached

\* Where more leads on, more is reached.
LEMMA ReachedMore ==
  ASSUME NEW few, NEW many, NEW i \in DOMAIN few, NULL \notin DOMAIN many,
         DOMAIN few \subseteq DOMAIN many,
         \A k \in DOMAIN few : few[k] \subseteq many[k] \cup {NULL} /\ few[k] \subseteq DOMAIN few \cup {NULL}
  PROVE  Reached(i, few) \subseteq Reached(i, many)
<1>. DEFINE S == Reached(i, many) \cap DOMAIN few
<1>1. /\ i \in S /\ S \in SUBSET DOMAIN few /\ S \subseteq Reached(i, many)
      /\ \A k \in S : few[k] \subseteq S \cup {NULL}
  BY ReachedClosed
<1>. HIDE DEF S
<1>2. Reached(i, few) \subseteq S
  BY <1>1, ReachedLeast
<1>. QED
  BY <1>1, <1>2

\* Nothing that can be reached is lost with what cannot be reached.
LEMMA ReachedRest ==
  ASSUME NEW leads, NEW rest, NEW i \in DOMAIN rest, NULL \notin DOMAIN leads,
         DOMAIN rest \subseteq DOMAIN leads,
         \A k \in DOMAIN rest : rest[k] = leads[k] /\ leads[k] \subseteq DOMAIN rest \cup {NULL}
  PROVE  Reached(i, leads) \subseteq Reached(i, rest)
<1>1. /\ i \in Reached(i, rest) /\ Reached(i, rest) \in SUBSET DOMAIN leads
      /\ \A k \in Reached(i, rest) : leads[k] \subseteq Reached(i, rest) \cup {NULL}
  BY ReachedClosed
<1>. QED
  BY <1>1, ReachedLeast

\* All from i on is reached when each but i itself is led to from a lower one.
LEMMA ReachedAbove ==
  ASSUME NEW leads, NEW i \in DOMAIN leads, DOMAIN leads \subseteq Nat \ {NULL},
         \A k \in DOMAIN leads : \A j \in leads[k] : j # NULL => k < j /\ j \in DOMAIN leads,
         \A j \in DOMAIN leads : i < j => \E k \in DOMAIN leads : i <= k /\ j \in leads[k]
  PROVE  Reached(i, leads) = {j \in DOMAIN leads : i <= j}
<1>. DEFINE A == {j \in DOMAIN leads : i <= j}
            T == A \ Reached(i, leads)
<1>1. Reached(i, leads) \subseteq A
  <2>1. i \in A /\ \A k \in A : leads[k] \subseteq A \cup {NULL}
    OBVIOUS
  <2>. QED
    BY <2>1, ReachedLeast
<1>2. ASSUME T # {} PROVE FALSE
  <2>1. PICK j \in T : \A y \in T : j <= y
    <3>1. T \in SUBSET Nat
      OBVIOUS
    <3>. HIDE DEF T
    <3>. QED
      BY <1>2, <3>1, LeastNatural
  <2>2. i \in Reached(i, leads)
    BY ReachedClosed
  <2>3. i < j /\ j \in DOMAIN leads
    BY <2>1, <2>2
  <2>4. PICK k \in DOMAIN leads : i <= k /\ j \in leads[k]
    BY <2>3
  <2>5. k < j /\ k \in A
    BY <2>3, <2>4 DEF NULL
  <2>6. k \in Reached(i, leads)
    BY <2>1, <2>3, <2>5
  <2>7. j \in Reached(i, leads)
    BY <2>3, <2>4, <2>6, ReachedClosed
  <2>. QED
    BY <2>1, <2>7
<1>. QED
  BY <1>1, <1>2
-------------------------------------------------------------------------------
(* Strings *)

\* Taken never leads beyond the end.
LEMMA TakenType ==
  ASSUME NEW u \in Seq(Int), NEW i \in 1 .. Len(u)
  PROVE  Taken(u, i) \in 0 .. 2 /\ i + Taken(u, i) \in 1 .. Len(u) + 1
BY DEF Taken

\* Unescape is what its recursion says: there is such a function for every length.
LEMMA UnescapeSteps ==
  ASSUME NEW u \in Seq(Int)
  PROVE  /\ DOMAIN Unescape(u) = 1 .. Len(u) + 1
         /\ Unescape(u) = [i \in 1 .. Len(u) + 1 |-> Unescape(u)[i]]
         /\ Unescape(u)[Len(u) + 1] = [good |-> TRUE, bytes |-> << >>]
         /\ \A i \in 1 .. Len(u) :
              Unescape(u)[i] =
                IF Taken(u, i) = 0 THEN [good |-> FALSE, bytes |-> << >>]
                ELSE [good |-> Unescape(u)[i + Taken(u, i)].good,
                      bytes |-> Encode(Codepoint(u, i)) \o Unescape(u)[i + Taken(u, i)].bytes]
<1>. DEFINE N == Len(u)
            T(i) == Taken(u, i)
            C(i) == Encode(Codepoint(u, i))
            At(f, i) == IF i > N THEN [good |-> TRUE, bytes |-> << >>]
                        ELSE IF T(i) = 0 THEN [good |-> FALSE, bytes |-> << >>]
                        ELSE [good |-> f[i + T(i)].good, bytes |-> C(i) \o f[i + T(i)].bytes]
            Def(n, f) == f = [i \in N + 1 - n .. N + 1 |-> At(f, i)]
            S == {n \in 0 .. N : \E f : Def(n, f)}
<1>0. N \in Nat /\ \A i \in 1 .. N : T(i) \in 0 .. 2 /\ i + T(i) \in 1 .. N + 1
  BY TakenType, LenProperties
<1>. HIDE DEF N, T, C
<1>1. 0 \in S
  <2>. DEFINE f == [i \in N + 1 - 0 .. N + 1 |-> [good |-> TRUE, bytes |-> << >>]]
  <2>1. Def(0, f)
    BY <1>0
  <2>2. \E h : Def(0, h)
    <3>. HIDE DEF Def, f
    <3>. QED
      BY <2>1
  <2>. HIDE DEF Def
  <2>. QED
    BY <1>0, <2>2
<1>2. ASSUME NEW n \in 0 .. N, n \in S, n < N PROVE n + 1 \in S
  <2>1. PICK f : Def(n, f)
    BY <1>2
  <2>. DEFINE m == N - n
              g == [i \in N + 1 - (n + 1) .. N + 1 |-> IF i > m THEN f[i] ELSE At(f, m)]
  <2>2. /\ m \in 1 .. N /\ N + 1 - (n + 1) = m /\ N + 1 - n = m + 1
        /\ n + 1 \in 0 .. N
    BY <1>0, <1>2
  <2>3. \A i \in m + 1 .. N + 1 : f[i] = At(f, i) /\ g[i] = f[i]
    <3>1. f = [i \in m + 1 .. N + 1 |-> At(f, i)]
      BY <2>1, <2>2
    <3>2. \A i \in m + 1 .. N + 1 : i \in m .. N + 1 /\ i > m
      BY <1>0, <2>2
    <3>. HIDE DEF At, m
    <3>. QED
      BY <2>2, <3>1, <3>2
  <2>4. g[m] = At(f, m)
    <3>1. m \in m .. N + 1 /\ ~ (m > m)
      BY <1>0, <2>2
    <3>. HIDE DEF At, m
    <3>. QED
      BY <2>2, <3>1
  <2>. HIDE DEF g
  <2>5. ASSUME NEW i \in m .. N + 1 PROVE At(g, i) = At(f, i)
    <3>1. CASE i <= N /\ T(i) # 0
      <4>1. i + T(i) \in m + 1 .. N + 1
        <5>1. i \in 1 .. N
          BY <1>0, <2>2, <3>1
        <5>2. T(i) \in 0 .. 2 /\ i + T(i) \in 1 .. N + 1
          BY <1>0, <5>1
        <5>. QED
          BY <2>2, <3>1, <5>2
      <4>2. g[i + T(i)] = f[i + T(i)]
        BY <2>3, <4>1
      <4>. QED
        BY <4>2
    <3>2. CASE i > N \/ T(i) = 0
      BY <3>2
    <3>3. i <= N \/ i > N
      BY <1>0, <2>2
    <3>. QED
      BY <3>1, <3>2, <3>3
  <2>6. \A i \in m .. N + 1 : g[i] = At(g, i)
    <3>1. \A i \in m .. N + 1 : i = m \/ i \in m + 1 .. N + 1
      BY <1>0, <2>2
    <3>. HIDE DEF At, m
    <3>. QED
      BY <2>3, <2>4, <2>5, <3>1
  <2>7. g = [i \in N + 1 - (n + 1) .. N + 1 |-> g[i]]
    BY DEF g
  <2>8. Def(n + 1, g)
    <3>. HIDE DEF At, m
    <3>. QED
      BY <2>2, <2>6, <2>7
  <2>9. \E h : Def(n + 1, h)
    <3>. HIDE DEF Def
    <3>. QED
      BY <2>8
  <2>. QED
    BY <2>2, <2>9
<1>3. \E f : Def(N, f)
  <2>1. 0 .. N \subseteq S
    <3>. HIDE DEF S
    <3>. QED
      BY <1>0, <1>1, <1>2, UpTo
  <2>. HIDE DEF Def
  <2>. QED
    BY <1>0, <2>1
<1>. DEFINE U == Unescape(u)
<1>4. U = [i \in 1 .. N + 1 |-> At(U, i)]
  <2>1. N + 1 - N = 1
    BY <1>0
  <2>2. \E f : f = [i \in 1 .. N + 1 |-> At(f, i)]
    BY <1>3, <2>1
  <2>3. U = CHOOSE f : f = [i \in 1 .. N + 1 |-> At(f, i)]
    BY DEF Unescape, N, T, C
  <2>. HIDE DEF U, At
  <2>. QED
    BY <2>2, <2>3
<1>. HIDE DEF U
<1>5. /\ DOMAIN U = 1 .. N + 1 /\ U = [i \in 1 .. N + 1 |-> U[i]]
      /\ U[N + 1] = At(U, N + 1) /\ \A i \in 1 .. N : U[i] = At(U, i)
  <2>1. N + 1 \in 1 .. N + 1 /\ \A i \in 1 .. N : i \in 1 .. N + 1
    BY <1>0
  <2>. HIDE DEF At
  <2>. QED
    BY <1>4, <2>1
<1>6. N + 1 > N /\ \A i \in 1 .. N : ~ (i > N)
  BY <1>0
<1>. QED
  BY <1>5, <1>6 DEF U, N, T, C

\* Room is what its recursion says.
LEMMA RoomSteps ==
  ASSUME NEW u \in Seq(Int)
  PROVE  /\ Room(u)[Len(u) + 1] = 2
         /\ \A i \in 1 .. Len(u) :
              Room(u)[i] = Width(u[i]) - Backslashes(u[i]) + Room(u)[i + 1]
<1>. DEFINE N == Len(u)
            W(i) == Width(u[i]) - Backslashes(u[i])
            At(f, i) == IF i > N THEN 2 ELSE W(i) + f[i + 1]
            Def(n, f) == f = [i \in N + 1 - n .. N + 1 |-> At(f, i)]
            S == {n \in 0 .. N : \E f : Def(n, f)}
<1>0. N \in Nat
  BY LenProperties
<1>. HIDE DEF N, W
<1>1. 0 \in S
  <2>. DEFINE f == [i \in N + 1 - 0 .. N + 1 |-> 2]
  <2>1. Def(0, f)
    BY <1>0
  <2>2. \E h : Def(0, h)
    <3>. HIDE DEF Def, f
    <3>. QED
      BY <2>1
  <2>. HIDE DEF Def
  <2>. QED
    BY <1>0, <2>2
<1>2. ASSUME NEW n \in 0 .. N, n \in S, n < N PROVE n + 1 \in S
  <2>1. PICK f : Def(n, f)
    BY <1>2
  <2>. DEFINE m == N - n
              g == [i \in N + 1 - (n + 1) .. N + 1 |-> IF i > m THEN f[i] ELSE At(f, m)]
  <2>2. /\ m \in 1 .. N /\ N + 1 - (n + 1) = m /\ N + 1 - n = m + 1
        /\ n + 1 \in 0 .. N
    BY <1>0, <1>2
  <2>3. \A i \in m + 1 .. N + 1 : f[i] = At(f, i) /\ g[i] = f[i]
    <3>1. f = [i \in m + 1 .. N + 1 |-> At(f, i)]
      BY <2>1, <2>2
    <3>2. \A i \in m + 1 .. N + 1 : i \in m .. N + 1 /\ i > m
      BY <1>0, <2>2
    <3>. HIDE DEF At, m
    <3>. QED
      BY <2>2, <3>1, <3>2
  <2>4. g[m] = At(f, m)
    <3>1. m \in m .. N + 1 /\ ~ (m > m)
      BY <1>0, <2>2
    <3>. HIDE DEF At, m
    <3>. QED
      BY <2>2, <3>1
  <2>. HIDE DEF g
  <2>5. ASSUME NEW i \in m .. N + 1 PROVE At(g, i) = At(f, i)
    <3>1. CASE i <= N
      <4>1. i + 1 \in m + 1 .. N + 1
        BY <1>0, <2>2, <3>1
      <4>. QED
        BY <2>3, <4>1
    <3>2. CASE i > N
      BY <3>2
    <3>. QED
      BY <1>0, <2>2, <3>1, <3>2
  <2>6. \A i \in m .. N + 1 : g[i] = At(g, i)
    <3>1. \A i \in m .. N + 1 : i = m \/ i \in m + 1 .. N + 1
      BY <1>0, <2>2
    <3>. HIDE DEF At, m
    <3>. QED
      BY <2>3, <2>4, <2>5, <3>1
  <2>7. g = [i \in N + 1 - (n + 1) .. N + 1 |-> g[i]]
    BY DEF g
  <2>8. Def(n + 1, g)
    <3>. HIDE DEF At, m
    <3>. QED
      BY <2>2, <2>6, <2>7
  <2>9. \E h : Def(n + 1, h)
    <3>. HIDE DEF Def
    <3>. QED
      BY <2>8
  <2>. QED
    BY <2>2, <2>9
<1>3. \E f : Def(N, f)
  <2>1. 0 .. N \subseteq S
    <3>. HIDE DEF S
    <3>. QED
      BY <1>0, <1>1, <1>2, UpTo
  <2>. HIDE DEF Def
  <2>. QED
    BY <1>0, <2>1
<1>. DEFINE R == Room(u)
<1>4. R = [i \in 1 .. N + 1 |-> At(R, i)]
  <2>1. N + 1 - N = 1
    BY <1>0
  <2>2. \E f : f = [i \in 1 .. N + 1 |-> At(f, i)]
    BY <1>3, <2>1
  <2>3. R = CHOOSE f : f = [i \in 1 .. N + 1 |-> At(f, i)]
    BY DEF Room, N, W
  <2>. HIDE DEF R, At
  <2>. QED
    BY <2>2, <2>3
<1>. HIDE DEF R
<1>5. R[N + 1] = At(R, N + 1) /\ \A i \in 1 .. N : R[i] = At(R, i)
  <2>1. N + 1 \in 1 .. N + 1 /\ \A i \in 1 .. N : i \in 1 .. N + 1
    BY <1>0
  <2>. HIDE DEF At
  <2>. QED
    BY <1>4, <2>1
<1>6. N + 1 > N /\ \A i \in 1 .. N : ~ (i > N)
  BY <1>0
<1>. QED
  BY <1>5, <1>6 DEF R, N, W

\* A code point takes one to four bytes, one below 128 a single one.
LEMMA EncodeType ==
  ASSUME NEW c \in Int
  PROVE  /\ Encode(c) \in Seq(Int) /\ Len(Encode(c)) \in 1 .. 4
         /\ c < 128 => Encode(c) = <<c>>
BY DEF Encode

\* What an escape or a character turns into takes no more than it gives room for.
LEMMA PieceFits ==
  ASSUME NEW u \in Seq(Int), NEW i \in 1 .. Len(u), Taken(u, i) # 0
  PROVE  /\ Codepoint(u, i) \in Int
         /\ Taken(u, i) = 1 => Len(Encode(Codepoint(u, i))) <= Width(u[i]) - Backslashes(u[i])
         /\ Taken(u, i) = 2 => /\ i + 1 \in 1 .. Len(u)
                               /\ Width(u[i]) = 6 /\ Width(u[i + 1]) = 6
                               /\ Backslashes(u[i]) = 1 /\ Backslashes(u[i + 1]) = 1
<1>1. u[i] \in Int /\ (i < Len(u) => i + 1 \in 1 .. Len(u) /\ u[i + 1] \in Int)
  BY LenProperties
<1>2. Codepoint(u, i) \in Int
  BY <1>1, TakenType DEF Codepoint, Taken, parse_hex4
<1>3. ASSUME Taken(u, i) = 1
      PROVE  Len(Encode(Codepoint(u, i))) <= Width(u[i]) - Backslashes(u[i])
  <2>1. CASE IsLiteral(u[i])
    <3>. DEFINE w == Width(u[i]) - Backslashes(u[i])
                l == Len(Encode(Codepoint(u, i)))
    <3>1. w = 5
      BY <1>1, <2>1 DEF IsLiteral, Width, Backslashes, Plain, BadHex
    <3>2. l \in 1 .. 4
      BY <1>2, EncodeType
    <3>. HIDE DEF w, l
    <3>3. l <= w
      BY ONLY <3>1, <3>2
    <3>. QED
      BY <3>3 DEF w, l
  <2>2. CASE ~ IsLiteral(u[i])
    <3>1. Codepoint(u, i) < 128
      BY <1>1, <1>3, <2>2 DEF Codepoint, IsLiteral, parse_hex4, Plain, Newline, BadHex
    <3>2. Len(Encode(Codepoint(u, i))) = 1
      BY <1>2, <3>1, EncodeType
    <3>. QED
      BY <2>2, <3>2 DEF Width, Backslashes
  <2>. QED
    BY <2>1, <2>2
<1>4. ASSUME Taken(u, i) = 2
      PROVE  /\ i + 1 \in 1 .. Len(u) /\ IsLiteral(u[i]) /\ IsLiteral(u[i + 1])
  BY <1>1, <1>4 DEF Taken, IsLiteral, High, Low, parse_hex4, BadEscape, BadHex
<1>. QED
  BY <1>1, <1>2, <1>3, <1>4 DEF IsLiteral, Width, Backslashes, Plain, BadHex

\* The output of parse_string fits into what it allocates, whatever the literal holds.
THEOREM UnescapedFits ==
  ASSUME NEW u \in Seq(Int)
  PROVE  /\ Unescaped(u) \in Seq(Int) /\ Allocated(u) \in Nat
         /\ Len(Unescaped(u)) + 1 <= Allocated(u)
         /\ Unescape(u) \in [1 .. Len(u) + 1 -> [good : BOOLEAN, bytes : Seq(Int)]]
<1>. DEFINE N == Len(u)
            U == Unescape(u)
            R == Room(u)
            Fits(i) == /\ U[i].bytes \in Seq(Int) /\ R[i] \in Nat
                       /\ Len(U[i].bytes) + 2 <= R[i]
                       /\ U[i] \in [good : BOOLEAN, bytes : Seq(Int)]
            S == {n \in 0 .. N : \A i \in N + 1 - n .. N + 1 : Fits(i)}
<1>0. N \in Nat /\ DOMAIN U = 1 .. N + 1
  BY UnescapeSteps, LenProperties
<1>1. 0 \in S
  <2>1. U[N + 1] = [good |-> TRUE, bytes |-> << >>] /\ R[N + 1] = 2
    BY UnescapeSteps, RoomSteps
  <2>. HIDE DEF U, R
  <2>2. Fits(N + 1)
    BY <2>1
  <2>3. \A i \in N + 1 - 0 .. N + 1 : i = N + 1
    BY <1>0
  <2>. HIDE DEF Fits
  <2>. QED
    BY <1>0, <2>2, <2>3
<1>2. ASSUME NEW n \in 0 .. N, n \in S, n < N PROVE n + 1 \in S
  <2>. DEFINE m == N - n
  <2>1. /\ m \in 1 .. N /\ N + 1 - (n + 1) = m /\ N + 1 - n = m + 1 /\ n + 1 \in 0 .. N
        /\ u[m] \in Int
    BY <1>0, <1>2, LenProperties
  <2>2. \A i \in m + 1 .. N + 1 : Fits(i)
    <3>. HIDE DEF Fits, m
    <3>. QED
      BY <1>2, <2>1
  <2>3. Fits(m)
    <3>. DEFINE c == Encode(Codepoint(u, m))
                t == Taken(u, m)
                r == Width(u[m]) - Backslashes(u[m])
    <3>1. /\ t \in 0 .. 2 /\ m + t \in 1 .. N + 1
          /\ U[m] = IF t = 0 THEN [good |-> FALSE, bytes |-> << >>]
                    ELSE [good |-> U[m + t].good, bytes |-> c \o U[m + t].bytes]
          /\ R[m] = r + R[m + 1]
      <4>. HIDE DEF m
      <4>. QED
        BY <2>1, TakenType, UnescapeSteps, RoomSteps
    <3>2. r \in Nat
      <4>. HIDE DEF m
      <4>. QED
        BY <2>1 DEF Width, Backslashes, IsLiteral, Plain, BadHex
    <3>3. R[m + 1] \in Nat /\ R[m + 1] >= 2
      <4>1. m + 1 \in m + 1 .. N + 1
        BY <1>0, <2>1
      <4>2. Fits(m + 1)
        BY ONLY <2>2, <4>1
      <4>. HIDE DEF m, U, R
      <4>. QED
        BY <4>2
    <3>4. CASE t = 0
      <4>. HIDE DEF m, U, R, t, c, r
      <4>. QED
        BY <3>1, <3>2, <3>3, <3>4
    <3>5. CASE t # 0
      <4>1. /\ c \in Seq(Int) /\ Len(c) \in 1 .. 4
            /\ t = 1 => Len(c) <= r
            /\ t = 2 => m + 1 \in 1 .. N /\ r = 5 /\ R[m + 1] = 5 + R[m + 2]
        <5>1. Codepoint(u, m) \in Int
          BY <2>1, <3>5, PieceFits
        <5>2. c \in Seq(Int) /\ Len(c) \in 1 .. 4
          BY <5>1, EncodeType
        <5>3. t = 1 => Len(c) <= r
          BY <2>1, <3>5, PieceFits
        <5>4. ASSUME t = 2 PROVE m + 1 \in 1 .. N /\ r = 5 /\ R[m + 1] = 5 + R[m + 2]
          <6>1. m + 1 \in 1 .. N /\ r = 5 /\ Width(u[m + 1]) - Backslashes(u[m + 1]) = 5
            <7>1. /\ m + 1 \in 1 .. N /\ Width(u[m]) = 6 /\ Width(u[m + 1]) = 6
                  /\ Backslashes(u[m]) = 1 /\ Backslashes(u[m + 1]) = 1
              <8>1. Taken(u, m) = 2 /\ Taken(u, m) # 0 /\ m \in 1 .. Len(u)
                BY <2>1, <5>4
              <8>. HIDE DEF m
              <8>. QED
                BY <8>1, PieceFits
            <7>. QED
              BY ONLY <7>1
          <6>2. R[m + 1] = 5 + R[(m + 1) + 1] /\ (m + 1) + 1 = m + 2
            <7>. HIDE DEF m
            <7>1. /\ Room(u)[m + 1] = Width(u[m + 1]) - Backslashes(u[m + 1]) + Room(u)[(m + 1) + 1]
                  /\ (m + 1) + 1 = m + 2
              BY <2>1, <6>1, RoomSteps
            <7>. QED
              BY <6>1, <7>1
          <6>. QED
            BY <6>1, <6>2
        <5>. QED
          BY <5>2, <5>3, <5>4
      <4>2. m + t \in m + 1 .. N + 1
        BY <1>0, <2>1, <3>1, <3>5
      <4>3. Fits(m + t)
        <5>. HIDE DEF m, t, Fits
        <5>. QED
          BY <2>2, <4>2
      <4>4. Len(c) + R[m + t] <= R[m] /\ R[m] \in Nat /\ R[m + t] \in Nat
        <5>1. CASE t = 1
          <6>1. R[m + t] = R[m + 1]
            BY <5>1
          <6>. HIDE DEF m, U, R, t, c, r
          <6>. QED
            BY <3>1, <3>2, <3>3, <4>1, <5>1, <6>1
        <5>2. CASE t = 2
          <6>1. R[m + t] = R[m + 2] /\ R[m + t] \in Nat
            BY <4>3, <5>2
          <6>2. r = 5 /\ R[m + 1] = 5 + R[m + 2] /\ R[m] = r + R[m + 1] /\ Len(c) \in 1 .. 4
            BY ONLY <3>1, <4>1, <5>2
          <6>. HIDE DEF m, U, R, t, c, r
          <6>3. R[m + 2] \in Nat
            BY ONLY <6>1
          <6>4. R[m + 1] \in Nat /\ R[m] = 5 + R[m + 1]
            BY ONLY <6>2, <6>3
          <6>5. R[m] \in Nat /\ R[m] = 10 + R[m + 2]
            BY ONLY <6>2, <6>3, <6>4
          <6>6. Len(c) + R[m + 2] <= R[m]
            <7>. DEFINE l == Len(c)
                        x == R[m + 2]
                        y == R[m]
            <7>1. l \in 1 .. 4 /\ x \in Nat /\ y = 10 + x
              BY ONLY <6>2, <6>3, <6>5
            <7>. HIDE DEF l, x, y
            <7>2. l + x <= y
              BY ONLY <7>1
            <7>. QED
              BY ONLY <7>2 DEF l, x, y
          <6>. QED
            BY ONLY <6>1, <6>3, <6>5, <6>6
        <5>. QED
          BY <3>1, <3>5, <5>1, <5>2
      <4>5. U[m] = [good |-> U[m + t].good, bytes |-> c \o U[m + t].bytes]
        <5>. HIDE DEF m, U, R, t, c, r
        <5>. QED
          BY <3>1, <3>5
      <4>. HIDE DEF m, U, R, t, c, r
      <4>6. /\ U[m].bytes = c \o U[m + t].bytes /\ U[m].bytes \in Seq(Int)
            /\ Len(U[m].bytes) = Len(c) + Len(U[m + t].bytes)
        <5>. DEFINE b == U[m + t].bytes
                    d == U[m].bytes
        <5>1. b \in Seq(Int) /\ c \in Seq(Int)
          BY ONLY <4>1, <4>3
        <5>2. d = c \o b
          BY ONLY <4>5
        <5>. HIDE DEF b, d
        <5>3. d = c \o b /\ d \in Seq(Int) /\ Len(d) = Len(c) + Len(b)
          BY ONLY <5>1, <5>2, ConcatProperties
        <5>. QED
          BY ONLY <5>3 DEF b, d
      <4>7. Len(U[m + t].bytes) \in Nat /\ Len(c) \in Nat
        BY <4>1, <4>3
      <4>8. Len(U[m].bytes) + 2 <= R[m]
        BY ONLY <4>3, <4>4, <4>6, <4>7
      <4>. QED
        BY <4>3, <4>4, <4>5, <4>6, <4>8
    <3>. QED
      BY <3>4, <3>5
  <2>4. \A i \in m .. N + 1 : i = m \/ i \in m + 1 .. N + 1
    BY <1>0, <2>1
  <2>. HIDE DEF Fits, m
  <2>. QED
    BY <2>1, <2>2, <2>3, <2>4
<1>3. 0 .. N \subseteq S
  <2>. HIDE DEF S
  <2>. QED
    BY <1>0, <1>1, <1>2, UpTo
<1>4. \A i \in 1 .. N + 1 : Fits(i)
  <2>1. N \in S /\ N + 1 - N = 1
    BY <1>0, <1>3
  <2>. HIDE DEF Fits
  <2>. QED
    BY <2>1
<1>5. U \in [1 .. N + 1 -> [good : BOOLEAN, bytes : Seq(Int)]]
  <2>1. U = [i \in 1 .. N + 1 |-> U[i]]
    BY UnescapeSteps
  <2>. HIDE DEF U, R
  <2>. QED
    BY <1>4, <2>1
<1>6. Fits(1)
  BY <1>0, <1>4
<1>. QED
  BY <1>5, <1>6 DEF Unescaped, Allocated
-------------------------------------------------------------------------------
(* The types of the parser *)

\* What allocating does to a heap.
LEMMA PutAt ==
  ASSUME NEW heap, NEW a, NEW v
  PROVE  /\ DOMAIN Put(heap, a, v) = DOMAIN heap \cup {a}
         /\ Put(heap, a, v)[a] = v
         /\ \A x \in DOMAIN heap : x # a => Put(heap, a, v)[x] = heap[x]
BY DEF Put

\* A heap stays one with what is allocated next.
LEMMA PutType ==
  ASSUME NEW heap, NEW T, heap \in [DOMAIN heap -> T], NEW a \in Nat \ {0}, NEW v \in T,
         DOMAIN heap \subseteq 1 .. a - 1
  PROVE  LET new == Put(heap, a, v)
         IN DOMAIN new \subseteq 1 .. (a + 1) - 1 /\ new \in [DOMAIN new -> T]
<1>1. \A x \in 1 .. a - 1 : x \in 1 .. (a + 1) - 1
  OBVIOUS
<1>2. a \in 1 .. (a + 1) - 1
  OBVIOUS
<1>3. \A x \in DOMAIN heap : heap[x] \in T
  OBVIOUS
<1>. QED
  BY <1>1, <1>2, <1>3 DEF Put

\* A new item.
LEMMA BlankType == Blank \in ItemType /\ NULL \in Nat
<1>1. NULL \in Nat /\ 0 \in Int
  BY DEF NULL
<1>. QED
  BY <1>1 DEF Blank, ItemType

\* The text goes on behind every token but its end.
LEMMA TextGoesOn ==
  ASSUME ParserTypeOK, jpc # "idle"
  PROVE  /\ Token \in TokenType
         /\ Token.k # "end" => pos + 1 \in DOMAIN text
<1>1. /\ text \in Seq(TokenType) /\ pos \in DOMAIN text /\ text[Len(text)].k = "end"
      /\ DOMAIN text = 1 .. Len(text) /\ Len(text) \in Nat
  BY LenProperties DEF ParserTypeOK, IsText
<1>2. text[pos] \in TokenType
  BY <1>1
<1>. QED
  BY <1>1, <1>2 DEF Token

\* The innermost call, and those around it.
LEMMA TopType ==
  ASSUME ParserTypeOK, stack # << >>
  PROVE  /\ Len(stack) \in DOMAIN stack /\ DOMAIN stack = 1 .. Len(stack) /\ Len(stack) \in Nat
         /\ Top \in FrameType /\ Top.kind \in {"[", "{"}
         /\ Outer \in Seq(FrameType) /\ Len(Outer) = Len(stack) - 1
         /\ DOMAIN Outer = 1 .. Len(stack) - 1
         /\ \A f \in 1 .. Len(stack) - 1 : f \in DOMAIN stack /\ Outer[f] = stack[f]
<1>1. /\ Len(stack) \in DOMAIN stack /\ DOMAIN stack = 1 .. Len(stack) /\ Len(stack) \in Nat
      /\ Top \in FrameType
  BY LenProperties DEF ParserTypeOK, Top
<1>2. /\ Outer \in Seq(FrameType) /\ Len(Outer) = Len(stack) - 1
      /\ \A f \in 1 .. Len(stack) - 1 : f \in DOMAIN stack /\ Outer[f] = stack[f]
  BY <1>1 DEF ParserTypeOK, Outer
<1>3. DOMAIN Outer = 1 .. Len(stack) - 1
  BY <1>1, <1>2
<1>4. Top.kind \in {"[", "{"}
  BY <1>1 DEF FrameType
<1>. QED
  BY <1>1, <1>2, <1>3, <1>4

\* Every step of the parser keeps the types.
LEMMA StepParserTypes == HeapInv /\ JsonNext => ParserTypeOK'
<1>. SUFFICES ASSUME HeapInv, JsonNext PROVE ParserTypeOK'
  OBVIOUS
<1>0. ParserTypeOK /\ PlaceInv /\ Nested(items, stack) /\ CJSON_NESTING_LIMIT \in Nat
  BY OptionsAssumption DEF HeapInv
<1>a. ASSUME stack # << >>
      PROVE  Len(Outer) <= CJSON_NESTING_LIMIT /\ Outer \in Seq(FrameType)
  <2>1. Outer \in Seq(FrameType) /\ Len(Outer) = Len(stack) - 1 /\ Len(stack) \in Nat
    BY <1>0, <1>a, TopType
  <2>2. Len(stack) <= CJSON_NESTING_LIMIT
    BY <1>0 DEF ParserTypeOK
  <2>3. Len(Outer) <= CJSON_NESTING_LIMIT
    BY ONLY <1>0, <2>1, <2>2
  <2>. QED
    BY <2>1, <2>3
<1>1. Blank \in ItemType /\ NULL \in Nat
  BY BlankType
<1>2. brk \in Nat \ {0} /\ brk + 1 \in Nat \ {0} /\ 1 .. (brk + 1) - 1 = 1 .. brk
  BY <1>0 DEF ParserTypeOK
<1>3. ASSUME NEW x \in {Blank, [Blank EXCEPT !.prev = Top.cur]}, NEW heap, stack # << >> \/ x = Blank,
             DOMAIN heap = DOMAIN items, heap \in [DOMAIN heap -> ItemType]
      PROVE  LET new == Put(heap, brk, x)
             IN /\ DOMAIN new \subseteq 1 .. (brk + 1) - 1
                /\ new \in [DOMAIN new -> ItemType]
  <2>1. x \in ItemType
    <3>1. CASE x = Blank
      BY <1>1, <3>1
    <3>2. CASE stack # << >>
      <4>1. Top.cur \in Nat
        BY <1>0, <3>2, TopType DEF FrameType
      <4>. QED
        BY <1>1, <1>3, <4>1 DEF Blank, ItemType
    <3>. QED
      BY <1>3, <3>1, <3>2
  <2>2. DOMAIN heap \subseteq 1 .. brk - 1
    BY <1>0, <1>3 DEF ParserTypeOK
  <2>. QED
    BY <1>2, <1>3, <2>1, <2>2, PutType
<1>4. CASE NewRoot
  <2>1. jpc # "idle" /\ items \in [DOMAIN items -> ItemType]
    BY <1>0, <1>4 DEF NewRoot, ParserTypeOK
  <2>2. DOMAIN items' \subseteq 1 .. brk' - 1 /\ items' \in [DOMAIN items' -> ItemType]
    BY <1>3, <1>4, <2>1 DEF NewRoot
  <2>3. DOMAIN strs \subseteq 1 .. brk' - 1
    BY <1>0, <1>2, <1>4 DEF NewRoot, ParserTypeOK
  <2>. QED
    BY <1>0, <1>2, <1>4, <2>1, <2>2, <2>3 DEF NewRoot, ParserTypeOK
<1>5. ASSUME UNCHANGED <<text, items, strs, brk, stack, root, item>>,
             jpc' \in {"member", "value", "fail", "done"}, jpc # "idle",
             pos' \in DOMAIN text, oom' \in BOOLEAN
      PROVE  ParserTypeOK'
  <2>1. pos' \in Nat
    BY <1>0, <1>5 DEF ParserTypeOK
  <2>. QED
    BY <1>0, <1>5, <2>1 DEF ParserTypeOK
<1>6. CASE NoRoot \/ StringFails \/ NoValue \/ NoMember \/ NoName \/ NoColon \/ NoClose \/ First
  BY <1>0, <1>5, <1>6
  DEF NoRoot, StringFails, NoString, NoValue, NoMember, NoName, NoColon, NoClose, First, Fails,
      ParserTypeOK
<1>7. CASE Colon \/ More
  BY <1>0, <1>5, <1>7, TextGoesOn DEF Colon, More, ParserTypeOK
<1>8. CASE Accept
  BY <1>0, <1>1, <1>8 DEF Accept, ParserTypeOK
<1>9. ASSUME Token.k # "end", jpc # "idle", pos' = pos + 1, jpc' \in {"after", "first", "colon"},
             UNCHANGED text
      PROVE  pos' \in Nat /\ pos' \in DOMAIN text' /\ text' \in Seq(TokenType) /\ IsText(text')
             /\ Token.u \in Seq(Int) /\ Token.s \in DOMAIN Chars /\ Token.n \in Int /\ Token.k \in Kinds
  <2>1. Token \in TokenType /\ pos' \in DOMAIN text /\ text \in Seq(TokenType) /\ IsText(text)
    BY <1>0, <1>9, TextGoesOn DEF ParserTypeOK
  <2>2. text' = text /\ IsText(text')
    BY <1>9, <2>1 DEF IsText
  <2>3. pos' \in Nat
    BY <1>0, <1>9 DEF ParserTypeOK
  <2>4. Token.u \in Seq(Int) /\ Token.s \in DOMAIN Chars /\ Token.n \in Int /\ Token.k \in Kinds
    BY <2>1 DEF TokenType
  <2>. QED
    BY <2>1, <2>2, <2>3, <2>4
<1>10. jpc = "value" => item \in DOMAIN items /\ items[item] \in ItemType
  BY <1>0 DEF PlaceInv, ParserTypeOK
<1>11. CASE Literal
  <2>1. [items[item] EXCEPT !.type = Token.k] \in ItemType
    BY <1>9, <1>10, <1>11 DEF Literal, Fill, ItemType
  <2>2. DOMAIN items' = DOMAIN items /\ items' \in [DOMAIN items -> ItemType]
    BY <1>0, <1>11, <2>1 DEF Literal, Fill, ParserTypeOK
  <2>. QED
    BY <1>0, <1>9, <1>11, <2>2 DEF Literal, Fill, ParserTypeOK
<1>12. CASE Number
  <2>1. [items[item] EXCEPT !.type = "num", !.number = Token.n] \in ItemType
    BY <1>9, <1>10, <1>12 DEF Number, Fill, ItemType
  <2>2. DOMAIN items' = DOMAIN items /\ items' \in [DOMAIN items -> ItemType]
    BY <1>0, <1>12, <2>1 DEF Number, Fill, ParserTypeOK
  <2>. QED
    BY <1>0, <1>9, <1>12, <2>2 DEF Number, Fill, ParserTypeOK
<1>13. ASSUME String, Token.u \in Seq(Int), Token.s \in DOMAIN Chars
       PROVE  /\ DOMAIN strs' \subseteq 1 .. brk' - 1 /\ strs' \in [DOMAIN strs' -> StringType]
              /\ DOMAIN items \subseteq 1 .. brk' - 1 /\ brk' \in Nat \ {0} /\ brk \in Nat
  <2>. DEFINE o == [s |-> Token.s, b |-> Unescaped(Token.u), size |-> Allocated(Token.u)]
  <2>1. o \in StringType
    BY <1>13, UnescapedFits DEF StringType
  <2>2. /\ DOMAIN items \subseteq 1 .. brk /\ DOMAIN strs \subseteq 1 .. brk - 1
        /\ strs \in [DOMAIN strs -> StringType]
    BY <1>0, <1>2 DEF ParserTypeOK
  <2>3. strs' = Put(strs, brk, o) /\ brk' = brk + 1
    BY <1>13 DEF String
  <2>. HIDE DEF o
  <2>4. DOMAIN strs' \subseteq 1 .. (brk + 1) - 1 /\ strs' \in [DOMAIN strs' -> StringType]
    BY <1>2, <2>1, <2>2, <2>3, PutType
  <2>. QED
    BY <1>2, <2>2, <2>3, <2>4
<1>14. CASE StringValue
  <2>0. Token.k # "end" /\ jpc = "value"
    BY <1>14 DEF StringValue, String
  <2>1. [items[item] EXCEPT !.type = "str", !.valuestring = brk] \in ItemType
    <3>1. items[item] \in ItemType /\ brk \in Nat /\ "str" \in Kinds
      BY <1>2, <1>10, <2>0 DEF Kinds
    <3>. QED
      BY <3>1 DEF ItemType
  <2>2. DOMAIN items' = DOMAIN items /\ items' \in [DOMAIN items -> ItemType]
    BY <1>0, <1>14, <2>1 DEF StringValue, Fill, ParserTypeOK
  <2>. QED
    BY <1>0, <1>9, <1>13, <1>14, <2>0, <2>2 DEF StringValue, Fill, ParserTypeOK
<1>15. CASE Name
  <2>0. /\ Token.k # "end" /\ jpc = "name" /\ items[item] \in ItemType /\ String
        /\ pos' = pos + 1 /\ jpc' = "colon" /\ UNCHANGED <<text, stack, item, root, oom>>
        /\ items' = [items EXCEPT ![item] = [items[item] EXCEPT !.string = brk]]
    BY <1>0, <1>15 DEF Name, String, PlaceInv, ParserTypeOK
  <2>1. [items[item] EXCEPT !.string = brk] \in ItemType
    BY <1>2, <2>0 DEF ItemType
  <2>2. DOMAIN items' = DOMAIN items /\ items' \in [DOMAIN items -> ItemType]
    BY <1>0, <2>0, <2>1 DEF ParserTypeOK
  <2>3. /\ pos' \in Nat /\ pos' \in DOMAIN text' /\ text' \in Seq(TokenType) /\ IsText(text')
        /\ Token.u \in Seq(Int) /\ Token.s \in DOMAIN Chars
    BY <1>9, <2>0
  <2>. QED
    BY <1>0, <1>13, <2>0, <2>2, <2>3 DEF ParserTypeOK
<1>16. CASE Open
  <2>1. [item |-> item, kind |-> Token.k, head |-> NULL, cur |-> NULL] \in FrameType
    BY <1>0, <1>1, <1>16 DEF Open, FrameType, ParserTypeOK
  <2>2. stack' \in Seq(FrameType) /\ Len(stack') <= CJSON_NESTING_LIMIT
    <3>. DEFINE o == [item |-> item, kind |-> Token.k, head |-> NULL, cur |-> NULL]
    <3>1. /\ stack' = Append(stack, o) /\ stack \in Seq(FrameType)
          /\ Len(stack) < CJSON_NESTING_LIMIT /\ o \in FrameType
      BY <1>0, <1>16, <2>1 DEF Open, ParserTypeOK
    <3>. HIDE DEF o
    <3>2. stack' \in Seq(FrameType) /\ Len(stack') = Len(stack) + 1 /\ Len(stack) \in Nat
      BY <3>1, LenProperties, AppendProperties
    <3>3. Len(stack) + 1 <= CJSON_NESTING_LIMIT
      BY <1>0, <3>1, <3>2
    <3>. QED
      BY <3>2, <3>3
  <2>. QED
    BY <1>0, <1>9, <1>16, <2>2 DEF Open, ParserTypeOK
<1>17. ASSUME stack # << >>, NEW o \in FrameType, stack' = Append(Outer, o)
       PROVE  stack' \in Seq(FrameType) /\ Len(stack') <= CJSON_NESTING_LIMIT
  <2>1. Outer \in Seq(FrameType) /\ Len(Outer) = Len(stack) - 1 /\ Len(stack) \in Nat
    BY <1>0, <1>17, TopType
  <2>2. Len(Outer) + 1 = Len(stack)
    BY ONLY <2>1
  <2>3. stack' \in Seq(FrameType) /\ Len(stack') = Len(Outer) + 1
    BY <1>17, <2>1, AppendProperties
  <2>. QED
    BY <1>0, <2>2, <2>3 DEF ParserTypeOK
<1>18. CASE Member
  <2>0. stack # << >> /\ jpc = "member" /\ items \in [DOMAIN items -> ItemType]
    BY <1>0, <1>18 DEF Member, PlaceInv, ParserTypeOK
  <2>1. Top \in FrameType /\ brk \in Nat
    BY <1>0, <1>2, <2>0, TopType
  <2>2. stack' \in Seq(FrameType) /\ Len(stack') <= CJSON_NESTING_LIMIT
    <3>1. [Top EXCEPT !.head = brk, !.cur = brk] \in FrameType
          /\ [Top EXCEPT !.cur = brk] \in FrameType
      BY <2>1 DEF FrameType
    <3>. QED
      BY <1>17, <1>18, <2>0, <3>1 DEF Member
  <2>3. DOMAIN items' \subseteq 1 .. brk' - 1 /\ items' \in [DOMAIN items' -> ItemType]
    <3>1. CASE Top.head = NULL
      BY <1>3, <1>18, <2>0, <3>1 DEF Member
    <3>2. CASE Top.head # NULL
      <4>. DEFINE linked == [items EXCEPT ![Top.cur].next = brk]
      <4>1. Top.cur \in DOMAIN items
        BY <1>0, <2>0, <3>2, TopType DEF Nested, OpenList, Top
      <4>2. [items[Top.cur] EXCEPT !.next = brk] \in ItemType
        BY <2>0, <2>1, <4>1 DEF ItemType
      <4>3. DOMAIN linked = DOMAIN items /\ linked \in [DOMAIN linked -> ItemType]
        BY <2>0, <4>1, <4>2
      <4>4. items' = Put(linked, brk, [Blank EXCEPT !.prev = Top.cur]) /\ brk' = brk + 1
        BY <1>18, <3>2 DEF Member
      <4>. HIDE DEF linked
      <4>. QED
        BY <1>3, <2>0, <4>3, <4>4
    <3>. QED
      BY <3>1, <3>2
  <2>4. /\ DOMAIN strs \subseteq 1 .. brk' - 1 /\ brk' \in Nat \ {0}
        /\ UNCHANGED <<text, pos, strs, root, oom>> /\ item' \in Nat /\ jpc' \in {"value", "name"}
    BY <1>0, <1>2, <1>18, <2>1 DEF Member, ParserTypeOK
  <2>. QED
    BY <1>0, <2>0, <2>2, <2>3, <2>4 DEF ParserTypeOK
<1>19. CASE Close
  <2>0. stack # << >> /\ jpc # "idle" /\ Token.k # "end" /\ Top \in FrameType
    BY <1>0, <1>19, TopType DEF Close, Closing
  <2>. DEFINE linked == IF Top.head = NULL THEN items ELSE [items EXCEPT ![Top.head].prev = Top.cur]
  <2>1. DOMAIN linked = DOMAIN items /\ linked \in [DOMAIN items -> ItemType]
    <3>1. ASSUME Top.head # NULL PROVE [items[Top.head] EXCEPT !.prev = Top.cur] \in ItemType
      <4>1. Top.head \in DOMAIN items
        BY <1>0, <2>0, <3>1, TopType DEF Nested, OpenList, Top
      <4>2. items[Top.head] \in ItemType
        BY <1>0, <4>1 DEF ParserTypeOK
      <4>3. Top.cur \in Nat
        BY <2>0 DEF FrameType
      <4>. QED
        BY <4>2, <4>3 DEF ItemType
    <3>. QED
      BY <1>0, <3>1 DEF ParserTypeOK
  <2>2. items' = [linked EXCEPT ![Top.item] = [linked[Top.item] EXCEPT !.type = Top.kind,
                                                                    !.child = Top.head]]
    BY <1>19 DEF Close
  <2>. HIDE DEF linked
  <2>3. DOMAIN items' = DOMAIN items /\ items' \in [DOMAIN items' -> ItemType]
    <3>1. Top.item \in DOMAIN items
      BY <1>0, <2>0, TopType DEF Nested, OpenList, Top
    <3>2. [linked[Top.item] EXCEPT !.type = Top.kind, !.child = Top.head] \in ItemType
      <4>1. /\ linked[Top.item] \in ItemType /\ Top.kind \in Kinds /\ Top.head \in Nat
        BY <2>0, <2>1, <3>1 DEF FrameType, Kinds
      <4>. QED
        BY <4>1 DEF ItemType
    <3>. QED
      BY <2>1, <2>2, <3>2
  <2>4. Len(Outer) <= CJSON_NESTING_LIMIT /\ Outer \in Seq(FrameType)
    BY <1>a, <2>0
  <2>5. /\ pos' = pos + 1 /\ jpc' = "after" /\ stack' = Outer /\ item' = Top.item
        /\ UNCHANGED <<text, strs, brk, root, oom>>
    BY <1>19 DEF Close
  <2>. QED
    BY <1>0, <1>9, <2>0, <2>3, <2>4, <2>5 DEF ParserTypeOK, FrameType
<1>20. ASSUME NEW i, Delete(i)
       PROVE  /\ DOMAIN items' \subseteq DOMAIN items /\ items' \in [DOMAIN items' -> ItemType]
              /\ DOMAIN strs' \subseteq DOMAIN strs /\ strs' \in [DOMAIN strs' -> StringType]
  BY <1>0, <1>20 DEF Delete, ParserTypeOK
<1>21. CASE Unwind
  <2>1. Len(Outer) <= CJSON_NESTING_LIMIT /\ Outer \in Seq(FrameType)
    BY <1>a, <1>21 DEF Unwind
  <2>. QED
    BY <1>0, <1>20, <1>21, <2>1 DEF Unwind, ParserTypeOK
<1>22. CASE Refuse
  BY <1>0, <1>1, <1>20, <1>22 DEF Refuse, ParserTypeOK
<1>. QED
  BY <1>4, <1>6, <1>7, <1>8, <1>11, <1>12, <1>14, <1>15, <1>16, <1>18, <1>19, <1>21, <1>22
  DEF JsonNext

-------------------------------------------------------------------------------
(* The lists *)

\* A list lies in its heap, and goes on as its items do.
LEMMA ListIn ==
  ASSUME NEW h, IsHeap(h), NEW i \in DOMAIN h
  PROVE  /\ i \in List(h, i) /\ List(h, i) \subseteq DOMAIN h
         /\ \A k \in List(h, i) : h[k].next \in DOMAIN h => h[k].next \in List(h, i)
<1>. DEFINE leads == [j \in DOMAIN h |-> {h[j].next}]
<1>1. NULL \notin DOMAIN leads /\ i \in DOMAIN leads /\ DOMAIN leads = DOMAIN h
  BY DEF IsHeap
<1>2. List(h, i) = Reached(i, leads) /\ \A k \in DOMAIN h : leads[k] = {h[k].next}
  BY DEF List
<1>. HIDE DEF leads
<1>3. /\ i \in Reached(i, leads) /\ Reached(i, leads) \subseteq DOMAIN leads
      /\ \A k \in Reached(i, leads) : leads[k] \cap DOMAIN leads \subseteq Reached(i, leads)
  BY <1>1, ReachedClosed
<1>. QED
  BY <1>1, <1>2, <1>3

\* A list in the smaller of two heaps is one in the larger.
LEMMA ListGrows ==
  ASSUME NEW h, NEW g, IsHeap(h), IsHeap(g), NEW i \in DOMAIN h, DOMAIN h \subseteq DOMAIN g,
         \A k \in DOMAIN h : /\ h[k].next \in DOMAIN h \cup {NULL}
                             /\ h[k].next # NULL => g[k].next = h[k].next
  PROVE  List(h, i) \subseteq List(g, i)
<1>. DEFINE few == [j \in DOMAIN h |-> {h[j].next}]
            many == [j \in DOMAIN g |-> {g[j].next}]
<1>1. NULL \notin DOMAIN many /\ i \in DOMAIN few /\ DOMAIN few \subseteq DOMAIN many
  BY DEF IsHeap
<1>2. \A k \in DOMAIN few : few[k] \subseteq many[k] \cup {NULL} /\ few[k] \subseteq DOMAIN few \cup {NULL}
  OBVIOUS
<1>3. List(h, i) = Reached(i, few) /\ List(g, i) = Reached(i, many)
  BY DEF List
<1>. HIDE DEF few, many
<1>. QED
  BY <1>1, <1>2, <1>3, ReachedMore

\* A list stays what it is when the heap is cut down and nothing it leads to is lost.
LEMMA ListStays ==
  ASSUME NEW h, NEW g, IsHeap(h), NEW i \in DOMAIN g, DOMAIN g \subseteq DOMAIN h,
         \A k \in DOMAIN g : g[k] = h[k] /\ h[k].next \in DOMAIN g \cup {NULL}
  PROVE  List(h, i) \subseteq List(g, i)
<1>. DEFINE leads == [j \in DOMAIN h |-> {h[j].next}]
            rest == [j \in DOMAIN g |-> {g[j].next}]
<1>1. NULL \notin DOMAIN leads /\ i \in DOMAIN rest /\ DOMAIN rest \subseteq DOMAIN leads
  BY DEF IsHeap
<1>2. \A k \in DOMAIN rest : rest[k] = leads[k] /\ leads[k] \subseteq DOMAIN rest \cup {NULL}
  OBVIOUS
<1>3. List(h, i) = Reached(i, leads) /\ List(g, i) = Reached(i, rest)
  BY DEF List
<1>. HIDE DEF leads, rest
<1>. QED
  BY <1>1, <1>2, <1>3, ReachedRest

\* The first child leads to an item.
LEMMA LastIn ==
  ASSUME NEW h, NEW st, IsHeap(h), Linked(h, st), NEW i \in DOMAIN h, h[i].child # NULL
  PROVE  /\ h[i].child \in DOMAIN h /\ h[h[i].child].prev \in DOMAIN h
         /\ h[h[i].child].prev # NULL
<1>1. h[i].child \in DOMAIN h /\ h[h[i].child].prev \in List(h, h[i].child)
  BY DEF Linked
<1>. QED
  BY <1>1, ListIn DEF IsHeap

\* Only what an item leads to matters to the lists.
LEMMA SameLinks ==
  ASSUME NEW h, NEW g, NEW st, NEW r, IsHeap(h), DOMAIN g = DOMAIN h,
         \A k \in DOMAIN h : /\ g[k].next = h[k].next /\ g[k].prev = h[k].prev
                             /\ g[k].child = h[k].child,
         Nested(h, st), Linked(h, st), Rooted(h, r, st)
  PROVE  Nested(g, st) /\ Linked(g, st) /\ Rooted(g, r, st)
<1>1. \A i : List(g, i) = List(h, i)
  <2>1. [j \in DOMAIN g |-> {g[j].next}] = [j \in DOMAIN h |-> {h[j].next}]
    OBVIOUS
  <2>. QED
    BY <2>1 DEF List
<1>2. \A o : OpenList(h, o) => OpenList(g, o)
  BY <1>1 DEF OpenList
<1>3. Nested(g, st)
  BY <1>2 DEF Nested
<1>4. Linked(g, st)
  <2>1. SUFFICES ASSUME NEW i \in DOMAIN h
        PROVE  /\ h[i].next # NULL => g[h[i].next].prev = i
               /\ h[i].child # NULL =>
                    /\ g[h[i].child].prev \in List(h, h[i].child)
                    /\ g[g[h[i].child].prev].next = NULL
                    /\ \A f \in DOMAIN st : g[h[i].child].prev # st[f].cur
    BY <1>1 DEF Linked
  <2>2. ASSUME h[i].next # NULL PROVE g[h[i].next].prev = i
    BY <2>2 DEF Linked
  <2>3. ASSUME h[i].child # NULL
        PROVE  /\ g[h[i].child].prev \in List(h, h[i].child)
               /\ g[g[h[i].child].prev].next = NULL
               /\ \A f \in DOMAIN st : g[h[i].child].prev # st[f].cur
    <3>1. h[i].child \in DOMAIN h /\ h[h[i].child].prev \in DOMAIN h
      BY <2>3, LastIn
    <3>. QED
      BY <2>3, <3>1 DEF Linked
  <2>. QED
    BY <2>2, <2>3
<1>5. Rooted(g, r, st)
  BY DEF Rooted
<1>. QED
  BY <1>3, <1>4, <1>5

\* A call that goes on outside another one has items, and they lie before its.
LEMMA Around ==
  ASSUME NEW h, IsHeap(h), NEW n \in Nat \ {0}, NEW st \in [1 .. n -> FrameType], Nested(h, st),
         NEW f \in 1 .. n - 1
  PROVE  /\ f \in 1 .. n /\ f < n /\ n \in 1 .. n
         /\ OpenList(h, st[f]) /\ st[f].head # NULL /\ st[f].cur # NULL
         /\ st[f].item \in DOMAIN h /\ st[f].head \in DOMAIN h /\ st[f].cur \in DOMAIN h
         /\ st[f].item < st[f].head /\ st[f].head <= st[f].cur /\ st[f].cur <= st[n].item
         /\ st[f].item \in Nat /\ st[f].head \in Nat /\ st[f].cur \in Nat /\ st[n].item \in Nat
<1>1. f \in 1 .. n /\ f < n /\ n \in 1 .. n /\ DOMAIN st = 1 .. n
  OBVIOUS
<1>2. st[f] \in FrameType /\ st[n] \in FrameType
  BY <1>1
<1>3. OpenList(h, st[f]) /\ st[f].head # NULL /\ st[f].cur <= st[n].item
  BY <1>1 DEF Nested
<1>4. /\ st[f].item \in Nat /\ st[f].head \in Nat /\ st[f].cur \in Nat /\ st[n].item \in Nat
  BY <1>2 DEF FrameType
<1>. QED
  BY <1>1, <1>3, <1>4 DEF OpenList

\* The first item of a list.
LEMMA ListBegins ==
  ASSUME NEW h, IsHeap(h), NEW a \in Nat \ {0}, \A i \in DOMAIN h : i < a,
         NEW n \in Nat \ {0}, NEW st \in [1 .. n -> FrameType], NEW new, NEW r,
         DOMAIN new = 1 .. n, \A f \in 1 .. n - 1 : new[f] = st[f],
         st[n].head = NULL, new[n] = [st[n] EXCEPT !.head = a, !.cur = a],
         Nested(h, st), Linked(h, st), Rooted(h, r, st)
  PROVE  LET g == Put(h, a, Blank) IN Nested(g, new) /\ Linked(g, new) /\ Rooted(g, r, new)
<1>. DEFINE g == Put(h, a, Blank)
<1>1. /\ DOMAIN g = DOMAIN h \cup {a} /\ a \notin DOMAIN h
      /\ \A i \in DOMAIN h : g[i] = h[i]
      /\ g[a].next = NULL /\ g[a].prev = NULL /\ g[a].child = NULL
  <2>1. a \notin DOMAIN h
    <3>1. ~ (a < a)
      OBVIOUS
    <3>. QED
      BY <3>1
  <2>2. DOMAIN g = DOMAIN h \cup {a} /\ g[a] = Blank /\ \A i \in DOMAIN h : g[i] = h[i]
    BY <2>1 DEF Put
  <2>. HIDE DEF g
  <2>. QED
    BY <2>1, <2>2 DEF Blank
<1>2. IsHeap(g)
  <2>1. Blank \in ItemType /\ h \in [DOMAIN h -> ItemType]
    BY BlankType DEF IsHeap
  <2>2. \A i \in DOMAIN g : g[i] \in ItemType
    <3>1. g[a] \in ItemType
      BY <2>1 DEF Put
    <3>2. \A i \in DOMAIN h : g[i] \in ItemType
      BY <1>1, <2>1
    <3>. HIDE DEF g
    <3>. QED
      BY <1>1, <3>1, <3>2
  <2>3. g = [i \in DOMAIN g |-> g[i]]
    BY DEF Put
  <2>. HIDE DEF g
  <2>. QED
    BY <1>1, <2>2, <2>3 DEF IsHeap, NULL
<1>. HIDE DEF g
<1>3. \A i \in DOMAIN h : List(h, i) \subseteq List(g, i)
  BY <1>1, <1>2, ListGrows DEF Linked
<1>4. n \in 1 .. n /\ st[n] \in FrameType /\ \A f \in 1 .. n : f # n => f \in 1 .. n - 1 /\ f < n
  OBVIOUS
<1>5. /\ new[n].item = st[n].item /\ new[n].head = a /\ new[n].cur = a
      /\ st[n].item \in DOMAIN h /\ h[st[n].item].child = NULL /\ a # NULL
  <2>1. st[n].item \in DOMAIN h /\ h[st[n].item].child = NULL
    BY <1>4 DEF Nested, OpenList
  <2>2. new[n].item = st[n].item /\ new[n].head = a /\ new[n].cur = a
    BY <1>4 DEF FrameType
  <2>. QED
    BY <2>1, <2>2 DEF NULL
<1>6. Nested(g, new)
  <2>1. ASSUME NEW f \in 1 .. n - 1 PROVE OpenList(g, new[f])
    <3>1. OpenList(h, st[f]) /\ st[f].head \in DOMAIN h /\ st[f].head # NULL /\ new[f] = st[f]
      BY Around
    <3>2. \A i \in DOMAIN g : i < st[f].head => i \in DOMAIN h
      <4>1. ~ (a < st[f].head)
        BY <3>1 DEF IsHeap
      <4>. QED
        BY <1>1, <4>1
    <3>. QED
      BY <1>1, <1>3, <3>1, <3>2 DEF OpenList
  <2>2. OpenList(g, new[n])
    <3>1. a \in List(g, a)
      BY <1>1, <1>2, ListIn
    <3>2. st[n].item < a /\ a <= a
      BY <1>5
    <3>3. \A i \in DOMAIN h : h[i].next < a /\ h[i].prev < a /\ h[i].child < a
      BY DEF Linked, NULL
    <3>4. ~ (a < a)
      OBVIOUS
    <3>. QED
      BY <1>1, <1>5, <3>1, <3>2, <3>3, <3>4 DEF OpenList
  <2>3. ASSUME NEW f1 \in 1 .. n, NEW f2 \in 1 .. n, f1 < f2
        PROVE  new[f1].head # NULL /\ new[f1].cur <= new[f2].item
    <3>1. f1 \in 1 .. n - 1
      BY <2>3
    <3>2. st[f1].head # NULL /\ st[f1].cur <= st[f2].item
      BY <2>3 DEF Nested
    <3>3. new[f2].item = st[f2].item
      BY <1>4, <1>5
    <3>. QED
      BY <3>1, <3>2, <3>3
  <2>. QED
    BY <1>4, <2>1, <2>2, <2>3 DEF Nested
<1>7. Linked(g, new)
  <2>1. ASSUME NEW i \in DOMAIN h, h[i].child # NULL
        PROVE  /\ h[i].child \in DOMAIN h /\ h[h[i].child].prev \in DOMAIN h
               /\ i < h[i].child /\ h[h[i].child].prev \in List(g, h[i].child)
               /\ h[h[h[i].child].prev].next = NULL
               /\ \A f \in 1 .. n : h[h[i].child].prev # new[f].cur
    <3>1. h[i].child \in DOMAIN h /\ h[h[i].child].prev \in DOMAIN h
      BY <2>1, LastIn
    <3>2. /\ i < h[i].child /\ h[h[i].child].prev \in List(h, h[i].child)
          /\ h[h[h[i].child].prev].next = NULL
          /\ \A f \in 1 .. n : h[h[i].child].prev # st[f].cur
      BY <2>1 DEF Linked
    <3>. DEFINE l == h[h[i].child].prev
    <3>3. \A f \in 1 .. n : l # new[f].cur
      <4>1. l # a /\ \A f \in 1 .. n : l # st[f].cur
        BY <1>1, <3>1, <3>2
      <4>2. \A f \in 1 .. n : f # n => new[f].cur = st[f].cur
        BY <1>4
      <4>. HIDE DEF l
      <4>. QED
        BY <1>5, <4>1, <4>2
    <3>. QED
      BY <1>3, <3>1, <3>2, <3>3
  <2>2. ASSUME NEW i \in DOMAIN h
        PROVE  /\ {h[i].next, h[i].prev, h[i].child} \subseteq DOMAIN h \cup {NULL}
               /\ h[i].next # NULL => i < h[i].next /\ h[h[i].next].prev = i
    BY DEF Linked
  <2>. QED
    BY <1>1, <2>1, <2>2 DEF Linked
<1>8. Rooted(g, r, new)
  <2>1. ASSUME NEW j \in DOMAIN h
        PROVE  \/ j = r \/ \E f \in 1 .. n : j = new[f].head
               \/ \E i \in DOMAIN h : j = h[i].next \/ j = h[i].child
    <3>1. j # NULL
      BY DEF IsHeap
    <3>2. ASSUME NEW f \in 1 .. n, j = st[f].head PROVE f \in 1 .. n - 1
      BY <1>4, <3>1, <3>2
    <3>. QED
      BY <3>2 DEF Rooted
  <2>2. \A j \in DOMAIN g : j = a \/ j \in DOMAIN h
    BY <1>1
  <2>3. \A j \in DOMAIN h : (\E i \in DOMAIN h : j = h[i].next \/ j = h[i].child)
                            => \E i \in DOMAIN g : j = g[i].next \/ j = g[i].child
    BY <1>1
  <2>4. ASSUME NEW j \in DOMAIN g
        PROVE  \/ j = r \/ \E f \in 1 .. n : j = new[f].head
               \/ \E i \in DOMAIN g : j = g[i].next \/ j = g[i].child
    <3>1. CASE j = a
      BY <1>4, <1>5, <3>1
    <3>2. CASE j \in DOMAIN h
      BY <2>1, <2>3, <3>2
    <3>. QED
      BY <2>2, <3>1, <3>2
  <2>. QED
    BY <2>4 DEF Rooted
<1>. QED
  BY <1>6, <1>7, <1>8 DEF g

\* One more item at its end.
LEMMA ListGoesOn ==
  ASSUME NEW h, IsHeap(h), NEW a \in Nat \ {0}, \A i \in DOMAIN h : i < a,
         NEW n \in Nat \ {0}, NEW st \in [1 .. n -> FrameType], NEW new, NEW r,
         DOMAIN new = 1 .. n, \A f \in 1 .. n - 1 : new[f] = st[f],
         st[n].head # NULL, new[n] = [st[n] EXCEPT !.cur = a],
         Nested(h, st), Linked(h, st), Rooted(h, r, st)
  PROVE  LET g == Put([h EXCEPT ![st[n].cur].next = a], a, [Blank EXCEPT !.prev = st[n].cur])
         IN Nested(g, new) /\ Linked(g, new) /\ Rooted(g, r, new)
<1>. DEFINE c == st[n].cur
            o == [Blank EXCEPT !.prev = c]
            k == [h EXCEPT ![c].next = a]
            g == Put(k, a, o)
<1>1. a \notin DOMAIN h /\ ~ (a < a) /\ a # NULL
  <2>1. ~ (a < a)
    OBVIOUS
  <2>. QED
    BY <2>1 DEF NULL
<1>2. n \in 1 .. n /\ st[n] \in FrameType /\ \A f \in 1 .. n : f # n => f \in 1 .. n - 1 /\ f < n
  OBVIOUS
<1>3. /\ new[n].item = st[n].item /\ new[n].head = st[n].head /\ new[n].cur = a
      /\ st[n].item \in Nat /\ st[n].head \in Nat /\ c \in Nat
  BY <1>2 DEF FrameType
<1>4. OpenList(h, st[n]) /\ c \in DOMAIN h /\ st[n].head \in DOMAIN h /\ c # NULL
  BY <1>2 DEF Nested, OpenList
<1>5. /\ h[st[n].item].child = NULL /\ st[n].item \in DOMAIN h
      /\ st[n].item < st[n].head /\ st[n].head <= c
      /\ h[st[n].head].prev = NULL /\ h[c].next = NULL /\ c \in List(h, st[n].head)
  BY <1>4 DEF OpenList
<1>6. o \in ItemType /\ o.next = NULL /\ o.prev = c /\ o.child = NULL
  BY <1>3, BlankType DEF ItemType, Blank
<1>7. /\ DOMAIN k = DOMAIN h /\ \A i \in DOMAIN h : i # c => k[i] = h[i]
      /\ k[c] \in ItemType /\ k[c].next = a /\ k[c].prev = h[c].prev /\ k[c].child = h[c].child
  <2>1. h[c] \in ItemType /\ h \in [DOMAIN h -> ItemType] /\ a \in Nat
    BY <1>4 DEF IsHeap
  <2>2. [h[c] EXCEPT !.next = a] \in ItemType
    BY <2>1 DEF ItemType
  <2>3. k[c] = [h[c] EXCEPT !.next = a]
    BY <1>4, <2>1
  <2>. HIDE DEF k
  <2>4. /\ [h[c] EXCEPT !.next = a].next = a /\ [h[c] EXCEPT !.next = a].prev = h[c].prev
        /\ [h[c] EXCEPT !.next = a].child = h[c].child
    BY <2>1 DEF ItemType
  <2>5. DOMAIN k = DOMAIN h /\ \A i \in DOMAIN h : i # c => k[i] = h[i]
    BY <2>1 DEF k
  <2>. QED
    BY <2>2, <2>3, <2>4, <2>5
<1>. HIDE DEF o, k
<1>8. /\ DOMAIN g = DOMAIN h \cup {a} /\ g[a] = o /\ \A i \in DOMAIN h : g[i] = k[i]
      /\ g = [i \in DOMAIN g |-> g[i]]
  BY <1>1, <1>7 DEF Put
<1>. HIDE DEF g
<1>9. /\ g[a].next = NULL /\ g[a].prev = c /\ g[a].child = NULL /\ g[c].next = a
      /\ \A i \in DOMAIN h : /\ g[i].prev = h[i].prev /\ g[i].child = h[i].child
                             /\ i # c => g[i].next = h[i].next
  BY <1>4, <1>6, <1>7, <1>8
<1>10. IsHeap(g)
  <2>1. \A i \in DOMAIN g : g[i] \in ItemType
    BY <1>6, <1>7, <1>8 DEF IsHeap
  <2>. QED
    BY <1>1, <1>8, <2>1 DEF IsHeap
<1>11. \A i \in DOMAIN h : List(h, i) \subseteq List(g, i)
  BY <1>5, <1>8, <1>9, <1>10, ListGrows DEF Linked
<1>12. ASSUME NEW f \in 1 .. n - 1
       PROVE  /\ st[f].cur < c /\ st[f].item # st[n].item /\ st[f].head < c /\ st[f].cur # c
              /\ st[f].head \in DOMAIN h /\ st[f].cur \in DOMAIN h /\ st[f].item \in DOMAIN h
  <2>1. /\ st[f].item < st[f].head /\ st[f].head <= st[f].cur /\ st[f].cur <= st[n].item
        /\ st[f].item \in Nat /\ st[f].head \in Nat /\ st[f].cur \in Nat
        /\ st[f].head \in DOMAIN h /\ st[f].cur \in DOMAIN h /\ st[f].item \in DOMAIN h
    BY Around
  <2>. QED
    BY <1>3, <1>5, <2>1
<1>13. Nested(g, new)
  <2>1. ASSUME NEW f \in 1 .. n - 1 PROVE OpenList(g, new[f])
    <3>1. OpenList(h, st[f]) /\ st[f].head # NULL /\ new[f] = st[f]
      BY Around
    <3>2. \A i \in DOMAIN g : i < st[f].head => i \in DOMAIN h /\ i # c
      <4>1. st[f].head \in DOMAIN h /\ st[f].head \in Nat /\ st[f].head < c /\ st[f].head < a
        BY <1>12 DEF IsHeap
      <4>2. ~ (a < st[f].head) /\ ~ (c < st[f].head)
        BY <1>3, <4>1
      <4>. QED
        BY <1>8, <4>2
    <3>. QED
      BY <1>8, <1>9, <1>11, <1>12, <3>1, <3>2 DEF OpenList
  <2>2. OpenList(g, new[n])
    <3>1. a \in List(g, st[n].head)
      <4>1. c \in List(g, st[n].head) /\ st[n].head \in DOMAIN g
        BY <1>4, <1>5, <1>8, <1>11
      <4>. QED
        BY <1>8, <1>9, <1>10, <4>1, ListIn
    <3>2. st[n].head <= a
      <4>1. st[n].head < a
        BY <1>4
      <4>. QED
        BY <1>3, <4>1
    <3>3. \A i \in DOMAIN g : i < st[n].head => i \in DOMAIN h /\ i # c
      <4>1. st[n].head < a
        BY <1>4
      <4>2. ~ (a < st[n].head) /\ ~ (c < st[n].head)
        BY <1>3, <1>5, <4>1
      <4>. QED
        BY <1>8, <4>2
    <3>4. \A i \in DOMAIN h : i < st[n].head => /\ h[i].next < st[n].head /\ h[i].prev < st[n].head
                                                /\ h[i].child < st[n].head
      BY <1>4 DEF OpenList
    <3>. QED
      BY <1>1, <1>3, <1>4, <1>5, <1>8, <1>9, <3>1, <3>2, <3>3, <3>4 DEF OpenList
  <2>3. ASSUME NEW f1 \in 1 .. n, NEW f2 \in 1 .. n, f1 < f2
        PROVE  new[f1].head # NULL /\ new[f1].cur <= new[f2].item
    <3>1. f1 \in 1 .. n - 1
      BY <2>3
    <3>2. st[f1].head # NULL /\ st[f1].cur <= st[f2].item
      BY <2>3 DEF Nested
    <3>3. new[f2].item = st[f2].item
      BY <1>2, <1>3
    <3>. QED
      BY <3>1, <3>2, <3>3
  <2>. QED
    BY <1>2, <2>1, <2>2, <2>3 DEF Nested
<1>14. Linked(g, new)
  <2>1. ASSUME NEW i \in DOMAIN h, h[i].child # NULL
        PROVE  /\ h[i].child \in DOMAIN h /\ h[h[i].child].prev \in DOMAIN h
               /\ i < h[i].child /\ h[h[i].child].prev \in List(g, h[i].child)
               /\ h[h[h[i].child].prev].next = NULL /\ h[h[i].child].prev # c
               /\ \A f \in 1 .. n : h[h[i].child].prev # new[f].cur
    <3>1. h[i].child \in DOMAIN h /\ h[h[i].child].prev \in DOMAIN h
      BY <2>1, LastIn
    <3>2. /\ i < h[i].child /\ h[h[i].child].prev \in List(h, h[i].child)
          /\ h[h[h[i].child].prev].next = NULL
          /\ \A f \in 1 .. n : h[h[i].child].prev # st[f].cur
      BY <2>1 DEF Linked
    <3>3. \A f \in 1 .. n : h[h[i].child].prev # new[f].cur
      BY <1>1, <1>2, <1>3, <3>1, <3>2
    <3>. QED
      BY <1>2, <1>11, <3>1, <3>2, <3>3
  <2>2. ASSUME NEW i \in DOMAIN h
        PROVE  /\ {h[i].next, h[i].prev, h[i].child} \subseteq DOMAIN h \cup {NULL}
               /\ h[i].next # NULL => i < h[i].next /\ h[h[i].next].prev = i
    BY DEF Linked
  <2>3. ASSUME NEW i \in DOMAIN h
        PROVE  /\ {g[i].next, g[i].prev, g[i].child} \subseteq DOMAIN g \cup {NULL}
               /\ g[i].next # NULL => i < g[i].next /\ g[g[i].next].prev = i
    <3>1. CASE i = c
      BY <1>4, <1>8, <1>9, <2>2, <3>1
    <3>2. CASE i # c
      BY <1>8, <1>9, <2>2, <3>2
    <3>. QED
      BY <3>1, <3>2
  <2>4. ASSUME NEW i \in DOMAIN h, g[i].child # NULL
        PROVE  /\ i < g[i].child /\ g[g[i].child].prev \in List(g, g[i].child)
               /\ g[g[g[i].child].prev].next = NULL
               /\ \A f \in 1 .. n : g[g[i].child].prev # new[f].cur
    BY <1>9, <2>1, <2>4
  <2>5. ASSUME NEW i \in DOMAIN g
        PROVE  /\ g[i].next \in DOMAIN g \cup {NULL} /\ g[i].prev \in DOMAIN g \cup {NULL}
               /\ g[i].child \in DOMAIN g \cup {NULL}
               /\ g[i].next # NULL => i < g[i].next /\ g[g[i].next].prev = i
               /\ g[i].child # NULL => /\ i < g[i].child /\ g[g[i].child].prev \in List(g, g[i].child)
                                       /\ g[g[g[i].child].prev].next = NULL
                                       /\ \A f \in DOMAIN new : g[g[i].child].prev # new[f].cur
    <3>1. CASE i = a
      BY <1>4, <1>8, <1>9, <3>1
    <3>2. CASE i \in DOMAIN h
      BY <2>3, <2>4, <3>2
    <3>. QED
      BY <1>8, <3>1, <3>2
  <2>. QED
    BY <2>5 DEF Linked
<1>15. Rooted(g, r, new)
  <2>1. ASSUME NEW j \in DOMAIN h
        PROVE  \/ j = r \/ \E f \in 1 .. n : j = new[f].head
               \/ \E i \in DOMAIN g : j = g[i].next \/ j = g[i].child
    <3>1. j # NULL
      BY DEF IsHeap
    <3>2. \A f \in 1 .. n : new[f].head = st[f].head
      BY <1>2, <1>3
    <3>3. ASSUME NEW i \in DOMAIN h, j = h[i].next \/ j = h[i].child
          PROVE  i \in DOMAIN g /\ (j = g[i].next \/ j = g[i].child)
      BY <1>5, <1>8, <1>9, <3>1, <3>3
    <3>. QED
      BY <3>2, <3>3 DEF Rooted
  <2>2. a = g[c].next /\ c \in DOMAIN g
    BY <1>4, <1>8, <1>9
  <2>3. \A j \in DOMAIN g : \/ j = r \/ \E f \in 1 .. n : j = new[f].head
                            \/ \E i \in DOMAIN g : j = g[i].next \/ j = g[i].child
    BY <1>8, <2>1, <2>2
  <2>. QED
    BY <2>3 DEF Rooted
<1>. QED
  BY <1>13, <1>14, <1>15 DEF g, k, o

\* A call returns its list.
LEMMA ListEnds ==
  ASSUME NEW h, IsHeap(h),
         NEW n \in Nat \ {0}, NEW st \in [1 .. n -> FrameType], NEW new, NEW r, NEW g,
         DOMAIN new = 1 .. n - 1, \A f \in 1 .. n - 1 : new[f] = st[f],
         DOMAIN g = DOMAIN h, IsHeap(g),
         \A i \in DOMAIN h : /\ g[i].next = h[i].next
                             /\ g[i].prev = (IF i = st[n].head THEN st[n].cur ELSE h[i].prev)
                             /\ g[i].child = (IF i = st[n].item THEN st[n].head ELSE h[i].child),
         Nested(h, st), Linked(h, st), Rooted(h, r, st)
  PROVE  Nested(g, new) /\ Linked(g, new) /\ Rooted(g, r, new)
<1>. DEFINE head == st[n].head
            cur == st[n].cur
            it == st[n].item
<1>1. n \in 1 .. n /\ st[n] \in FrameType /\ \A f \in 1 .. n : f # n => f \in 1 .. n - 1
  OBVIOUS
<1>2. it \in Nat /\ head \in Nat /\ cur \in Nat
  BY <1>1 DEF FrameType
<1>3. /\ it \in DOMAIN h /\ h[it].child = NULL /\ NULL \notin DOMAIN h
      /\ head # NULL => /\ head \in DOMAIN h /\ cur \in DOMAIN h /\ it < head /\ head <= cur
                        /\ h[head].prev = NULL /\ h[cur].next = NULL /\ cur \in List(h, head)
  BY <1>1 DEF Nested, OpenList, IsHeap
<1>4. \A i : List(g, i) = List(h, i)
  <2>1. [j \in DOMAIN g |-> {g[j].next}] = [j \in DOMAIN h |-> {h[j].next}]
    OBVIOUS
  <2>. QED
    BY <2>1 DEF List
<1>5. ASSUME NEW f \in 1 .. n - 1
      PROVE  /\ OpenList(h, st[f]) /\ new[f] = st[f] /\ st[f].head # NULL
             /\ st[f].head \in DOMAIN h /\ st[f].cur \in DOMAIN h /\ st[f].item \in DOMAIN h
             /\ st[f].item < it /\ st[f].head <= it /\ st[f].cur <= it /\ st[f].head \in Nat
             /\ st[f].cur # NULL
  <2>1. /\ st[f].item < st[f].head /\ st[f].head <= st[f].cur /\ st[f].cur <= it
        /\ st[f].item \in Nat /\ st[f].head \in Nat /\ st[f].cur \in Nat
        /\ st[f].head \in DOMAIN h /\ st[f].cur \in DOMAIN h /\ st[f].item \in DOMAIN h
        /\ OpenList(h, st[f]) /\ st[f].head # NULL /\ st[f].cur # NULL
    BY Around
  <2>. QED
    BY <1>2, <2>1
<1>. HIDE DEF head, cur, it
<1>6. \A i \in DOMAIN h : /\ g[i].next = h[i].next
                          /\ g[i].prev = (IF i = head THEN cur ELSE h[i].prev)
                          /\ g[i].child = (IF i = it THEN head ELSE h[i].child)
  BY DEF head, cur, it
<1>7. Nested(g, new)
  <2>1. ASSUME NEW f \in 1 .. n - 1 PROVE OpenList(g, new[f])
    <3>1. st[f].head # head /\ st[f].item # it
      BY <1>2, <1>3, <1>5
    <3>2. ASSUME NEW i \in DOMAIN h, i < st[f].head PROVE i # it /\ i # head
      BY <1>2, <1>3, <1>5, <3>2
    <3>. QED
      BY <1>4, <1>5, <1>6, <3>1, <3>2 DEF OpenList
  <2>2. ASSUME NEW f1 \in 1 .. n - 1, NEW f2 \in 1 .. n - 1, f1 < f2
        PROVE  new[f1].head # NULL /\ new[f1].cur <= new[f2].item
    <3>1. f1 \in 1 .. n /\ f2 \in 1 .. n
      OBVIOUS
    <3>2. st[f1].head # NULL /\ st[f1].cur <= st[f2].item
      BY <2>2, <3>1 DEF Nested
    <3>. QED
      BY <3>2
  <2>. QED
    BY <2>1, <2>2 DEF Nested
<1>8. Linked(g, new)
  <2>1. ASSUME NEW i \in DOMAIN h, h[i].child # NULL
        PROVE  /\ h[i].child \in DOMAIN h /\ h[h[i].child].prev \in DOMAIN h
               /\ i < h[i].child /\ h[h[i].child].prev \in List(g, h[i].child)
               /\ h[h[h[i].child].prev].next = NULL /\ h[i].child # head /\ i # it
               /\ \A f \in 1 .. n - 1 : h[h[i].child].prev # new[f].cur
    <3>1. h[i].child \in DOMAIN h /\ h[h[i].child].prev \in DOMAIN h /\ h[h[i].child].prev # NULL
      BY <2>1, LastIn
    <3>2. /\ i < h[i].child /\ h[h[i].child].prev \in List(h, h[i].child)
          /\ h[h[h[i].child].prev].next = NULL
          /\ \A f \in 1 .. n : h[h[i].child].prev # st[f].cur
      BY <2>1 DEF Linked
    <3>3. \A f \in 1 .. n - 1 : f \in 1 .. n
      OBVIOUS
    <3>4. h[i].child # head /\ i # it
      BY <1>3, <2>1, <3>1
    <3>. QED
      BY <1>4, <3>1, <3>2, <3>3, <3>4
  <2>2. ASSUME NEW i \in DOMAIN h
        PROVE  /\ h[i].next \in DOMAIN h \cup {NULL} /\ h[i].prev \in DOMAIN h \cup {NULL}
               /\ h[i].child \in DOMAIN h \cup {NULL}
               /\ h[i].next # NULL => i < h[i].next /\ h[h[i].next].prev = i
    BY DEF Linked
  <2>3. ASSUME NEW i \in DOMAIN h
        PROVE  /\ g[i].next \in DOMAIN h \cup {NULL} /\ g[i].prev \in DOMAIN h \cup {NULL}
               /\ g[i].child \in DOMAIN h \cup {NULL}
               /\ g[i].next # NULL => i < g[i].next /\ g[g[i].next].prev = i
    <3>1. h[i].next # head \/ head = NULL
      BY <1>3, <2>2
    <3>2. head \in DOMAIN h \cup {NULL} /\ (head # NULL => cur \in DOMAIN h)
      BY <1>3
    <3>. QED
      BY <1>3, <1>6, <2>2, <3>1, <3>2
  <2>4. ASSUME NEW i \in DOMAIN h, g[i].child # NULL
        PROVE  /\ i < g[i].child /\ g[g[i].child].prev \in List(g, g[i].child)
               /\ g[g[g[i].child].prev].next = NULL
               /\ \A f \in 1 .. n - 1 : g[g[i].child].prev # new[f].cur
    <3>1. CASE i = it
      <4>1. g[i].child = head /\ head # NULL /\ head \in DOMAIN h /\ g[head].prev = cur
        BY <1>3, <1>6, <2>4, <3>1
      <4>2. \A f \in 1 .. n - 1 : cur # new[f].cur
        <5>1. ASSUME NEW f \in 1 .. n - 1 PROVE cur # new[f].cur
          <6>1. new[f].cur <= it /\ new[f].cur \in DOMAIN h
            BY <1>5
          <6>2. new[f].cur \in Nat
            BY <6>1 DEF IsHeap
          <6>. QED
            BY <1>2, <1>3, <4>1, <6>1, <6>2
        <5>. QED
          BY <5>1
      <4>. QED
        BY <1>3, <1>4, <1>6, <3>1, <4>1, <4>2
    <3>2. CASE i # it
      BY <1>6, <2>1, <2>4, <3>2
    <3>. QED
      BY <3>1, <3>2
  <2>. QED
    BY <2>3, <2>4 DEF Linked
<1>9. Rooted(g, r, new)
  <2>1. ASSUME NEW j \in DOMAIN h
        PROVE  \/ j = r \/ \E f \in 1 .. n - 1 : j = new[f].head
               \/ \E i \in DOMAIN g : j = g[i].next \/ j = g[i].child
    <3>1. j # NULL
      BY DEF IsHeap
    <3>2. CASE j = head
      BY <1>3, <1>6, <3>2
    <3>3. CASE j # head
      <4>1. ASSUME NEW f \in 1 .. n, j = st[f].head PROVE \E e \in 1 .. n - 1 : j = new[e].head
        BY <1>1, <3>3, <4>1 DEF head
      <4>2. ASSUME NEW i \in DOMAIN h, j = h[i].next \/ j = h[i].child
            PROVE  i \in DOMAIN g /\ (j = g[i].next \/ j = g[i].child)
        BY <1>3, <1>6, <3>1, <4>2
      <4>. QED
        BY <4>1, <4>2 DEF Rooted
    <3>. QED
      BY <3>2, <3>3
  <2>. QED
    BY <2>1 DEF Rooted
<1>. QED
  BY <1>7, <1>8, <1>9

\* What hangs on the head of the innermost list is all that is as new as it.
LEMMA BelowHead ==
  ASSUME NEW h, IsHeap(h), NEW n \in Nat \ {0}, NEW st \in [1 .. n -> FrameType],
         Nested(h, st), Linked(h, st), Rooted(h, 1, st), st[n].head # NULL
  PROVE  Below(h, st[n].head) = {j \in DOMAIN h : st[n].head <= j}
<1>. DEFINE i == st[n].head
            leads == [j \in DOMAIN h |-> {h[j].next, h[j].child}]
<1>1. n \in 1 .. n /\ st[n] \in FrameType /\ \A f \in 1 .. n : f # n => f \in 1 .. n - 1
  OBVIOUS
<1>2. /\ i \in DOMAIN h /\ st[n].item \in DOMAIN h /\ st[n].item < i /\ i # NULL
      /\ \A k \in DOMAIN h : k < i => h[k].next < i /\ h[k].child < i
  BY <1>1 DEF Nested, OpenList
<1>3. 1 < i /\ i \in Nat /\ st[n].item \in Nat
  BY <1>2 DEF IsHeap, NULL
<1>4. /\ i \in DOMAIN leads /\ DOMAIN leads \subseteq Nat \ {NULL} /\ DOMAIN leads = DOMAIN h
      /\ \A k \in DOMAIN h : leads[k] = {h[k].next, h[k].child}
  BY <1>2 DEF IsHeap
<1>5. Below(h, i) = Reached(i, leads)
  BY DEF Below
<1>. HIDE DEF leads
<1>6. \A k \in DOMAIN leads : \A j \in leads[k] : j # NULL => k < j /\ j \in DOMAIN leads
  BY <1>4 DEF Linked
<1>7. ASSUME NEW j \in DOMAIN leads, i < j
      PROVE  \E k \in DOMAIN leads : i <= k /\ j \in leads[k]
  <2>1. j # 1 /\ j \in Nat /\ j \in DOMAIN h /\ j # NULL
    BY <1>3, <1>4, <1>7
  <2>2. ASSUME NEW f \in 1 .. n PROVE j # st[f].head
    <3>1. CASE f = n
      BY <1>3, <1>7, <3>1
    <3>2. CASE f # n
      <4>1. /\ st[f].head <= st[f].cur /\ st[f].cur <= st[n].item
            /\ st[f].head \in Nat /\ st[f].cur \in Nat
        BY <1>1, <3>2, Around
      <4>. QED
        BY <1>2, <1>3, <1>7, <2>1, <4>1
    <3>. QED
      BY <3>1, <3>2
  <2>3. PICK k \in DOMAIN h : j = h[k].next \/ j = h[k].child
    BY <2>1, <2>2 DEF Rooted
  <2>4. i <= k
    <3>1. k \in Nat
      BY DEF IsHeap
    <3>2. ~ (j < i)
      BY <1>3, <1>7, <2>1
    <3>3. ~ (k < i)
      BY <1>2, <2>3, <3>2
    <3>. QED
      BY <1>3, <3>1, <3>3
  <2>. QED
    BY <1>4, <2>3, <2>4
<1>8. Reached(i, leads) = {j \in DOMAIN leads : i <= j}
  <2>. HIDE DEF i
  <2>. QED
    BY <1>4, <1>6, <1>7, ReachedAbove
<1>. QED
  BY <1>4, <1>5, <1>8

\* Without a list under construction, everything hangs on the root.
LEMMA BelowRoot ==
  ASSUME NEW h, IsHeap(h), NEW st, DOMAIN st = {}, 1 \in DOMAIN h,
         Linked(h, st), Rooted(h, 1, st)
  PROVE  Below(h, 1) = DOMAIN h
<1>. DEFINE leads == [j \in DOMAIN h |-> {h[j].next, h[j].child}]
<1>1. /\ 1 \in DOMAIN leads /\ DOMAIN leads \subseteq Nat \ {NULL} /\ DOMAIN leads = DOMAIN h
      /\ \A k \in DOMAIN h : leads[k] = {h[k].next, h[k].child}
  BY DEF IsHeap
<1>2. Below(h, 1) = Reached(1, leads)
  BY DEF Below
<1>. HIDE DEF leads
<1>3. \A k \in DOMAIN leads : \A j \in leads[k] : j # NULL => k < j /\ j \in DOMAIN leads
  BY <1>1 DEF Linked
<1>4. ASSUME NEW j \in DOMAIN leads, 1 < j
      PROVE  \E k \in DOMAIN leads : 1 <= k /\ j \in leads[k]
  <2>1. PICK k \in DOMAIN h : j = h[k].next \/ j = h[k].child
    BY <1>1, <1>4 DEF Rooted
  <2>2. 1 <= k
    BY DEF IsHeap, NULL
  <2>. QED
    BY <1>1, <2>1, <2>2
<1>5. Reached(1, leads) = {j \in DOMAIN leads : 1 <= j}
  BY <1>1, <1>3, <1>4, ReachedAbove
<1>6. \A j \in DOMAIN h : 1 <= j
  BY DEF IsHeap, NULL
<1>. QED
  BY <1>1, <1>2, <1>5, <1>6

\* Nothing hangs on no item.
LEMMA BelowNull ==
  ASSUME NEW h
  PROVE  Below(h, NULL) = {}
<1>. DEFINE leads == [j \in DOMAIN h |-> {h[j].next, h[j].child}]
<1>1. Reached(NULL, leads) \subseteq {}
  <2>1. {} \in SUBSET DOMAIN leads /\ NULL \in {} \cup {NULL} /\ \A k \in {} : leads[k] \subseteq {NULL}
    OBVIOUS
  <2>. HIDE DEF leads
  <2>. QED
    BY <2>1, ReachedLeast
<1>. QED
  BY <1>1 DEF Below

\* The innermost list is taken down when its call fails.
LEMMA ListDropped ==
  ASSUME NEW h, IsHeap(h), NEW n \in Nat \ {0}, NEW st \in [1 .. n -> FrameType], NEW new,
         DOMAIN new = 1 .. n - 1, \A f \in 1 .. n - 1 : new[f] = st[f], 1 \in DOMAIN h,
         Nested(h, st), Linked(h, st), Rooted(h, 1, st)
  PROVE  LET g == [j \in DOMAIN h \ Below(h, st[n].head) |-> h[j]]
         IN Nested(g, new) /\ Linked(g, new) /\ Rooted(g, 1, new) /\ 1 \in DOMAIN g
<1>. DEFINE head == st[n].head
            g == [j \in DOMAIN h \ Below(h, head) |-> h[j]]
<1>1. n \in 1 .. n /\ st[n] \in FrameType /\ \A f \in 1 .. n : f # n => f \in 1 .. n - 1
  OBVIOUS
<1>2. /\ DOMAIN g = {j \in DOMAIN h : head = NULL \/ j < head} /\ DOMAIN g \subseteq DOMAIN h
      /\ \A j \in DOMAIN g : g[j] = h[j]
  <2>1. CASE head = NULL
    BY <2>1, BelowNull
  <2>2. CASE head # NULL
    <3>1. Below(h, head) = {j \in DOMAIN h : head <= j}
      BY <2>2, BelowHead
    <3>2. head \in Nat
      BY <1>1 DEF FrameType
    <3>3. \A j \in DOMAIN h : ~ (head <= j) <=> j < head
      BY <3>2 DEF IsHeap
    <3>. QED
      BY <2>2, <3>1, <3>3
  <2>. QED
    BY <2>1, <2>2
<1>3. \A j \in DOMAIN g : /\ h[j].next \in DOMAIN g \cup {NULL} /\ h[j].prev \in DOMAIN g \cup {NULL}
                          /\ h[j].child \in DOMAIN g \cup {NULL}
  <2>1. \A j \in DOMAIN h : /\ h[j].next \in DOMAIN h \cup {NULL} /\ h[j].prev \in DOMAIN h \cup {NULL}
                            /\ h[j].child \in DOMAIN h \cup {NULL}
    BY DEF Linked
  <2>2. \A j \in DOMAIN h : j < head => h[j].next < head /\ h[j].prev < head /\ h[j].child < head
    BY <1>1 DEF Nested, OpenList
  <2>. HIDE DEF g, head
  <2>. QED
    BY <1>2, <2>1, <2>2
<1>4. head # NULL => st[n].item < head /\ 1 < head
  <2>1. ASSUME head # NULL PROVE st[n].item < head /\ st[n].item \in DOMAIN h
    BY <1>1, <2>1 DEF Nested, OpenList
  <2>2. head \in Nat
    BY <1>1 DEF FrameType
  <2>. QED
    BY <2>1, <2>2 DEF IsHeap, NULL
<1>5. ASSUME NEW f \in 1 .. n - 1
      PROVE  /\ OpenList(h, st[f]) /\ new[f] = st[f] /\ st[f].item \in DOMAIN g
             /\ st[f].head \in DOMAIN g /\ st[f].cur \in DOMAIN g
  <2>1. /\ st[f].item < st[f].head /\ st[f].head <= st[f].cur /\ st[f].cur <= st[n].item
        /\ st[f].item \in Nat /\ st[f].head \in Nat /\ st[f].cur \in Nat /\ st[n].item \in Nat
        /\ st[f].head \in DOMAIN h /\ st[f].cur \in DOMAIN h /\ st[f].item \in DOMAIN h
        /\ OpenList(h, st[f])
    BY Around
  <2>2. head \in Nat
    BY <1>1 DEF FrameType
  <2>3. head = NULL \/ (st[f].item < head /\ st[f].head < head /\ st[f].cur < head)
    <3>. HIDE DEF head
    <3>. QED
      BY <1>4, <2>1, <2>2
  <2>. HIDE DEF g, head
  <2>. QED
    BY <1>2, <2>1, <2>3
<1>6. head = NULL \/ head \notin DOMAIN g
  <2>1. head \in Nat
    BY <1>1 DEF FrameType
  <2>2. ~ (head < head)
    BY <2>1
  <2>. HIDE DEF g, head
  <2>. QED
    BY <1>2, <2>2
<1>. HIDE DEF g, head
<1>7. \A i \in DOMAIN g : List(h, i) \subseteq List(g, i)
  BY <1>2, <1>3, ListStays
<1>8. Nested(g, new)
  <2>1. ASSUME NEW f \in 1 .. n - 1 PROVE OpenList(g, new[f])
    BY <1>2, <1>5, <1>7 DEF OpenList
  <2>2. ASSUME NEW f1 \in 1 .. n - 1, NEW f2 \in 1 .. n - 1, f1 < f2
        PROVE  new[f1].head # NULL /\ new[f1].cur <= new[f2].item
    <3>1. f1 \in 1 .. n /\ f2 \in 1 .. n
      OBVIOUS
    <3>2. st[f1].head # NULL /\ st[f1].cur <= st[f2].item
      BY <2>2, <3>1 DEF Nested
    <3>. QED
      BY <3>2
  <2>. QED
    BY <2>1, <2>2 DEF Nested
<1>9. Linked(g, new)
  <2>1. ASSUME NEW i \in DOMAIN g, h[i].child # NULL
        PROVE  /\ i < h[i].child /\ g[h[i].child].prev \in List(g, h[i].child)
               /\ g[g[h[i].child].prev].next = NULL
               /\ \A f \in 1 .. n - 1 : g[h[i].child].prev # new[f].cur
    <3>1. i \in DOMAIN h /\ h[i].child \in DOMAIN g
      BY <1>2, <1>3, <2>1
    <3>2. g[h[i].child] = h[h[i].child] /\ h[h[i].child].prev \in DOMAIN g
      BY <1>2, <1>3, <2>1, <3>1, LastIn
    <3>3. /\ i < h[i].child /\ h[h[i].child].prev \in List(h, h[i].child)
          /\ h[h[h[i].child].prev].next = NULL
          /\ \A f \in 1 .. n : h[h[i].child].prev # st[f].cur
      BY <2>1, <3>1 DEF Linked
    <3>4. \A f \in 1 .. n - 1 : f \in 1 .. n
      OBVIOUS
    <3>. QED
      BY <1>2, <1>7, <3>1, <3>2, <3>3, <3>4
  <2>2. ASSUME NEW i \in DOMAIN g, h[i].next # NULL
        PROVE  i < h[i].next /\ g[h[i].next].prev = i
    <3>1. i \in DOMAIN h /\ h[i].next \in DOMAIN g
      BY <1>2, <1>3, <2>2
    <3>. QED
      BY <1>2, <2>2, <3>1 DEF Linked
  <2>3. \A i \in DOMAIN g : g[i] = h[i]
    BY <1>2
  <2>. QED
    BY <1>3, <2>1, <2>2, <2>3 DEF Linked
<1>10. Rooted(g, 1, new)
  <2>1. ASSUME NEW j \in DOMAIN g
        PROVE  \/ j = 1 \/ \E f \in 1 .. n - 1 : j = new[f].head
               \/ \E i \in DOMAIN g : j = g[i].next \/ j = g[i].child
    <3>1. j # NULL /\ j \in DOMAIN h /\ j \in Nat /\ j # head
      BY <1>2, <1>6 DEF IsHeap
    <3>2. ASSUME NEW f \in 1 .. n, j = st[f].head PROVE \E e \in 1 .. n - 1 : j = new[e].head
      BY <1>1, <3>1, <3>2 DEF head
    <3>3. ASSUME NEW i \in DOMAIN h, j = h[i].next \/ j = h[i].child
          PROVE  i \in DOMAIN g /\ (j = g[i].next \/ j = g[i].child)
      <4>1. i < j /\ i \in Nat
        BY <3>1, <3>3 DEF Linked, IsHeap
      <4>2. i \in DOMAIN g
        <5>1. head = NULL \/ j < head
          BY <1>2
        <5>2. head \in Nat
          BY <1>1 DEF FrameType, head
        <5>3. head = NULL \/ i < head
          BY <3>1, <4>1, <5>1, <5>2
        <5>. QED
          BY <1>2, <5>3
      <4>. QED
        BY <1>2, <3>3, <4>2
    <3>. QED
      BY <3>1, <3>2, <3>3 DEF Rooted
  <2>. QED
    BY <2>1 DEF Rooted
<1>. QED
  BY <1>2, <1>4, <1>8, <1>9, <1>10 DEF g, head

-------------------------------------------------------------------------------
(* The strings *)

\* A new item has none yet.
LEMMA OwnedMore ==
  ASSUME NEW h, NEW s, NEW g, NEW a, Owned(h, s), a \notin DOMAIN h, DOMAIN g = DOMAIN h \cup {a},
         g[a].valuestring = NULL, g[a].string = NULL,
         \A i \in DOMAIN h : g[i].valuestring = h[i].valuestring /\ g[i].string = h[i].string
  PROVE  Owned(g, s)
<1>1. \A i \in DOMAIN g : i = a \/ i \in DOMAIN h
  OBVIOUS
<1>2. ASSUME NEW i \in DOMAIN g
      PROVE  /\ g[i].valuestring # NULL => g[i].valuestring \in DOMAIN s
             /\ g[i].string # NULL => g[i].string \in DOMAIN s
             /\ g[i].valuestring # NULL => g[i].valuestring # g[i].string
  BY <1>1 DEF Owned
<1>3. ASSUME NEW i \in DOMAIN g, NEW j \in DOMAIN g, NEW x \in {g[i].valuestring, g[i].string},
             i # j, x # NULL
      PROVE  x # g[j].valuestring /\ x # g[j].string
  <2>1. i \in DOMAIN h /\ x \in {h[i].valuestring, h[i].string}
    BY <1>1, <1>3
  <2>. QED
    BY <1>1, <1>3, <2>1 DEF Owned
<1>4. \A x \in DOMAIN s : \E i \in DOMAIN g : x = g[i].valuestring \/ x = g[i].string
  BY DEF Owned
<1>. QED
  BY <1>2, <1>3, <1>4 DEF Owned

\* Items that keep their strings.
LEMMA OwnedStays ==
  ASSUME NEW h, NEW s, NEW g, Owned(h, s), DOMAIN g = DOMAIN h,
         \A i \in DOMAIN h : g[i].valuestring = h[i].valuestring /\ g[i].string = h[i].string
  PROVE  Owned(g, s)
BY DEF Owned

\* A new string is given to an item: heaps and strings before and after.
Gives(h, s, g, t, i, a) ==
  /\ i \in DOMAIN h /\ a \notin DOMAIN s /\ a # NULL
  /\ DOMAIN t = DOMAIN s \cup {a} /\ (\A x \in DOMAIN s : t[x] = s[x])
  /\ Len(t[a].b) + 1 <= t[a].size
  /\ DOMAIN g = DOMAIN h
  /\ \A j \in DOMAIN h : j # i => g[j].valuestring = h[j].valuestring /\ g[j].string = h[j].string
  /\ \/ h[i].valuestring = NULL /\ g[i].valuestring = a /\ g[i].string = h[i].string
     \/ h[i].string = NULL /\ g[i].string = a /\ g[i].valuestring = h[i].valuestring

\* It has one owner then, as all others do.
LEMMA OwnedBy ==
  ASSUME NEW h, NEW s, NEW g, NEW t, NEW i, NEW a, Owned(h, s), Gives(h, s, g, t, i, a)
  PROVE  Owned(g, t)
<1>. USE DEF Gives
<1>1. \A j \in DOMAIN h : h[j].valuestring # a /\ h[j].string # a
  BY DEF Owned
<1>2. ASSUME NEW j \in DOMAIN g
      PROVE  /\ g[j].valuestring # NULL => g[j].valuestring \in DOMAIN t
             /\ g[j].string # NULL => g[j].string \in DOMAIN t
             /\ g[j].valuestring # NULL => g[j].valuestring # g[j].string
  <2>1. CASE j = i
    BY <1>1, <2>1 DEF Owned
  <2>2. CASE j # i
    BY <2>2 DEF Owned
  <2>. QED
    BY <2>1, <2>2
<1>3. ASSUME NEW j \in DOMAIN g, NEW k \in DOMAIN g, NEW x \in {g[j].valuestring, g[j].string},
             j # k, x # NULL
      PROVE  x # g[k].valuestring /\ x # g[k].string
  <2>1. CASE j = i
    BY <1>1, <1>3, <2>1 DEF Owned
  <2>2. CASE k = i
    BY <1>1, <1>3, <2>2 DEF Owned
  <2>3. CASE j # i /\ k # i
    BY <1>3, <2>3 DEF Owned
  <2>. QED
    BY <2>1, <2>2, <2>3
<1>4. ASSUME NEW x \in DOMAIN t PROVE \E j \in DOMAIN g : x = g[j].valuestring \/ x = g[j].string
  <2>1. CASE x = a
    BY <2>1
  <2>2. CASE x \in DOMAIN s
    <3>1. PICK j \in DOMAIN h : x = h[j].valuestring \/ x = h[j].string
      BY <2>2 DEF Owned
    <3>2. x # NULL
      BY <2>2 DEF Owned
    <3>. QED
      BY <3>1, <3>2
  <2>. QED
    BY <2>1, <2>2
<1>5. \A x \in DOMAIN t : Len(t[x].b) + 1 <= t[x].size
  BY DEF Owned
<1>6. NULL \notin DOMAIN t
  BY DEF Owned
<1>. QED
  BY <1>2, <1>3, <1>4, <1>5, <1>6 DEF Owned

\* What is taken down goes with its strings, and nobody else loses one.
LEMMA OwnedRest ==
  ASSUME NEW h, NEW s, Owned(h, s), NEW dead \in SUBSET DOMAIN h, NEW theirs,
         \A a : a \in theirs <=> /\ a # NULL
                                 /\ \E i \in dead : a = h[i].valuestring \/ a = h[i].string
  PROVE  Owned([j \in DOMAIN h \ dead |-> h[j]], [a \in DOMAIN s \ theirs |-> s[a]])
<1>. DEFINE g == [j \in DOMAIN h \ dead |-> h[j]]
            t == [a \in DOMAIN s \ theirs |-> s[a]]
<1>1. /\ DOMAIN g = DOMAIN h \ dead /\ \A j \in DOMAIN g : g[j] = h[j]
      /\ DOMAIN t = DOMAIN s \ theirs /\ \A a \in DOMAIN t : t[a] = s[a]
  OBVIOUS
<1>. HIDE DEF g, t
<1>2. ASSUME NEW j \in DOMAIN g
      PROVE  /\ g[j].valuestring # NULL => g[j].valuestring \in DOMAIN t
             /\ g[j].string # NULL => g[j].string \in DOMAIN t
             /\ g[j].valuestring # NULL => g[j].valuestring # g[j].string
  <2>1. \A i \in dead : i \in DOMAIN h /\ i # j /\ j \in DOMAIN h
    BY <1>1
  <2>. QED
    BY <1>1, <2>1 DEF Owned
<1>3. \A i, j \in DOMAIN g : \A a \in {g[i].valuestring, g[i].string} :
        i # j /\ a # NULL => a # g[j].valuestring /\ a # g[j].string
  BY <1>1 DEF Owned
<1>4. ASSUME NEW a \in DOMAIN t PROVE \E j \in DOMAIN g : a = g[j].valuestring \/ a = g[j].string
  BY <1>1 DEF Owned
<1>5. \A a \in DOMAIN t : Len(t[a].b) + 1 <= t[a].size
  BY <1>1 DEF Owned
<1>6. NULL \notin DOMAIN t
  BY <1>1 DEF Owned
<1>7. Owned(g, t)
  BY <1>2, <1>3, <1>4, <1>5, <1>6 DEF Owned
<1>. QED
  BY <1>7 DEF g, t

-------------------------------------------------------------------------------
(* The steps of the parser *)

\* The heap as the lemmas about lists take it.
LEMMA HeapBasics ==
  ASSUME HeapInv
  PROVE  /\ IsHeap(items) /\ Len(stack) \in Nat /\ stack \in [1 .. Len(stack) -> FrameType]
         /\ brk \in Nat \ {0} /\ brk # NULL /\ brk \notin DOMAIN items /\ brk \notin DOMAIN strs
         /\ \A i \in DOMAIN items : i < brk
<1>1. /\ brk \in Nat \ {0} /\ DOMAIN items \subseteq 1 .. brk - 1 /\ DOMAIN strs \subseteq 1 .. brk - 1
      /\ items \in [DOMAIN items -> ItemType] /\ stack \in Seq(FrameType)
  BY DEF HeapInv, ParserTypeOK
<1>2. \A i \in 1 .. brk - 1 : i \in Nat \ {0} /\ i < brk /\ i # brk
  BY <1>1
<1>3. IsHeap(items) /\ brk \notin DOMAIN items /\ brk \notin DOMAIN strs
  BY <1>1, <1>2 DEF IsHeap, NULL
<1>4. Len(stack) \in Nat /\ stack \in [1 .. Len(stack) -> FrameType]
  BY <1>1, LenProperties
<1>. QED
  BY <1>1, <1>2, <1>3, <1>4 DEF NULL

\* Steps that allocate, free and link nothing.
LEMMA QuietSteps ==
  ASSUME HeapInv, ParserTypeOK',
         \/ NoRoot \/ StringFails \/ NoValue \/ First \/ NoMember \/ NoName \/ Colon
         \/ NoColon \/ More \/ NoClose \/ Accept
  PROVE  HeapInv'
<1>1. UNCHANGED <<items, strs, stack, root>> /\ Top' = Top
  BY DEF NoRoot, StringFails, NoValue, First, NoMember, NoName, Colon, NoColon, More, NoClose,
         Accept, Fails, Top
<1>2. /\ Nested(items, stack)' /\ Linked(items, stack)' /\ Rooted(items, root, stack)'
      /\ Owned(items, strs)'
  BY <1>1 DEF HeapInv
<1>3. PlaceInv
  BY DEF HeapInv
<1>. SUFFICES PlaceInv'
  BY <1>2 DEF HeapInv
<1>4. CASE NoRoot
  BY <1>1, <1>3, <1>4 DEF NoRoot, PlaceInv, Underway
<1>5. CASE StringFails \/ NoValue \/ NoMember \/ NoName \/ NoColon \/ NoClose
  <2>1. jpc' = "fail" /\ Underway
    BY <1>5 DEF StringFails, NoValue, NoMember, NoName, NoColon, NoClose, Fails, Underway
  <2>. QED
    BY <1>1, <1>3, <2>1 DEF PlaceInv, Underway
<1>6. CASE First \/ More
  <2>1. jpc' = "member" /\ Underway /\ stack # << >>
    BY <1>3, <1>6 DEF First, More, Underway, PlaceInv
  <2>. QED
    BY <1>1, <1>3, <2>1 DEF PlaceInv, Underway
<1>7. CASE Colon
  BY <1>1, <1>3, <1>7 DEF Colon, PlaceInv, Underway
<1>8. CASE Accept
  BY <1>1, <1>3, <1>8 DEF Accept, PlaceInv, Underway, NULL
<1>. QED
  BY <1>4, <1>5, <1>6, <1>7, <1>8

\* Steps that fill in an item.
LEMMA FillingSteps ==
  ASSUME HeapInv, ParserTypeOK', Literal \/ Number \/ StringValue \/ Name
  PROVE  HeapInv'
<1>1. /\ PlaceInv /\ ParserTypeOK /\ IsHeap(items) /\ brk # NULL /\ brk \notin DOMAIN strs
      /\ Nested(items, stack) /\ Linked(items, stack) /\ Rooted(items, root, stack)
      /\ Owned(items, strs)
  BY HeapBasics DEF HeapInv
<1>2. /\ item \in DOMAIN items /\ items[item] \in ItemType /\ items[item].valuestring = NULL
      /\ jpc \in {"value", "name"} /\ Underway /\ (jpc = "name" => items[item].string = NULL)
      /\ (jpc = "name" => Top.kind = "{" /\ stack # << >>)
  BY <1>1 DEF Literal, Number, StringValue, Name, PlaceInv, Underway, IsHeap
<1>3. /\ UNCHANGED <<stack, root, item>> /\ Top' = Top
      /\ jpc' = IF jpc = "name" THEN "colon" ELSE "after"
  BY DEF Literal, Number, StringValue, Name, Fill, Top
<1>4. /\ DOMAIN items' = DOMAIN items /\ \A j \in DOMAIN items : j # item => items'[j] = items[j]
      /\ items'[item].next = items[item].next /\ items'[item].prev = items[item].prev
      /\ items'[item].child = items[item].child
      /\ items'[item].string = (IF jpc = "name" THEN brk ELSE items[item].string)
      /\ items'[item].valuestring = (IF StringValue THEN brk ELSE items[item].valuestring)
  <2>1. ASSUME NEW x, items' = [items EXCEPT ![item] = x]
        PROVE  /\ DOMAIN items' = DOMAIN items /\ items'[item] = x
               /\ \A j \in DOMAIN items : j # item => items'[j] = items[j]
    BY <1>2, <2>1
  <2>2. CASE Literal
    BY <1>2, <2>1, <2>2 DEF Literal, StringValue, Fill, ItemType, String
  <2>3. CASE Number
    BY <1>2, <2>1, <2>3 DEF Number, StringValue, Fill, ItemType, String
  <2>4. CASE StringValue
    BY <1>2, <2>1, <2>4 DEF StringValue, Fill, ItemType
  <2>5. CASE Name
    BY <1>2, <2>1, <2>5 DEF Name, StringValue, ItemType
  <2>. QED
    BY <2>2, <2>3, <2>4, <2>5
<1>5. Nested(items', stack) /\ Linked(items', stack) /\ Rooted(items', root, stack)
  <2>1. \A k \in DOMAIN items : /\ items'[k].next = items[k].next /\ items'[k].prev = items[k].prev
                                /\ items'[k].child = items[k].child
    BY <1>4
  <2>. QED
    BY <1>1, <1>4, <2>1, SameLinks
<1>6. Owned(items', strs')
  <2>1. CASE Literal \/ Number
    <3>1. strs' = strs /\ jpc = "value" /\ ~ StringValue
      BY <2>1 DEF Literal, Number, StringValue, String
    <3>2. \A i \in DOMAIN items : /\ items'[i].valuestring = items[i].valuestring
                                  /\ items'[i].string = items[i].string
      BY <1>4, <3>1
    <3>3. Owned(items', strs)
      BY <1>1, <1>4, <3>2, OwnedStays
    <3>. QED
      BY <3>1, <3>3
  <2>2. CASE StringValue \/ Name
    <3>. DEFINE o == [s |-> Token.s, b |-> Unescaped(Token.u), size |-> Allocated(Token.u)]
    <3>1. strs' = Put(strs, brk, o) /\ Token.k = "str" /\ jpc # "idle"
      BY <2>2 DEF StringValue, Name, String
    <3>2. Token.u \in Seq(Int)
      BY <1>1, <3>1, TextGoesOn DEF TokenType
    <3>3. Len(o.b) + 1 <= o.size
      BY <3>2, UnescapedFits
    <3>. HIDE DEF o
    <3>4. /\ DOMAIN strs' = DOMAIN strs \cup {brk} /\ strs'[brk] = o
          /\ \A x \in DOMAIN strs : strs'[x] = strs[x]
      BY <1>1, <3>1 DEF Put
    <3>5. \/ /\ items[item].valuestring = NULL /\ items'[item].valuestring = brk
             /\ items'[item].string = items[item].string
          \/ /\ items[item].string = NULL /\ items'[item].string = brk
             /\ items'[item].valuestring = items[item].valuestring
      <4>1. CASE StringValue
        BY <1>2, <1>4, <4>1 DEF StringValue
      <4>2. CASE Name
        <5>1. ~ StringValue /\ jpc = "name"
          BY <4>2 DEF Name, StringValue
        <5>. QED
          BY <1>2, <1>4, <5>1
      <4>. QED
        BY <2>2, <4>1, <4>2
    <3>6. \A j \in DOMAIN items : j # item => /\ items'[j].valuestring = items[j].valuestring
                                              /\ items'[j].string = items[j].string
      BY <1>4
    <3>7. Len(strs'[brk].b) + 1 <= strs'[brk].size /\ item \in DOMAIN items
      BY <1>2, <3>3, <3>4
    <3>8. /\ Owned(items, strs) /\ brk \notin DOMAIN strs /\ brk # NULL
          /\ DOMAIN items' = DOMAIN items
      BY <1>1, <1>4
    <3>9. Gives(items, strs, items', strs', item, brk)
      BY ONLY <3>4, <3>5, <3>6, <3>7, <3>8 DEF Gives
    <3>. QED
      BY <3>8, <3>9, OwnedBy
  <2>. QED
    BY <2>1, <2>2
<1>7. PlaceInv'
  <2>1. jpc = "name" => /\ item' = (IF stack' = << >> THEN root' ELSE Top'.cur)
                        /\ item' \in DOMAIN items' /\ items'[item'].valuestring = NULL
                        /\ items'[item'].child = NULL
    <3>1. jpc = "name" => ~ StringValue
      BY DEF StringValue
    <3>. QED
      BY <1>1, <1>2, <1>3, <1>4, <3>1 DEF PlaceInv
  <2>2. root = 1 /\ root \in DOMAIN items
    BY <1>1, <1>2 DEF PlaceInv
  <2>. QED
    BY <1>1, <1>2, <1>3, <1>4, <2>1, <2>2 DEF PlaceInv, Underway
<1>. QED
  BY <1>3, <1>5, <1>6, <1>7 DEF HeapInv

\* What Delete does to the strings.
LEMMA OwnedWithout ==
  ASSUME Owned(items, strs), NEW dead \in SUBSET DOMAIN items
  PROVE  Owned([j \in DOMAIN items \ dead |-> items[j]],
               [a \in DOMAIN strs \ StringsOf(dead) |-> strs[a]])
<1>1. \A a : a \in StringsOf(dead) <=>
               /\ a # NULL
               /\ \E i \in dead : a = items[i].valuestring \/ a = items[i].string
  BY DEF StringsOf
<1>. QED
  BY <1>1, OwnedRest

\* A call begins.
LEMMA OpenStep ==
  ASSUME HeapInv, ParserTypeOK', Open
  PROVE  HeapInv'
<1>. DEFINE N == Len(stack)
            o == [item |-> item, kind |-> Token.k, head |-> NULL, cur |-> NULL]
<1>1. /\ PlaceInv /\ ParserTypeOK /\ IsHeap(items) /\ N \in Nat /\ stack \in Seq(FrameType)
      /\ stack \in [1 .. N -> FrameType] /\ DOMAIN stack = 1 .. N
      /\ Nested(items, stack) /\ Linked(items, stack) /\ Rooted(items, root, stack)
      /\ Owned(items, strs)
  BY HeapBasics DEF HeapInv, ParserTypeOK
<1>2. /\ item \in DOMAIN items /\ items[item].child = NULL /\ item # NULL
      /\ stack # << >> => item = Top.cur
      /\ root = 1 /\ root \in DOMAIN items
  BY <1>1 DEF Open, PlaceInv, Underway, IsHeap
<1>3. /\ stack' = Append(stack, o) /\ UNCHANGED <<items, strs, root>> /\ jpc' = "first"
  BY DEF Open
<1>4. /\ stack' \in Seq(FrameType) /\ stack \in Seq(FrameType)
  BY <1>1 DEF ParserTypeOK
<1>5. o.item = item /\ o.head = NULL /\ o.cur = NULL
  OBVIOUS
<1>. HIDE DEF o
<1>6. /\ DOMAIN stack' = 1 .. N + 1 /\ Len(stack') = N + 1 /\ stack'[N + 1] = o
      /\ \A f \in 1 .. N : stack'[f] = stack[f]
  BY <1>1, <1>3, AppendProperties
<1>7. N + 1 \in 1 .. N + 1 /\ \A f \in 1 .. N + 1 : f \in 1 .. N \/ f = N + 1
  BY <1>1
<1>. HIDE DEF N
<1>8. Nested(items, stack')
  <2>1. OpenList(items, o)
    <3>1. \A i \in DOMAIN items : ~ (i < NULL)
      BY <1>1 DEF IsHeap, NULL
    <3>. QED
      BY <1>2, <1>5, <3>1 DEF OpenList
  <2>2. ASSUME NEW f \in 1 .. N PROVE stack[f].head # NULL /\ stack[f].cur <= item
    <3>1. N \in 1 .. N /\ N # 0
      BY <1>1
    <3>2. item = stack[N].cur
      <4>1. stack # << >>
        BY <1>1, <3>1
      <4>. QED
        BY <1>2, <4>1 DEF Top, N
    <3>3. OpenList(items, stack[N]) /\ stack[N] \in FrameType
      BY <1>1, <3>1 DEF Nested
    <3>4. /\ stack[N].head # NULL /\ stack[N].item < stack[N].head /\ stack[N].head <= item
          /\ stack[N].item \in Nat /\ stack[N].head \in Nat /\ item \in Nat
      BY <1>2, <3>2, <3>3 DEF OpenList, FrameType
    <3>5. CASE f = N
      BY <3>2, <3>4, <3>5
    <3>6. CASE f # N
      <4>1. f < N /\ f \in 1 .. N - 1 /\ N \in Nat \ {0}
        BY <1>1, <3>1, <3>6
      <4>2. /\ stack[f].head # NULL /\ stack[f].cur <= stack[N].item /\ stack[f].cur \in Nat
        BY <1>1, <4>1, Around
      <4>. QED
        BY <3>4, <4>2
    <3>. QED
      BY <3>5, <3>6
  <2>3. ASSUME NEW f \in 1 .. N + 1, NEW g \in 1 .. N + 1, f < g
        PROVE  stack'[f].head # NULL /\ stack'[f].cur <= stack'[g].item
    <3>1. f \in 1 .. N
      BY <1>1, <2>3
    <3>2. CASE g = N + 1
      BY <1>5, <1>6, <2>2, <3>1, <3>2
    <3>3. CASE g \in 1 .. N
      BY <1>1, <1>6, <2>3, <3>1, <3>3 DEF Nested
    <3>. QED
      BY <1>7, <3>2, <3>3
  <2>. QED
    BY <1>1, <1>6, <1>7, <2>1, <2>3 DEF Nested
<1>9. Linked(items, stack')
  <2>1. ASSUME NEW i \in DOMAIN items, items[i].child # NULL, NEW f \in 1 .. N + 1
        PROVE  items[items[i].child].prev # stack'[f].cur
    <3>1. items[items[i].child].prev # NULL
      BY <1>1, <2>1, LastIn
    <3>. QED
      BY <1>1, <1>5, <1>6, <1>7, <2>1, <3>1 DEF Linked
  <2>. QED
    BY <1>1, <1>6, <2>1 DEF Linked
<1>10. Rooted(items, root, stack')
  <2>1. \A f \in DOMAIN stack : f \in DOMAIN stack' /\ stack'[f] = stack[f]
    BY <1>1, <1>6, <1>7
  <2>. QED
    BY <1>1, <2>1 DEF Rooted
<1>11. PlaceInv'
  <2>1. Top'.head = NULL /\ stack' # << >>
    <3>1. Top' = o
      BY <1>6 DEF Top
    <3>2. stack' # << >>
      BY <1>6, <1>7
    <3>. QED
      BY <1>5, <3>1, <3>2
  <2>. QED
    BY <1>1, <1>2, <1>3, <2>1 DEF PlaceInv, Underway
<1>. QED
  BY <1>1, <1>3, <1>8, <1>9, <1>10, <1>11 DEF HeapInv

\* The root is made.
LEMMA RootStep ==
  ASSUME HeapInv, ParserTypeOK', NewRoot
  PROVE  HeapInv'
<1>1. /\ PlaceInv /\ ParserTypeOK /\ Owned(items, strs) /\ brk # NULL /\ brk \notin DOMAIN items
  BY HeapBasics DEF HeapInv
<1>2. stack = << >> /\ brk = 1 /\ DOMAIN items = {}
  BY <1>1 DEF NewRoot, PlaceInv, Underway
<1>3. /\ items' = Put(items, 1, Blank) /\ root' = 1 /\ item' = 1 /\ jpc' = "value"
      /\ UNCHANGED <<strs, stack>>
  BY <1>2 DEF NewRoot
<1>4. DOMAIN items' = {1} /\ items'[1] = Blank
  BY <1>2, <1>3 DEF Put
<1>5. /\ items'[1].next = NULL /\ items'[1].prev = NULL /\ items'[1].child = NULL
      /\ items'[1].valuestring = NULL /\ items'[1].string = NULL
  BY <1>4 DEF Blank
<1>6. DOMAIN stack' = {}
  BY <1>2, <1>3
<1>7. Nested(items', stack') /\ Linked(items', stack') /\ Rooted(items', root', stack')
  BY <1>3, <1>4, <1>5, <1>6 DEF Nested, Linked, Rooted
<1>8. Owned(items', strs')
  <2>1. 1 \notin DOMAIN items /\ DOMAIN items' = DOMAIN items \cup {1}
    BY <1>2, <1>4
  <2>2. \A i \in DOMAIN items : /\ items'[i].valuestring = items[i].valuestring
                                /\ items'[i].string = items[i].string
    BY <1>2
  <2>3. Owned(items', strs)
    BY <1>1, <1>5, <2>1, <2>2, OwnedMore
  <2>. QED
    BY <1>3, <2>3
<1>9. PlaceInv'
  BY <1>2, <1>3, <1>4, <1>5 DEF PlaceInv, Underway
<1>. QED
  BY <1>7, <1>8, <1>9 DEF HeapInv

\* The innermost call goes on.
LEMMA TopChanges ==
  ASSUME ParserTypeOK, stack # << >>, NEW o \in FrameType
  PROVE  LET new == Append(Outer, o)
         IN /\ DOMAIN new = 1 .. Len(stack) /\ new[Len(stack)] = o /\ Len(new) = Len(stack)
            /\ new # << >> /\ \A f \in 1 .. Len(stack) - 1 : new[f] = stack[f]
<1>. DEFINE N == Len(stack)
            new == Append(Outer, o)
<1>1. /\ N \in 1 .. N /\ N \in Nat /\ Outer \in Seq(FrameType) /\ Len(Outer) = N - 1
      /\ \A f \in 1 .. N - 1 : Outer[f] = stack[f]
  BY TopType
<1>2. (N - 1) + 1 = N
  BY <1>1
<1>. HIDE DEF N
<1>3. /\ DOMAIN new = 1 .. N /\ new[N] = o /\ Len(new) = N
      /\ \A f \in 1 .. N - 1 : new[f] = stack[f]
  BY <1>1, <1>2, AppendProperties
<1>. QED
  BY <1>1, <1>3 DEF N

\* An item is added.
LEMMA MemberStep ==
  ASSUME HeapInv, ParserTypeOK', Member
  PROVE  HeapInv'
<1>. DEFINE N == Len(stack)
<1>1. /\ PlaceInv /\ ParserTypeOK /\ IsHeap(items) /\ N \in Nat /\ stack \in [1 .. N -> FrameType]
      /\ Nested(items, stack) /\ Linked(items, stack) /\ Rooted(items, root, stack)
      /\ Owned(items, strs) /\ brk \in Nat \ {0} /\ brk # NULL /\ brk \notin DOMAIN items
      /\ \A i \in DOMAIN items : i < brk
  BY HeapBasics DEF HeapInv
<1>2. stack # << >> /\ root = 1 /\ root \in DOMAIN items /\ Underway
  BY <1>1 DEF Member, PlaceInv, Underway
<1>3. Top = stack[N] /\ Top \in FrameType /\ N \in Nat \ {0}
  <2>1. N \in 1 .. N /\ Top \in FrameType
    BY <1>1, <1>2, TopType
  <2>. QED
    BY <1>1, <2>1 DEF Top
<1>k. Top.kind \in {"[", "{"}
  BY <1>1, <1>2, TopType
<1>4. /\ UNCHANGED <<strs, root>> /\ item' = brk
      /\ jpc' = (IF Top.kind = "[" THEN "value" ELSE "name")
  BY DEF Member
<1>. HIDE DEF N
<1>5. CASE Top.head = NULL
  <2>. DEFINE o == [Top EXCEPT !.head = brk, !.cur = brk]
  <2>1. o \in FrameType /\ o.cur = brk /\ o.kind = Top.kind
    BY <1>1, <1>3 DEF FrameType
  <2>2. items' = Put(items, brk, Blank) /\ stack' = Append(Outer, o)
    BY <1>5 DEF Member
  <2>3. o = [stack[N] EXCEPT !.head = brk, !.cur = brk] /\ stack[N].head = NULL
    BY <1>3, <1>5
  <2>. HIDE DEF o
  <2>4. /\ DOMAIN stack' = 1 .. N /\ stack'[N] = o /\ Len(stack') = N /\ stack' # << >>
        /\ \A f \in 1 .. N - 1 : stack'[f] = stack[f]
    <3>1. ParserTypeOK /\ stack # << >> /\ o \in FrameType
      BY <1>1, <1>2, <2>1
    <3>. QED
      BY ONLY <2>2, <3>1, TopChanges DEF N
  <2>5. /\ Nested(Put(items, brk, Blank), stack') /\ Linked(Put(items, brk, Blank), stack')
        /\ Rooted(Put(items, brk, Blank), root, stack')
    BY <1>1, <1>3, <2>3, <2>4, ListBegins
  <2>6. /\ DOMAIN items' = DOMAIN items \cup {brk} /\ items'[brk] = Blank
        /\ \A i \in DOMAIN items : items'[i] = items[i]
    BY <1>1, <2>2 DEF Put
  <2>7. items'[brk].valuestring = NULL /\ items'[brk].string = NULL /\ items'[brk].child = NULL
    BY <2>6 DEF Blank
  <2>8. Owned(items', strs')
    <3>1. Owned(items', strs)
      BY <1>1, <2>6, <2>7, OwnedMore
    <3>. QED
      BY <1>4, <3>1
  <2>9. PlaceInv'
    <3>1. Top' = o
      BY <2>4 DEF Top
    <3>2. root' = 1 /\ root' \in DOMAIN items' /\ item' = Top'.cur /\ item' \in DOMAIN items'
      BY <1>2, <1>4, <2>1, <2>6, <3>1
    <3>3. Top'.kind = Top.kind
      BY <2>1, <3>1
    <3>. QED
      BY <1>k, <1>4, <2>4, <2>7, <3>2, <3>3 DEF PlaceInv, Underway
  <2>. QED
    BY <1>4, <2>2, <2>5, <2>8, <2>9 DEF HeapInv
<1>6. CASE Top.head # NULL
  <2>. DEFINE o == [Top EXCEPT !.cur = brk]
              b == [Blank EXCEPT !.prev = Top.cur]
              k == [items EXCEPT ![Top.cur].next = brk]
  <2>1. o \in FrameType /\ o.cur = brk /\ o.kind = Top.kind
    BY <1>1, <1>3 DEF FrameType
  <2>2. items' = Put(k, brk, b) /\ stack' = Append(Outer, o)
    BY <1>6 DEF Member
  <2>3. o = [stack[N] EXCEPT !.cur = brk] /\ stack[N].head # NULL
    BY <1>3, <1>6
  <2>4. b.valuestring = NULL /\ b.string = NULL /\ b.child = NULL
    BY DEF Blank
  <2>5. /\ Nested(Put(k, brk, b), Append(Outer, o)) /\ Linked(Put(k, brk, b), Append(Outer, o))
        /\ Rooted(Put(k, brk, b), root, Append(Outer, o))
    <3>. DEFINE new == Append(Outer, o)
    <3>1. /\ DOMAIN new = 1 .. N /\ new[N] = o /\ \A f \in 1 .. N - 1 : new[f] = stack[f]
      <4>. HIDE DEF o
      <4>. QED
        <5>1. ParserTypeOK /\ stack # << >> /\ o \in FrameType
          BY <1>1, <1>2, <2>1
        <5>. QED
          BY ONLY <5>1, TopChanges DEF N
    <3>. HIDE DEF new, o
    <3>2. /\ Nested(Put([items EXCEPT ![stack[N].cur].next = brk], brk,
                        [Blank EXCEPT !.prev = stack[N].cur]), new)
          /\ Linked(Put([items EXCEPT ![stack[N].cur].next = brk], brk,
                        [Blank EXCEPT !.prev = stack[N].cur]), new)
          /\ Rooted(Put([items EXCEPT ![stack[N].cur].next = brk], brk,
                        [Blank EXCEPT !.prev = stack[N].cur]), root, new)
      BY <1>1, <1>3, <2>3, <3>1, ListGoesOn
    <3>. QED
      BY <1>3, <3>2 DEF new
  <2>6. Top.cur \in DOMAIN items /\ items \in [DOMAIN items -> ItemType]
    <3>1. N \in DOMAIN stack /\ OpenList(items, Top)
      <4>1. N \in 1 .. N
        BY <1>3
      <4>2. N \in DOMAIN stack
        BY <1>1, <4>1
      <4>3. OpenList(items, stack[N])
        BY <1>1, <4>2 DEF Nested
      <4>. QED
        BY <1>3, <4>2, <4>3
    <3>. QED
      BY <1>1, <1>6, <3>1 DEF OpenList, IsHeap
  <2>7. /\ DOMAIN k = DOMAIN items
        /\ \A i \in DOMAIN items : /\ k[i].valuestring = items[i].valuestring
                                   /\ k[i].string = items[i].string
    <3>1. /\ [items[Top.cur] EXCEPT !.next = brk].valuestring = items[Top.cur].valuestring
          /\ [items[Top.cur] EXCEPT !.next = brk].string = items[Top.cur].string
      BY <2>6 DEF ItemType
    <3>2. k[Top.cur] = [items[Top.cur] EXCEPT !.next = brk]
      BY <2>6
    <3>3. \A i \in DOMAIN items : i # Top.cur => k[i] = items[i]
      BY <2>6
    <3>4. DOMAIN k = DOMAIN items
      BY <2>6
    <3>. HIDE DEF k
    <3>. QED
      BY <3>1, <3>2, <3>3, <3>4
  <2>. HIDE DEF o, b, k
  <2>8. /\ DOMAIN stack' = 1 .. N /\ stack'[N] = o /\ Len(stack') = N /\ stack' # << >>
        /\ \A f \in 1 .. N - 1 : stack'[f] = stack[f]
    <3>1. ParserTypeOK /\ stack # << >> /\ o \in FrameType
      BY <1>1, <1>2, <2>1
    <3>. QED
      BY ONLY <2>2, <3>1, TopChanges DEF N
  <2>9. /\ DOMAIN items' = DOMAIN items \cup {brk} /\ items'[brk] = b
        /\ \A i \in DOMAIN items : items'[i] = k[i]
    BY <1>1, <2>2, <2>7 DEF Put
  <2>10. Owned(items', strs')
    <3>1. \A i \in DOMAIN items : /\ items'[i].valuestring = items[i].valuestring
                                  /\ items'[i].string = items[i].string
      BY <2>7, <2>9
    <3>2. Owned(items', strs)
      BY <1>1, <2>4, <2>9, <3>1, OwnedMore
    <3>. QED
      BY <1>4, <3>2
  <2>11. PlaceInv'
    <3>1. Top' = o
      BY <2>8 DEF Top
    <3>2. root' = 1 /\ root' \in DOMAIN items' /\ item' = Top'.cur /\ item' \in DOMAIN items'
      BY <1>2, <1>4, <2>1, <2>9, <3>1
    <3>3. Top'.kind = Top.kind
      BY <2>1, <3>1
    <3>. QED
      BY <1>k, <1>4, <2>4, <2>8, <2>9, <3>2, <3>3 DEF PlaceInv, Underway
  <2>. QED
    BY <1>4, <2>2, <2>5, <2>10, <2>11 DEF HeapInv
<1>. QED
  BY <1>5, <1>6

\* A call returns.
LEMMA CloseStep ==
  ASSUME HeapInv, ParserTypeOK', Close
  PROVE  HeapInv'
<1>. DEFINE N == Len(stack)
            linked == IF Top.head = NULL THEN items ELSE [items EXCEPT ![Top.head].prev = Top.cur]
<1>1. /\ PlaceInv /\ ParserTypeOK /\ IsHeap(items) /\ N \in Nat /\ stack \in [1 .. N -> FrameType]
      /\ Nested(items, stack) /\ Linked(items, stack) /\ Rooted(items, root, stack)
      /\ Owned(items, strs) /\ items \in [DOMAIN items -> ItemType]
  BY HeapBasics DEF HeapInv, IsHeap
<1>2. stack # << >> /\ root = 1 /\ root \in DOMAIN items /\ jpc' = "after"
  BY <1>1 DEF Close, PlaceInv, Underway
<1>3. Top = stack[N] /\ Top \in FrameType /\ N \in Nat \ {0}
  <2>1. N \in 1 .. N /\ Top \in FrameType
    BY <1>1, <1>2, TopType
  <2>. QED
    BY <1>1, <2>1 DEF Top
<1>4. DOMAIN stack' = 1 .. N - 1 /\ \A f \in 1 .. N - 1 : stack'[f] = stack[f]
  <2>1. stack' = Outer
    BY DEF Close
  <2>. QED
    BY <1>1, <1>2, <2>1, TopType
<1>5. OpenList(items, Top)
  <2>1. N \in DOMAIN stack
    BY <1>1, <1>3
  <2>. QED
    BY <1>1, <1>3, <2>1 DEF Nested
<1>6. /\ items' = [linked EXCEPT ![Top.item] = [linked[Top.item] EXCEPT !.type = Top.kind,
                                                                        !.child = Top.head]]
      /\ UNCHANGED <<strs, root>>
  BY DEF Close
<1>. HIDE DEF N
<1>7. /\ DOMAIN linked = DOMAIN items /\ \A i \in DOMAIN items : linked[i] \in ItemType
      /\ \A i \in DOMAIN items :
           /\ linked[i].next = items[i].next /\ linked[i].child = items[i].child
           /\ linked[i].prev = (IF i = Top.head THEN Top.cur ELSE items[i].prev)
           /\ linked[i].valuestring = items[i].valuestring /\ linked[i].string = items[i].string
  <2>0. NULL \notin DOMAIN items
    BY <1>1 DEF IsHeap
  <2>1. CASE Top.head = NULL
    BY <1>1, <2>0, <2>1
  <2>2. CASE Top.head # NULL
    <3>. DEFINE x == [items[Top.head] EXCEPT !.prev = Top.cur]
    <3>1. /\ Top.head \in DOMAIN items /\ items[Top.head] \in ItemType /\ Top.cur \in Nat
      BY <1>1, <1>3, <1>5, <2>2 DEF OpenList, FrameType
    <3>2. /\ x \in ItemType /\ x.next = items[Top.head].next /\ x.child = items[Top.head].child
          /\ x.prev = Top.cur /\ x.valuestring = items[Top.head].valuestring
          /\ x.string = items[Top.head].string
      BY <3>1 DEF ItemType
    <3>3. linked = [items EXCEPT ![Top.head] = x]
      BY <2>2
    <3>. HIDE DEF x, linked
    <3>. QED
      BY <1>1, <3>1, <3>2, <3>3
  <2>. QED
    BY <2>1, <2>2
<1>. HIDE DEF linked
<1>8. /\ DOMAIN items' = DOMAIN items
      /\ \A i \in DOMAIN items :
           /\ items'[i].next = items[i].next
           /\ items'[i].prev = (IF i = Top.head THEN Top.cur ELSE items[i].prev)
           /\ items'[i].child = (IF i = Top.item THEN Top.head ELSE items[i].child)
           /\ items'[i].valuestring = items[i].valuestring /\ items'[i].string = items[i].string
  <2>. DEFINE x == [linked[Top.item] EXCEPT !.type = Top.kind, !.child = Top.head]
  <2>1. Top.item \in DOMAIN items /\ linked[Top.item] \in ItemType
    BY <1>5, <1>7 DEF OpenList
  <2>2. /\ x.next = linked[Top.item].next /\ x.prev = linked[Top.item].prev
        /\ x.child = Top.head /\ x.valuestring = linked[Top.item].valuestring
        /\ x.string = linked[Top.item].string
    BY <2>1 DEF ItemType
  <2>3. items' = [linked EXCEPT ![Top.item] = x]
    BY <1>6
  <2>. HIDE DEF x
  <2>4. /\ DOMAIN items' = DOMAIN items /\ items'[Top.item] = x
        /\ \A i \in DOMAIN items : i # Top.item => items'[i] = linked[i]
    BY <1>7, <2>1, <2>3
  <2>. QED
    BY <1>7, <2>1, <2>2, <2>4
<1>9. IsHeap(items')
  BY <1>1, <1>8 DEF ParserTypeOK, IsHeap
<1>10. Nested(items', stack') /\ Linked(items', stack') /\ Rooted(items', root, stack')
  <2>1. \A i \in DOMAIN items :
           /\ items'[i].next = items[i].next
           /\ items'[i].prev = (IF i = stack[N].head THEN stack[N].cur ELSE items[i].prev)
           /\ items'[i].child = (IF i = stack[N].item THEN stack[N].head ELSE items[i].child)
    BY <1>3, <1>8
  <2>2. DOMAIN items' = DOMAIN items
    BY <1>8
  <2>. QED
    BY ONLY <1>1, <1>3, <1>4, <1>9, <2>1, <2>2, ListEnds
<1>11. Owned(items', strs')
  <2>1. Owned(items', strs)
    BY <1>1, <1>8, OwnedStays
  <2>. QED
    BY <1>6, <2>1
<1>12. PlaceInv'
  BY <1>2, <1>6, <1>8 DEF PlaceInv, Underway, NULL
<1>. QED
  BY <1>6, <1>10, <1>11, <1>12 DEF HeapInv

\* A call fails: its list goes, and those of the calls around it stay.
LEMMA UnwindStep ==
  ASSUME HeapInv, ParserTypeOK', Unwind
  PROVE  HeapInv'
<1>. DEFINE N == Len(stack)
            dead == Below(items, Top.head)
<1>1. /\ PlaceInv /\ ParserTypeOK /\ IsHeap(items) /\ N \in Nat /\ stack \in [1 .. N -> FrameType]
      /\ Nested(items, stack) /\ Linked(items, stack) /\ Rooted(items, root, stack)
      /\ Owned(items, strs)
  BY HeapBasics DEF HeapInv
<1>2. /\ stack # << >> /\ root = 1 /\ 1 \in DOMAIN items /\ jpc' = "fail"
      /\ UNCHANGED <<root, jpc, item>> /\ stack' = Outer
  BY <1>1 DEF Unwind, PlaceInv, Underway
<1>3. Top = stack[N] /\ N \in Nat \ {0}
  <2>1. N \in 1 .. N
    BY <1>1, <1>2, TopType
  <2>. QED
    BY <1>1, <2>1 DEF Top
<1>4. DOMAIN stack' = 1 .. N - 1 /\ \A f \in 1 .. N - 1 : stack'[f] = stack[f]
  BY <1>1, <1>2, TopType
<1>5. /\ items' = [j \in DOMAIN items \ dead |-> items[j]]
      /\ strs' = [a \in DOMAIN strs \ StringsOf(dead) |-> strs[a]]
  BY DEF Unwind, Delete, Tree, Below
<1>. HIDE DEF N
<1>6. /\ Nested(items', stack') /\ Linked(items', stack') /\ Rooted(items', 1, stack')
      /\ 1 \in DOMAIN items'
  BY ONLY <1>1, <1>2, <1>3, <1>4, <1>5, ListDropped
<1>7. Owned(items', strs')
  <2>1. dead \in SUBSET DOMAIN items
    BY DEF Below, Reached
  <2>. HIDE DEF dead
  <2>. QED
    BY <1>1, <1>5, <2>1, OwnedWithout
<1>8. PlaceInv'
  BY <1>2, <1>6 DEF PlaceInv, Underway, NULL
<1>. QED
  BY <1>2, <1>6, <1>7, <1>8 DEF HeapInv

\* All calls have failed: everything goes.
LEMMA RefuseStep ==
  ASSUME HeapInv, ParserTypeOK', Refuse
  PROVE  HeapInv'
<1>1. /\ PlaceInv /\ ParserTypeOK /\ IsHeap(items)
      /\ Linked(items, stack) /\ Rooted(items, root, stack) /\ Owned(items, strs)
  BY HeapBasics DEF HeapInv
<1>2. /\ stack = << >> /\ root = 1 /\ 1 \in DOMAIN items /\ jpc' = "done" /\ root' = NULL
      /\ stack' = stack /\ Delete(root)
  BY <1>1 DEF Refuse, PlaceInv, Underway
<1>3. Below(items, 1) = DOMAIN items
  <2>1. DOMAIN stack = {}
    BY <1>2
  <2>. QED
    BY <1>1, <1>2, <2>1, BelowRoot
<1>4. /\ items' = [j \in DOMAIN items \ DOMAIN items |-> items[j]]
      /\ strs' = [a \in DOMAIN strs \ StringsOf(DOMAIN items) |-> strs[a]]
  BY <1>2, <1>3 DEF Delete, Tree, Below
<1>5. Owned(items', strs')
  <2>1. DOMAIN items \in SUBSET DOMAIN items
    OBVIOUS
  <2>. QED
    BY <1>1, <1>4, <2>1, OwnedWithout
<1>6. DOMAIN items' = {} /\ DOMAIN stack' = {}
  BY <1>2, <1>4
<1>7. DOMAIN strs' = {}
  BY <1>5, <1>6 DEF Owned
<1>8. Nested(items', stack') /\ Linked(items', stack') /\ Rooted(items', root', stack')
  BY <1>6 DEF Nested, Linked, Rooted
<1>9. PlaceInv'
  BY <1>2, <1>6, <1>7 DEF PlaceInv, Underway
<1>. QED
  BY <1>5, <1>8, <1>9 DEF HeapInv

\* Every step of the parser keeps the heap as it should be.
LEMMA ParserSteps ==
  ASSUME HeapInv, JsonNext
  PROVE  HeapInv'
<1>1. ParserTypeOK'
  BY StepParserTypes
<1>2. CASE \/ NoRoot \/ StringFails \/ NoValue \/ First \/ NoMember \/ NoName \/ Colon
           \/ NoColon \/ More \/ NoClose \/ Accept
  BY <1>1, <1>2, QuietSteps
<1>3. CASE Literal \/ Number \/ StringValue \/ Name
  BY <1>1, <1>3, FillingSteps
<1>4. CASE NewRoot
  BY <1>1, <1>4, RootStep
<1>5. CASE Open
  BY <1>1, <1>5, OpenStep
<1>6. CASE Member
  BY <1>1, <1>6, MemberStep
<1>7. CASE Close
  BY <1>1, <1>7, CloseStep
<1>8. CASE Unwind
  BY <1>1, <1>8, UnwindStep
<1>9. CASE Refuse
  BY <1>1, <1>9, RefuseStep
<1>. QED
  BY <1>2, <1>3, <1>4, <1>5, <1>6, <1>7, <1>8, <1>9 DEF JsonNext

\* A text is taken up with an empty heap.
LEMMA ParseStep ==
  ASSUME HeapInv, NEW t, IsText(t), Parse(t)
  PROVE  HeapInv'
<1>1. /\ ParserTypeOK /\ stack = << >> /\ UNCHANGED <<stack, item>> /\ text' = t /\ pos' = 1
      /\ items' = << >> /\ strs' = << >> /\ brk' = 1 /\ jpc' = "start" /\ root' = NULL
      /\ oom' = FALSE
  BY DEF HeapInv, PlaceInv, Underway, Parse
<1>2. DOMAIN items' = {} /\ DOMAIN strs' = {} /\ DOMAIN stack' = {}
  BY <1>1
<1>3. ParserTypeOK'
  <2>1. 1 \in DOMAIN t /\ t \in Seq(TokenType)
    BY LenProperties DEF IsText
  <2>2. items' \in [DOMAIN items' -> ItemType] /\ strs' \in [DOMAIN strs' -> StringType]
    BY <1>1, <1>2
  <2>3. IsText(text)'
    BY <1>1 DEF IsText
  <2>4. /\ pos' \in Nat /\ brk' \in Nat \ {0} /\ item' \in Nat /\ root' \in Nat /\ oom' \in BOOLEAN
        /\ stack' \in Seq(FrameType) /\ Len(stack') <= CJSON_NESTING_LIMIT
    <3>1. pos' \in Nat /\ brk' \in Nat \ {0} /\ root' \in Nat
      BY <1>1, BlankType
    <3>3. oom' \in BOOLEAN
      BY <1>1
    <3>2. item' \in Nat /\ stack' \in Seq(FrameType) /\ Len(stack') <= CJSON_NESTING_LIMIT
      <4>1. item' = item /\ stack' = stack
        BY <1>1
      <4>. QED
        BY <1>1, <4>1 DEF ParserTypeOK
    <3>. QED
      BY <3>1, <3>2, <3>3
  <2>5. text' \in Seq(TokenType) /\ (jpc # "idle" => IsText(text) /\ pos \in DOMAIN text)'
    BY <1>1, <2>1, <2>3
  <2>6. DOMAIN items' \subseteq 1 .. brk' - 1 /\ DOMAIN strs' \subseteq 1 .. brk' - 1
    BY <1>2
  <2>7. jpc' \in {"idle", "start", "value", "first", "member", "name", "colon", "after", "fail",
                  "done"}
    BY <1>1
  <2>. QED
    BY <2>2, <2>4, <2>5, <2>6, <2>7 DEF ParserTypeOK
<1>4. PlaceInv'
  BY <1>1, <1>2 DEF PlaceInv, Underway
<1>5. /\ Nested(items', stack') /\ Linked(items', stack') /\ Rooted(items', root', stack')
      /\ Owned(items', strs')
  BY <1>2 DEF Nested, Linked, Rooted, Owned
<1>. QED
  BY <1>3, <1>4, <1>5 DEF HeapInv

\* At the start nothing has been parsed.
LEMMA HeapStarts ==
  ASSUME JsonInit
  PROVE  HeapInv
<1>1. /\ text = << >> /\ pos = 1 /\ items = << >> /\ strs = << >> /\ brk = 1
      /\ stack = << >> /\ item = NULL /\ jpc = "idle" /\ root = NULL /\ oom = FALSE
  BY DEF JsonInit
<1>2. DOMAIN items = {} /\ DOMAIN strs = {} /\ DOMAIN stack = {} /\ Len(stack) = 0
  BY <1>1
<1>3. ParserTypeOK
  <2>1. /\ pos \in Nat /\ brk \in Nat \ {0} /\ item \in Nat /\ root \in Nat /\ oom \in BOOLEAN
        /\ stack \in Seq(FrameType) /\ Len(stack) <= CJSON_NESTING_LIMIT
    <3>1. pos \in Nat /\ brk \in Nat \ {0} /\ root \in Nat /\ item \in Nat
      BY <1>1, BlankType
    <3>5. oom \in BOOLEAN
      BY <1>1
    <3>2. CJSON_NESTING_LIMIT \in Nat
      BY OptionsAssumption
    <3>3. stack \in Seq(FrameType)
      BY <1>1
    <3>4. Len(stack) <= CJSON_NESTING_LIMIT
      BY <1>2, <3>2
    <3>. QED
      BY <3>1, <3>3, <3>4, <3>5
  <2>2. items \in [DOMAIN items -> ItemType] /\ strs \in [DOMAIN strs -> StringType]
    BY <1>1, <1>2
  <2>3. text \in Seq(TokenType) /\ jpc = "idle"
    BY <1>1
  <2>. QED
    BY <1>2, <2>1, <2>2, <2>3 DEF ParserTypeOK
<1>4. PlaceInv
  BY <1>1, <1>2 DEF PlaceInv, Underway
<1>5. Nested(items, stack) /\ Linked(items, stack) /\ Rooted(items, root, stack) /\ Owned(items, strs)
  BY <1>2 DEF Nested, Linked, Rooted, Owned
<1>. QED
  BY <1>3, <1>4, <1>5 DEF HeapInv

\* The invariant gives the soundness of the heap that the runs check.
LEMMA SoundByInv ==
  ASSUME HeapInv
  PROVE  HeapIsSound
<1>. DEFINE live == DOMAIN items \cup {NULL}
<1>1. /\ IsHeap(items) /\ ParserTypeOK /\ PlaceInv /\ Nested(items, stack)
      /\ Linked(items, stack) /\ Owned(items, strs)
  BY HeapBasics DEF HeapInv
<1>2. \A i \in DOMAIN items :
        /\ {items[i].next, items[i].prev, items[i].child} \subseteq live
        /\ {items[i].valuestring, items[i].string} \subseteq DOMAIN strs \cup {NULL}
        /\ items[i].next # NULL => items[items[i].next].prev = i
        /\ items[i].child # NULL =>
             LET last == items[items[i].child].prev
             IN last \in Siblings(items[i].child) /\ items[last].next = NULL
  <2>1. \A i : Siblings(i) = List(items, i)
    BY DEF Siblings, List
  <2>2. \A i \in DOMAIN items : {items[i].next, items[i].prev, items[i].child} \subseteq live
    BY <1>1 DEF Linked
  <2>3. \A i \in DOMAIN items : {items[i].valuestring, items[i].string} \subseteq DOMAIN strs \cup {NULL}
    BY <1>1 DEF Owned
  <2>. QED
    BY <1>1, <2>1, <2>2, <2>3 DEF Linked
<1>3. ASSUME NEW h1 \in Held, NEW h2 \in Held, h1[1] = h2[1], h1[1] # NULL PROVE h1 = h2
  <2>1. PICK i \in DOMAIN items : h1 \in {<<items[i].valuestring, i, "v">>, <<items[i].string, i, "s">>}
    BY DEF Held
  <2>2. PICK j \in DOMAIN items : h2 \in {<<items[j].valuestring, j, "v">>, <<items[j].string, j, "s">>}
    BY DEF Held
  <2>3. i = j
    BY <1>1, <1>3, <2>1, <2>2 DEF Owned
  <2>4. items[i].valuestring # NULL => items[i].valuestring # items[i].string
    BY <1>1 DEF Owned
  <2>. QED
    BY <1>3, <2>1, <2>2, <2>3, <2>4
<1>4. \A f \in DOMAIN stack : {stack[f].item, stack[f].head, stack[f].cur} \subseteq live
  BY <1>1 DEF Nested, OpenList
<1>5. \A a \in DOMAIN strs : Len(strs[a].b) + 1 <= strs[a].size
  BY <1>1 DEF Owned
<1>. QED
  BY <1>2, <1>3, <1>4, <1>5 DEF HeapIsSound

\* So is it with what is left when cJSON_Parse returns.
LEMMA NothingLeaksByInv ==
  ASSUME HeapInv
  PROVE  NothingLeaks
<1>. SUFFICES ASSUME jpc = "done"
              PROVE  DOMAIN items = Tree(root) /\ DOMAIN strs = StringsOf(Tree(root))
  BY DEF NothingLeaks
<1>1. /\ IsHeap(items) /\ PlaceInv /\ Linked(items, stack) /\ Rooted(items, root, stack)
      /\ Owned(items, strs)
  BY HeapBasics DEF HeapInv
<1>2. stack = << >> /\ Tree(root) = Below(items, root)
  BY <1>1 DEF PlaceInv, Underway, Tree, Below
<1>3. DOMAIN items = Tree(root)
  <2>1. CASE root = NULL
    <3>1. DOMAIN items = {}
      BY <1>1, <2>1 DEF PlaceInv, Underway
    <3>. QED
      BY <1>2, <2>1, <3>1, BelowNull
  <2>2. CASE root # NULL
    <3>1. root = 1 /\ 1 \in DOMAIN items
      BY <1>1, <2>2 DEF PlaceInv
    <3>2. DOMAIN stack = {}
      BY <1>2
    <3>. QED
      BY <1>1, <1>2, <3>1, <3>2, BelowRoot
  <2>. QED
    BY <2>1, <2>2
<1>4. DOMAIN strs = StringsOf(DOMAIN items)
  <2>1. ASSUME NEW a \in DOMAIN strs PROVE a \in StringsOf(DOMAIN items)
    BY <1>1 DEF Owned, StringsOf
  <2>2. ASSUME NEW a \in StringsOf(DOMAIN items) PROVE a \in DOMAIN strs
    BY <1>1 DEF Owned, StringsOf
  <2>. QED
    BY <2>1, <2>2
<1>. QED
  BY <1>3, <1>4
-------------------------------------------------------------------------------
(* The members of an object in their order *)

\* There is nothing on from nowhere.
LEMMA ListNull ==
  ASSUME NEW h
  PROVE  List(h, NULL) = {}
<1>. DEFINE leads == [j \in DOMAIN h |-> {h[j].next}]
<1>1. Reached(NULL, leads) \subseteq {}
  <2>1. {} \in SUBSET DOMAIN leads /\ NULL \in {} \cup {NULL} /\ \A k \in {} : leads[k] \subseteq {NULL}
    OBVIOUS
  <2>. HIDE DEF leads
  <2>. QED
    BY <2>1, ReachedLeast
<1>. QED
  BY <1>1 DEF List

\* A set with i that holds what follows on its members holds the list from i on.
LEMMA ListLeast ==
  ASSUME NEW h, NEW i \in DOMAIN h, NEW S \in SUBSET DOMAIN h, i \in S,
         \A k \in S : h[k].next # NULL => h[k].next \in S
  PROVE  List(h, i) \subseteq S
<1>. DEFINE leads == [j \in DOMAIN h |-> {h[j].next}]
<1>1. DOMAIN leads = DOMAIN h /\ \A k \in S : leads[k] \subseteq S \cup {NULL}
  OBVIOUS
<1>2. i \in S \cup {NULL} /\ S \in SUBSET DOMAIN leads /\ List(h, i) = Reached(i, leads)
  BY <1>1 DEF List
<1>. HIDE DEF leads
<1>. QED
  BY <1>1, <1>2, ReachedLeast

\* Of two items of a list the lower one leads to the other.
LEMMA ListOrder ==
  ASSUME NEW h, IsHeap(h), NEW st, Linked(h, st), NEW c \in DOMAIN h,
         NEW a \in List(h, c), NEW b \in List(h, c), a <= b
  PROVE  b \in List(h, a)
<1>1. /\ List(h, c) \subseteq DOMAIN h /\ DOMAIN h \subseteq Nat
      /\ \A k \in DOMAIN h : h[k].next # NULL => k < h[k].next /\ h[k].next \in DOMAIN h
  BY ListIn DEF IsHeap, Linked
<1>2. ASSUME NEW k \in DOMAIN h PROVE \A j \in List(h, k) : k <= j
  <2>. DEFINE S == {j \in DOMAIN h : k <= j}
  <2>1. \A j \in S : h[j].next # NULL => h[j].next \in S
    BY <1>1
  <2>2. k \in S /\ S \in SUBSET DOMAIN h
    BY <1>1
  <2>3. List(h, k) \subseteq S
    <3>. HIDE DEF S
    <3>. QED
      BY <2>1, <2>2, ListLeast
  <2>. QED
    BY <2>3
<1>. DEFINE S == {j \in DOMAIN h : a \in List(h, j) \/ j \in List(h, a)}
<1>3. ASSUME NEW k \in S, h[k].next # NULL PROVE h[k].next \in S
  <2>1. k \in DOMAIN h /\ h[k].next \in DOMAIN h
    BY <1>1, <1>3
  <2>2. CASE k \in List(h, a)
    BY <1>1, <2>1, <2>2, ListIn
  <2>3. CASE k = a
    BY <1>1, <2>1, <2>3, ListIn
  <2>4. CASE a \in List(h, k) /\ k # a
    <3>. DEFINE n == h[k].next
                R == {k} \cup List(h, n)
    <3>1. R \in SUBSET DOMAIN h /\ n \in R /\ \A j \in R : h[j].next # NULL => h[j].next \in R
      BY <1>1, <2>1, ListIn
    <3>2. List(h, k) \subseteq R
      <4>. HIDE DEF R
      <4>1. k \in R
        BY DEF R
      <4>. QED
        BY <2>1, <3>1, <4>1, ListLeast
    <3>3. a \in List(h, n)
      BY <2>4, <3>2
    <3>. QED
      BY <2>1, <3>3
  <2>. QED
    BY <1>3, <2>2, <2>3, <2>4
<1>4. c \in S /\ S \in SUBSET DOMAIN h
  OBVIOUS
<1>5. List(h, c) \subseteq S
  <2>. HIDE DEF S
  <2>. QED
    BY <1>3, <1>4, ListLeast
<1>6. CASE b \in List(h, a)
  BY <1>6
<1>7. CASE a \in List(h, b)
  <2>1. b <= a /\ a \in Nat /\ b \in Nat
    BY <1>1, <1>2, <1>7
  <2>2. a = b
    BY <2>1
  <2>. QED
    BY <1>7, <2>2
<1>. QED
  BY <1>5, <1>6, <1>7

\* cJSON_GetObjectItem finds a member of that name if there is one, and the first.
LEMMA FirstMember ==
  ASSUME HeapInv, NEW o \in DOMAIN items, NEW name
  PROVE  LET i == GetObjectItem(o, name)
         IN /\ Members(o, name) \subseteq DOMAIN items
            /\ Members(o, name) = {} => i = NULL
            /\ Members(o, name) # {} => i \in Members(o, name)
                                        /\ \A j \in Members(o, name) : i <= j
<1>. DEFINE found == Members(o, name)
            c == items[o].child
<1>1. IsHeap(items) /\ Linked(items, stack) /\ DOMAIN items \subseteq Nat /\ c \in DOMAIN items \cup {NULL}
  BY HeapBasics DEF HeapInv, Linked, IsHeap
<1>2. /\ \A i : Siblings(i) = List(items, i)
      /\ found = {i \in List(items, c) : Named(items[i].string, name)}
  BY DEF Siblings, List, Members
<1>3. found \subseteq DOMAIN items /\ (found # {} => c \in DOMAIN items)
  <2>1. c = NULL => List(items, c) = {}
    BY ListNull
  <2>2. c \in DOMAIN items => List(items, c) \subseteq DOMAIN items
    BY <1>1, ListIn
  <2>. QED
    BY <1>1, <1>2, <2>1, <2>2
<1>4. GetObjectItem(o, name) = IF found = {} THEN NULL
                               ELSE CHOOSE i \in found : \A j \in found : j \in Siblings(i)
  BY DEF GetObjectItem
<1>5. ASSUME found # {}
      PROVE  LET i == GetObjectItem(o, name) IN i \in found /\ \A j \in found : i <= j
  <2>1. PICK i \in found : \A j \in found : i <= j
    <3>1. found \in SUBSET Nat
      BY <1>1, <1>3
    <3>. HIDE DEF found
    <3>. QED
      BY <1>5, <3>1, LeastNatural
  <2>2. \A j \in found : j \in Siblings(i)
    <3>1. ASSUME NEW j \in found PROVE j \in List(items, i)
      <4>1. c \in DOMAIN items /\ i \in List(items, c) /\ j \in List(items, c) /\ i <= j
        BY <1>2, <1>3, <1>5, <2>1
      <4>. HIDE DEF c, found
      <4>. QED
        BY <1>1, <4>1, ListOrder
    <3>. QED
      BY <1>2, <3>1
  <2>3. LET x == GetObjectItem(o, name) IN x \in found /\ \A j \in found : j \in Siblings(x)
    <3>. HIDE DEF found
    <3>. QED
      BY <1>4, <1>5, <2>2
  <2>4. ASSUME NEW x \in found, NEW j \in Siblings(x) PROVE x <= j
    <3>. DEFINE S == {k \in DOMAIN items : x <= k}
    <3>1. \A k \in S : items[k].next # NULL => items[k].next \in S
      BY <1>1, <1>3 DEF Linked
    <3>2. x \in S /\ S \in SUBSET DOMAIN items /\ x \in DOMAIN items
      BY <1>1, <1>3
    <3>3. List(items, x) \subseteq S
      <4>. HIDE DEF S
      <4>. QED
        BY <3>1, <3>2, ListLeast
    <3>. QED
      BY <1>2, <2>4, <3>3
  <2>. HIDE DEF found
  <2>. QED
    BY <2>3, <2>4
<1>. QED
  BY <1>3, <1>4, <1>5
-------------------------------------------------------------------------------
(* What the tree tells of the text *)

\* The nesting at the k-th token, and the names of the outermost object that the
\* first n - 1 tokens give with the colon.
Deep(t, k) == Nesting(Cut(t, 1, k))
Names(t, n) == {k \in 1 .. n - 2 : t[k].k = "str" /\ t[k + 1].k = ":" /\ Deep(t, k) = 1}

\* An item has the name that a token spells, and the number, if any, that another does.
Titled(h, s, i, token) ==
  /\ token.k = "str" /\ WellFormed(token.u)
  /\ h[i].string # NULL /\ s[h[i].string].s = token.s
  /\ s[h[i].string].b = Unescaped(token.u)
Valued(h, i, token) ==
  /\ h[i].type = "num" <=> token.k = "num"
  /\ token.k = "num" => h[i].number = token.n

\* The items of T are those of the names up to n, in their order, with the values
\* behind them; but those of w wait for theirs, which is next.
Tells(h, s, t, n, T, m, w) ==
  /\ m \in [T -> Names(t, n)]
  /\ \A i, j \in T : i < j => m[i] < m[j]
  /\ \A k \in Names(t, n) : \E i \in T : m[i] = k
  /\ \A i \in T : Titled(h, s, i, t[m[i]])
  /\ \A i \in T : IF i \in w THEN m[i] = n - 2
                  ELSE m[i] + 2 < n /\ Valued(h, i, t[m[i] + 2])

\* The items of the outermost list, and those of them whose name is complete.
Start(h, r, st) == IF st = << >> THEN h[r].child ELSE st[1].head
Outermost(h, r, st) == List(h, Start(h, r, st))
Titles == {i \in Outermost(items, root, stack) : items[i].string # NULL}
          \ (IF jpc = "colon" THEN {item} ELSE {})
Awaited == IF jpc = "value" THEN {item} ELSE {}

\* The parser has not met an error.
Reading == \/ jpc \in {"value", "first", "member", "name", "colon", "after"}
           \/ jpc = "done" /\ root # NULL

\* Where in the text the parser is.
TextInv ==
  /\ jpc = "start" => pos = 1
  /\ jpc = "value" /\ stack = << >> => pos = 1
  /\ Reading /\ pos = 1 => jpc = "value"
  /\ stack # << >> /\ Reading => stack[1].item = root /\ stack[1].kind = text[1].k
  /\ Reading => /\ Deep(text, pos - 1) = Len(stack)
                /\ \A j \in 1 .. pos - 2 : Deep(text, j) >= 1
                /\ \A f \in DOMAIN stack : items[stack[f].item].type = "none"
                /\ Titles # {} => text[1].k = "{"
  /\ jpc \in {"value", "name", "colon"} => items[item].type = "none"
  /\ jpc = "value" /\ stack # << >> => (Top.kind = "{" => items[item].string # NULL)
  /\ jpc = "colon" => pos > 1 /\ Titled(items, strs, item, text[pos - 1])

Told == Reading => \E m : Tells(items, strs, text, pos, Titles, m, Awaited)

\* How many of the first k tokens are of a kind in K, and with one more.
Count(t, k, K) == Cardinality({i \in DOMAIN Cut(t, 1, k) : Cut(t, 1, k)[i].k \in K})

\* Each token counts for itself.
LEMMA CutSteps ==
  ASSUME NEW t \in Seq(TokenType), NEW n \in 1 .. Len(t), NEW K
  PROVE  /\ Count(t, n - 1, K) \in Nat /\ Count(t, n, K) \in Nat
         /\ Count(t, n, K) = Count(t, n - 1, K) + (IF t[n].k \in K THEN 1 ELSE 0)
<1>. DEFINE In(k) == {i \in DOMAIN Cut(t, 1, k) : Cut(t, 1, k)[i].k \in K}
            Set(k) == {i \in 1 .. k : t[i].k \in K}
<1>0. \A k : Count(t, k, K) = Cardinality(In(k))
  BY DEF Count
<1>1. Len(t) \in Nat /\ DOMAIN t = 1 .. Len(t)
  BY LenProperties
<1>2. ASSUME NEW k \in 0 .. Len(t) PROVE In(k) = Set(k)
  <2>1. \A i \in 1 .. k : t[i] \in TokenType
    BY <1>1
  <2>2. /\ Cut(t, 1, k) \in Seq(TokenType) /\ Len(Cut(t, 1, k)) = (IF 1 <= k THEN k - 1 + 1 ELSE 0)
        /\ \A i \in 1 .. k - 1 + 1 : Cut(t, 1, k)[i] = t[1 + i - 1]
    <3>. HIDE DEF TokenType
    <3>. QED
      BY <2>1, SubSeqProperties DEF Cut
  <2>. DEFINE c == Cut(t, 1, k)
  <2>3. Len(c) = k /\ DOMAIN c = 1 .. k
    <3>1. Len(c) = k
      BY <1>1, <2>2
    <3>2. DOMAIN c = 1 .. Len(c)
      <4>. HIDE DEF TokenType, c
      <4>1. c \in Seq(TokenType)
        BY <2>2 DEF c
      <4>. QED
        BY ONLY <4>1, LenProperties
    <3>. QED
      BY <3>1, <3>2
  <2>4. \A i \in 1 .. k : c[i] = t[i]
    <3>1. \A i \in 1 .. k : i \in 1 .. k - 1 + 1 /\ 1 + i - 1 = i
      OBVIOUS
    <3>. QED
      BY <2>2, <3>1
  <2>. HIDE DEF c
  <2>5. In(k) = {i \in DOMAIN c : c[i].k \in K}
    BY DEF c
  <2>. QED
    BY <2>3, <2>4, <2>5
<1>3. n - 1 \in 0 .. Len(t) /\ n \in 0 .. Len(t)
  BY <1>1
<1>4. IsFiniteSet(Set(n - 1)) /\ IsFiniteSet(Set(n))
  <2>1. IsFiniteSet(1 .. n - 1) /\ IsFiniteSet(1 .. n)
    BY FS_Interval
  <2>. QED
    BY <2>1, FS_Subset
<1>5. /\ \A i \in 1 .. n : i \in 1 .. n - 1 \/ i = n
      /\ \A i \in 1 .. n - 1 : i \in 1 .. n /\ i # n
      /\ n \in 1 .. n
  OBVIOUS
<1>6. CASE t[n].k \in K
  <2>1. Set(n) = Set(n - 1) \cup {n} /\ n \notin Set(n - 1)
    BY <1>5, <1>6
  <2>2. Cardinality(Set(n)) = Cardinality(Set(n - 1)) + 1
    <3>. HIDE DEF Set
    <3>. QED
      BY <1>4, <2>1, FS_AddElement
  <2>. QED
    BY <1>0, <1>2, <1>3, <1>4, <1>6, <2>2, FS_CardinalityType
<1>7. CASE t[n].k \notin K
  <2>1. Set(n) = Set(n - 1)
    BY <1>5, <1>7
  <2>2. Cardinality(Set(n)) \in Nat
    BY <1>4, FS_CardinalityType
  <2>3. In(n) = Set(n) /\ In(n - 1) = Set(n)
    BY <1>2, <1>3, <2>1
  <2>4. /\ Cardinality(In(n - 1)) \in Nat /\ Cardinality(In(n)) \in Nat
        /\ Cardinality(In(n)) = Cardinality(In(n - 1)) + 0
    <3>. HIDE DEF In, Set
    <3>. QED
      BY ONLY <2>2, <2>3
  <2>. QED
    BY <1>0, <1>7, <2>4
<1>. QED
  BY <1>6, <1>7

\* Each token opens, closes or leaves the nesting as it is.
LEMMA DeepSteps ==
  ASSUME NEW t \in Seq(TokenType), NEW n \in 1 .. Len(t)
  PROVE  /\ Deep(t, n - 1) \in Int /\ Deep(t, n) \in Int
         /\ t[n].k \in {"[", "{"} => Deep(t, n) = Deep(t, n - 1) + 1
         /\ t[n].k \in {"]", "}"} => Deep(t, n) = Deep(t, n - 1) - 1
         /\ t[n].k \notin {"[", "{"} \cup {"]", "}"} => Deep(t, n) = Deep(t, n - 1)
<1>. DEFINE O == {"[", "{"}
            C == {"]", "}"}
            x(i, K) == Count(t, i, K)
            k == t[n].k
<1>1. \A j : Deep(t, j) = x(j, O) - x(j, C)
  BY DEF Deep, Nesting, Count
<1>2. O \cap C = {}
  OBVIOUS
<1>. HIDE DEF O, C
<1>3. ASSUME NEW K
      PROVE  x(n - 1, K) \in Nat /\ x(n, K) \in Nat /\ x(n, K) = x(n - 1, K) + (IF k \in K THEN 1 ELSE 0)
  <2>. HIDE DEF TokenType
  <2>. QED
    BY CutSteps
<1>. DEFINE a == x(n - 1, O)
            b == x(n, O)
            c == x(n - 1, C)
            d == x(n, C)
            y == Deep(t, n - 1)
            z == Deep(t, n)
<1>4. /\ a \in Nat /\ b \in Nat /\ b = a + (IF k \in O THEN 1 ELSE 0)
      /\ c \in Nat /\ d \in Nat /\ d = c + (IF k \in C THEN 1 ELSE 0)
      /\ y = a - c /\ z = b - d
  <2>. HIDE DEF x
  <2>. QED
    BY <1>1, <1>3
<1>. HIDE DEF a, b, c, d, y, z, k
<1>5. y \in Int /\ z \in Int
  BY ONLY <1>4
<1>6. CASE k \in O
  <2>1. k \notin C
    BY <1>2, <1>6
  <2>2. z = y + 1
    BY ONLY <1>4, <1>6, <2>1
  <2>. QED
    BY <1>5, <1>6, <2>1, <2>2 DEF y, z, k, O, C
<1>7. CASE k \in C
  <2>1. k \notin O
    BY <1>2, <1>7
  <2>2. z = y - 1
    BY ONLY <1>4, <1>7, <2>1
  <2>. QED
    BY <1>5, <1>7, <2>1, <2>2 DEF y, z, k, O, C
<1>8. CASE k \notin O \cup C
  <2>1. k \notin O /\ k \notin C
    BY <1>8
  <2>2. z = y
    BY ONLY <1>4, <2>1
  <2>. QED
    BY <1>5, <2>1, <2>2 DEF y, z, k, O, C
<1>. QED
  BY <1>6, <1>7, <1>8

\* A text starts at no depth.
LEMMA DeepStarts ==
  ASSUME NEW t
  PROVE  Deep(t, 0) = 0
<1>1. Cut(t, 1, 0) = << >>
  BY SubSeqEmpty DEF Cut
<1>2. \A K : {i \in DOMAIN Cut(t, 1, 0) : Cut(t, 1, 0)[i].k \in K} = {}
  BY <1>1
<1>3. Deep(t, 0) = Cardinality({}) - Cardinality({})
  BY <1>2 DEF Deep, Nesting
<1>. QED
  BY <1>3, FS_EmptySet

\* With a token that is no colon, or not one of the outermost object, there is no name more.
LEMMA NamesStay ==
  ASSUME NEW t, NEW n \in Nat \ {0}, t[n].k # ":" \/ Deep(t, n - 1) # 1
  PROVE  Names(t, n + 1) = Names(t, n)
<1>. DEFINE Q(k) == t[k].k = "str" /\ t[k + 1].k = ":" /\ Deep(t, k) = 1
<1>1. ~ Q(n - 1)
  BY n - 1 + 1 = n
<1>2. \A j : Names(t, j) = {k \in 1 .. j - 2 : Q(k)}
  BY DEF Names
<1>. HIDE DEF Q
<1>3. \A k \in 1 .. (n + 1) - 2 : k \in 1 .. n - 2 \/ k = n - 1
  OBVIOUS
<1>4. \A k \in 1 .. n - 2 : k \in 1 .. (n + 1) - 2
  OBVIOUS
<1>. QED
  BY <1>1, <1>2, <1>3, <1>4

\* With a colon behind a string of the outermost object there is one more.
LEMMA NamesMore ==
  ASSUME NEW t, NEW n \in Nat, n > 1, t[n - 1].k = "str", t[n].k = ":", Deep(t, n - 1) = 1
  PROVE  /\ Names(t, n + 1) = Names(t, n) \cup {n - 1}
         /\ \A k \in Names(t, n) : k \in Nat /\ k < n - 1
<1>. DEFINE Q(k) == t[k].k = "str" /\ t[k + 1].k = ":" /\ Deep(t, k) = 1
<1>1. Q(n - 1)
  BY n - 1 + 1 = n
<1>2. \A j : Names(t, j) = {k \in 1 .. j - 2 : Q(k)}
  BY DEF Names
<1>. HIDE DEF Q
<1>3. \A k \in 1 .. (n + 1) - 2 : k \in 1 .. n - 2 \/ k = n - 1
  OBVIOUS
<1>4. n - 1 \in 1 .. (n + 1) - 2 /\ \A k \in 1 .. n - 2 : k \in 1 .. (n + 1) - 2 /\ k < n - 1
  OBVIOUS
<1>. QED
  BY <1>1, <1>2, <1>3, <1>4

\* A list is the same in two heaps that agree on what follows its items.
LEMMA ListSame ==
  ASSUME NEW h, NEW g, IsHeap(h), IsHeap(g), NEW i \in DOMAIN h, i \in DOMAIN g,
         \A k \in List(h, i) : /\ k \in DOMAIN g /\ g[k].next = h[k].next
                               /\ h[k].next \in DOMAIN h \cup {NULL}
  PROVE  List(g, i) = List(h, i)
<1>1. /\ i \in List(h, i) /\ List(h, i) \subseteq DOMAIN h
      /\ \A k \in List(h, i) : h[k].next \in DOMAIN h => h[k].next \in List(h, i)
  BY ListIn
<1>2. /\ i \in List(g, i) /\ List(g, i) \subseteq DOMAIN g
      /\ \A k \in List(g, i) : g[k].next \in DOMAIN g => g[k].next \in List(g, i)
  BY ListIn
<1>3. List(g, i) \subseteq List(h, i)
  <2>1. List(h, i) \in SUBSET DOMAIN g /\ \A k \in List(h, i) : g[k].next # NULL => g[k].next \in List(h, i)
    BY <1>1
  <2>. QED
    BY <1>1, <2>1, ListLeast
<1>4. List(h, i) \subseteq List(g, i)
  <2>. DEFINE S == List(h, i) \cap List(g, i)
  <2>1. /\ i \in S /\ S \in SUBSET DOMAIN h
        /\ \A k \in S : h[k].next # NULL => h[k].next \in S
    BY <1>1, <1>2
  <2>. HIDE DEF S
  <2>2. List(h, i) \subseteq S
    BY <2>1, ListLeast
  <2>. QED
    BY <2>2 DEF S
<1>. QED
  BY <1>3, <1>4

\* What was allocated for an inner list lies above the items of those around it.
LEMMA StackOrder ==
  ASSUME HeapInv, stack # << >>
  PROVE  /\ Len(stack) \in Nat \ {0} /\ DOMAIN stack = 1 .. Len(stack) /\ Len(stack) \in 1 .. Len(stack)
         /\ Top = stack[Len(stack)] /\ \A f \in 1 .. Len(stack) : stack[f] \in FrameType
         /\ \A f \in 1 .. Len(stack) - 1 : stack[f].item < Top.item
         /\ Top.head # NULL => \A f \in 1 .. Len(stack) : stack[f].item < Top.cur
         /\ Len(stack) > 1 => /\ stack[1].head # NULL /\ stack[1].cur <= Top.item
                              /\ Top.head # NULL => stack[1].cur < Top.cur
<1>1. /\ Len(stack) \in Nat \ {0} /\ DOMAIN stack = 1 .. Len(stack) /\ Len(stack) \in 1 .. Len(stack)
      /\ \A f \in 1 .. Len(stack) : stack[f] \in FrameType
  <2>1. Len(stack) \in Nat /\ DOMAIN stack = 1 .. Len(stack) /\ stack \in Seq(FrameType)
    BY HeapBasics, LenProperties DEF HeapInv, ParserTypeOK
  <2>2. Len(stack) # 0
    BY <2>1, EmptySeq
  <2>. HIDE DEF FrameType
  <2>. QED
    BY <2>1, <2>2, HeapBasics
<1>2. \A f \in 1 .. Len(stack) : /\ stack[f].item \in Nat /\ stack[f].head \in Nat /\ stack[f].cur \in Nat
  BY <1>1 DEF FrameType
<1>3. /\ \A f \in 1 .. Len(stack) : stack[f].head # NULL =>
           stack[f].item < stack[f].head /\ stack[f].head <= stack[f].cur
      /\ \A f, g \in 1 .. Len(stack) : f < g => stack[f].head # NULL /\ stack[f].cur <= stack[g].item
  BY <1>1 DEF HeapInv, Nested, OpenList
<1>. DEFINE n == Len(stack)
            i(f) == stack[f].item
            h(f) == stack[f].head
            c(f) == stack[f].cur
<1>4. /\ n \in Nat \ {0} /\ \A f \in 1 .. n : i(f) \in Nat /\ h(f) \in Nat /\ c(f) \in Nat
      /\ \A f \in 1 .. n : h(f) # NULL => i(f) < h(f) /\ h(f) <= c(f)
      /\ \A f, g \in 1 .. n : f < g => h(f) # NULL /\ c(f) <= i(g)
  BY <1>1, <1>2, <1>3
<1>. HIDE DEF n, i, h, c
<1>5. /\ \A f \in 1 .. n - 1 : i(f) < i(n)
      /\ h(n) # NULL => \A f \in 1 .. n : i(f) < c(n)
      /\ n > 1 => h(1) # NULL /\ c(1) <= i(n) /\ (h(n) # NULL => c(1) < c(n))
  <2>1. n \in 1 .. n /\ \A f \in 1 .. n - 1 : f \in 1 .. n /\ f < n
    BY ONLY <1>4
  <2>2. \A f \in 1 .. n - 1 : i(f) < i(n)
    BY ONLY <1>4, <2>1
  <2>3. ASSUME h(n) # NULL, NEW f \in 1 .. n PROVE i(f) < c(n)
    <3>1. i(n) < c(n)
      BY ONLY <1>4, <2>1, <2>3
    <3>2. f = n \/ f \in 1 .. n - 1
      BY ONLY <1>4, <2>3
    <3>. QED
      BY ONLY <1>4, <2>1, <2>2, <3>1, <3>2, f \in 1 .. n
  <2>4. ASSUME n > 1 PROVE h(1) # NULL /\ c(1) <= i(n) /\ (h(n) # NULL => c(1) < c(n))
    <3>1. 1 \in 1 .. n /\ 1 < n
      BY ONLY <1>4, <2>4
    <3>2. h(1) # NULL /\ c(1) <= i(n)
      BY ONLY <1>4, <2>1, <3>1
    <3>3. h(n) # NULL => i(n) < c(n)
      BY ONLY <1>4, <2>1
    <3>. QED
      BY ONLY <1>4, <2>1, <3>1, <3>2, <3>3
  <2>. QED
    BY <2>2, <2>3, <2>4
<1>. QED
  BY <1>1, <1>5 DEF n, i, h, c, Top

\* The outermost list lies in the heap and ends with its current item.
LEMMA OuterBounds ==
  ASSUME HeapInv, root \in DOMAIN items
  PROVE  /\ Start(items, root, stack) \in DOMAIN items \cup {NULL}
         /\ Outermost(items, root, stack) \subseteq DOMAIN items
         /\ Start(items, root, stack) = NULL => Outermost(items, root, stack) = {}
         /\ \A i \in Outermost(items, root, stack) : items[i].next \in DOMAIN items \cup {NULL}
         /\ stack # << >> => /\ \A i \in Outermost(items, root, stack) : i <= stack[1].cur
                             /\ stack[1].head # NULL => stack[1].cur \in Outermost(items, root, stack)
<1>. DEFINE s == Start(items, root, stack)
            M == Outermost(items, root, stack)
<1>1. /\ IsHeap(items) /\ Linked(items, stack) /\ Nested(items, stack) /\ DOMAIN items \subseteq Nat
  BY HeapBasics DEF HeapInv, IsHeap
<1>2. stack # << >> => stack[1].head \in DOMAIN items \cup {NULL} /\ OpenList(items, stack[1])
  <2>1. stack # << >> => 1 \in DOMAIN stack
    BY StackOrder
  <2>. QED
    BY <1>1, <2>1 DEF Nested, OpenList
<1>3. s \in DOMAIN items \cup {NULL}
  BY <1>1, <1>2 DEF Start, Linked
<1>4. M = List(items, s)
  BY DEF Outermost
<1>5. s = NULL => M = {}
  BY <1>4, ListNull
<1>6. M \subseteq DOMAIN items
  <2>. HIDE DEF s, M
  <2>. QED
    BY <1>1, <1>3, <1>4, <1>5, ListIn
<1>7. \A i \in M : items[i].next \in DOMAIN items \cup {NULL}
  BY <1>1, <1>6 DEF Linked
<1>8. ASSUME stack # << >>, stack[1].head # NULL
      PROVE  stack[1].cur \in M /\ \A i \in M : i <= stack[1].cur
  <2>. DEFINE c == stack[1].cur
  <2>1. c \in M /\ items[c].next = NULL /\ c \in DOMAIN items /\ s \in DOMAIN items
    BY <1>2, <1>3, <1>4, <1>8 DEF OpenList, Start
  <2>2. ASSUME NEW i \in M, ~ (i <= c) PROVE FALSE
    <3>1. i \in Nat /\ c \in Nat /\ c <= i /\ i # c
      BY <1>1, <1>6, <2>1, <2>2
    <3>2. i \in List(items, c)
      <4>. HIDE DEF s, M, c
      <4>. QED
        BY <1>1, <1>4, <2>1, <2>2, <3>1, ListOrder
    <3>3. List(items, c) \subseteq {c}
      <4>1. {c} \in SUBSET DOMAIN items /\ \A k \in {c} : items[k].next # NULL => items[k].next \in {c}
        BY <2>1
      <4>. HIDE DEF c
      <4>. QED
        BY <2>1, <4>1, ListLeast
    <3>. QED
      BY <3>1, <3>2, <3>3
  <2>. QED
    BY <2>1, <2>2
<1>9. ASSUME stack # << >>, stack[1].head = NULL PROVE M = {}
  BY <1>5, <1>9 DEF Start
<1>. QED
  BY <1>3, <1>5, <1>6, <1>7, <1>8, <1>9

\* The current item of the innermost list is in the outermost one if there is no other.
LEMMA InnerItem ==
  ASSUME HeapInv, root \in DOMAIN items, stack # << >>, Top.head # NULL
  PROVE  Top.cur \in Outermost(items, root, stack) <=> Len(stack) = 1
<1>. DEFINE M == Outermost(items, root, stack)
            c == stack[1].cur
            x == Top.cur
<1>1. /\ Len(stack) \in Nat \ {0} /\ Top = stack[Len(stack)] /\ (Len(stack) > 1 => c < x)
      /\ \A f \in 1 .. Len(stack) : stack[f] \in FrameType
  BY StackOrder
<1>2. 1 \in 1 .. Len(stack) /\ Len(stack) \in 1 .. Len(stack)
  BY <1>1
<1>3. c \in Nat /\ x \in Nat
  BY <1>1, <1>2 DEF FrameType
<1>4. (\A i \in M : i <= c) /\ (stack[1].head # NULL => c \in M)
  BY OuterBounds
<1>5. CASE Len(stack) = 1
  BY <1>1, <1>4, <1>5
<1>6. CASE Len(stack) # 1
  <2>1. c < x
    <3>. HIDE DEF c, x
    <3>1. Len(stack) \in Nat \ {0}
      BY ONLY <1>1
    <3>2. Len(stack) > 1
      BY ONLY <1>6, <3>1
    <3>. QED
      BY ONLY <1>1, <3>2
  <2>2. x \notin M
    <3>. HIDE DEF M, c, x
    <3>. QED
      BY ONLY <1>3, <1>4, <2>1
  <2>. QED
    BY <1>6, <2>2
<1>. QED
  BY <1>5, <1>6

\* It stays as it is while its items are followed by the same.
LEMMA OuterStays ==
  ASSUME HeapInv, HeapInv', root \in DOMAIN items,
         Start(items, root, stack)' = Start(items, root, stack),
         \A i \in Outermost(items, root, stack) : i \in DOMAIN items' /\ items'[i].next = items[i].next
  PROVE  Outermost(items, root, stack)' = Outermost(items, root, stack)
<1>. DEFINE s == Start(items, root, stack)
            h == items
            g == items'
<1>1. IsHeap(h) /\ IsHeap(g)
  <2>1. IsHeap(h)
    BY HeapBasics
  <2>2. ParserTypeOK'
    BY DEF HeapInv
  <2>3. /\ brk' \in Nat \ {0} /\ DOMAIN items' \subseteq 1 .. brk' - 1
        /\ items' \in [DOMAIN items' -> ItemType]
    BY <2>2 DEF ParserTypeOK
  <2>4. \A i \in 1 .. brk' - 1 : i \in Nat \ {NULL}
    BY <2>3 DEF NULL
  <2>5. IsHeap(g)
    BY <2>3, <2>4 DEF IsHeap
  <2>. QED
    BY <2>1, <2>5
<1>2. Outermost(items, root, stack) = List(h, s) /\ Outermost(items, root, stack)' = List(g, s)
  BY DEF Outermost
<1>3. CASE s = NULL
  BY <1>2, <1>3, ListNull
<1>4. CASE s # NULL
  <2>1. s \in DOMAIN h
    BY <1>4, OuterBounds
  <2>2. s \in List(h, s)
    <3>. HIDE DEF s, h
    <3>. QED
      BY <1>1, <2>1, ListIn
  <2>3. s \in DOMAIN g /\ \A k \in List(h, s) : /\ k \in DOMAIN g /\ g[k].next = h[k].next
                                                /\ h[k].next \in DOMAIN h \cup {NULL}
    BY <1>2, <2>2, OuterBounds
  <2>. HIDE DEF s, h, g
  <2>4. List(g, s) = List(h, s)
    BY <1>1, <2>1, <2>3, ListSame
  <2>. QED
    BY <1>2, <2>4
<1>. QED
  BY <1>3, <1>4

\* From the heap h with its strings s, read to n, to the heap g with z, read to p, the
\* items of T keep their names, and their values; those that waited have read theirs.
Carries(h, s, n, w, g, z, p, v, t, T) ==
  /\ n \in Nat /\ p \in {n, n + 1} /\ Names(t, p) = Names(t, n)
  /\ \A i \in T : /\ g[i].string = h[i].string /\ z[h[i].string] = s[h[i].string]
                  /\ i \notin w => /\ i \notin v /\ g[i].number = h[i].number
                                   /\ g[i].type = "num" <=> h[i].type = "num"
                  /\ i \in w => IF i \in v THEN p = n ELSE p = n + 1 /\ Valued(g, i, t[n])

\* Then they tell of as much of the text as before.
LEMMA TellsOn ==
  ASSUME NEW h, NEW s, NEW n, NEW w, NEW g, NEW z, NEW p, NEW v, NEW t, NEW T, NEW m,
         Carries(h, s, n, w, g, z, p, v, t, T), Tells(h, s, t, n, T, m, w)
  PROVE  Tells(g, z, t, p, T, m, v)
<1>1. /\ n \in Nat /\ p \in {n, n + 1} /\ Names(t, p) = Names(t, n)
      /\ \A i \in T : /\ g[i].string = h[i].string /\ z[h[i].string] = s[h[i].string]
                      /\ i \notin w => /\ i \notin v /\ g[i].number = h[i].number
                                       /\ g[i].type = "num" <=> h[i].type = "num"
                      /\ i \in w => IF i \in v THEN p = n ELSE p = n + 1 /\ Valued(g, i, t[n])
  BY DEF Carries
<1>2. /\ m \in [T -> Names(t, n)]
      /\ \A i, j \in T : i < j => m[i] < m[j]
      /\ \A k \in Names(t, n) : \E i \in T : m[i] = k
      /\ \A i \in T : Titled(h, s, i, t[m[i]])
      /\ \A i \in T : IF i \in w THEN m[i] = n - 2
                      ELSE m[i] + 2 < n /\ Valued(h, i, t[m[i] + 2])
  BY DEF Tells
<1>3. \A i \in T : Titled(g, z, i, t[m[i]])
  BY <1>1, <1>2 DEF Titled
<1>4. ASSUME NEW i \in T
      PROVE  IF i \in v THEN m[i] = p - 2 ELSE m[i] + 2 < p /\ Valued(g, i, t[m[i] + 2])
  <2>1. m[i] \in Nat
    <3>1. m[i] \in Names(t, n)
      BY <1>2
    <3>. QED
      BY <3>1 DEF Names
  <2>2. CASE i \in w
    <3>1. m[i] = n - 2
      BY <1>2, <2>2
    <3>2. CASE i \in v
      BY <1>1, <2>2, <3>1, <3>2
    <3>3. CASE i \notin v
      <4>1. p = n + 1 /\ Valued(g, i, t[n])
        BY <1>1, <2>2, <3>3
      <4>2. m[i] + 2 = n /\ m[i] + 2 < p
        BY <1>1, <2>1, <3>1, <4>1
      <4>. QED
        BY <3>3, <4>1, <4>2
    <3>. QED
      BY <3>2, <3>3
  <2>3. CASE i \notin w
    <3>1. m[i] + 2 < n /\ Valued(h, i, t[m[i] + 2]) /\ i \notin v
      BY <1>1, <1>2, <2>3
    <3>2. m[i] + 2 < p
      BY <1>1, <2>1, <3>1
    <3>3. Valued(g, i, t[m[i] + 2])
      BY <1>1, <2>3, <3>1 DEF Valued
    <3>. QED
      BY <3>1, <3>2, <3>3
  <2>. QED
    BY <2>2, <2>3
<1>. HIDE DEF Titled, Valued
<1>. QED
  BY <1>1, <1>2, <1>3, <1>4 DEF Tells

\* How far the text has been read, and what the tree tells of that.
FileInv == TextInv /\ Told

\* While the parser reads there is a root and more text.
LEMMA ReadingBasics ==
  ASSUME HeapInv, Reading
  PROVE  /\ root \in DOMAIN items /\ root # NULL /\ text \in Seq(TokenType)
         /\ pos \in 1 .. Len(text) /\ pos \in Nat \ {0} /\ Token = text[pos] /\ Token \in TokenType
<1>1. Underway \/ root # NULL
  BY DEF Reading, Underway
<1>2. root \in DOMAIN items /\ root # NULL
  <2>1. root = 1 /\ root \in DOMAIN items
    BY <1>1 DEF HeapInv, PlaceInv
  <2>. QED
    BY <2>1 DEF NULL
<1>3. jpc # "idle"
  BY DEF Reading
<1>4. text \in Seq(TokenType) /\ pos \in DOMAIN text /\ DOMAIN text = 1 .. Len(text)
  BY <1>3, LenProperties DEF HeapInv, ParserTypeOK
<1>5. Token \in TokenType
  BY <1>3, TextGoesOn DEF HeapInv
<1>6. Len(text) \in Nat
  BY <1>4, LenProperties
<1>. QED
  BY <1>2, <1>4, <1>5, <1>6 DEF Token

\* The depth behind a token that is read.
LEMMA DepthOn ==
  ASSUME HeapInv, FileInv, Reading, UNCHANGED text, pos' = pos + 1, stack # << >> \/ pos = 1
  PROVE  /\ Deep(text', pos' - 1) = Deep(text, pos) /\ \A j \in 1 .. pos' - 2 : Deep(text', j) >= 1
         /\ Token.k \in {"[", "{"} => Deep(text, pos) = Len(stack) + 1
         /\ Token.k \in {"]", "}"} => Deep(text, pos) = Len(stack) - 1
         /\ Token.k \notin {"[", "{"} \cup {"]", "}"} => Deep(text, pos) = Len(stack)
<1>1. /\ text \in Seq(TokenType) /\ pos \in 1 .. Len(text) /\ pos \in Nat \ {0} /\ Token = text[pos]
  BY ReadingBasics
<1>2. Deep(text, pos - 1) = Len(stack) /\ \A j \in 1 .. pos - 2 : Deep(text, j) >= 1
  BY DEF FileInv, TextInv
<1>3. stack # << >> => Len(stack) >= 1
  BY StackOrder
<1>4. pos' - 1 = pos
  BY <1>1
<1>5. ASSUME NEW j \in 1 .. pos' - 2 PROVE Deep(text', j) >= 1
  <2>1. j \in 1 .. pos - 2 \/ (j = pos - 1 /\ pos # 1)
    BY <1>1
  <2>. QED
    BY <1>2, <1>3, <2>1
<1>. HIDE DEF TokenType
<1>6. /\ Token.k \in {"[", "{"} => Deep(text, pos) = Deep(text, pos - 1) + 1
      /\ Token.k \in {"]", "}"} => Deep(text, pos) = Deep(text, pos - 1) - 1
      /\ Token.k \notin {"[", "{"} \cup {"]", "}"} => Deep(text, pos) = Deep(text, pos - 1)
  BY <1>1, DeepSteps
<1>. QED
  BY <1>2, <1>4, <1>5, <1>6

\* Nothing new is told by a step that keeps the names and reads no colon behind one.
LEMMA ToldOn ==
  ASSUME HeapInv, FileInv, Reading, UNCHANGED text, Titles' = Titles, pos' \in {pos, pos + 1},
         pos' = pos + 1 => Token.k # ":" \/ Deep(text, pos - 1) # 1,
         \A a \in DOMAIN strs : strs'[a] = strs[a],
         \A i \in Titles : items'[i].string = items[i].string,
         \A i \in Titles \ Awaited : /\ i \notin Awaited' /\ items'[i].number = items[i].number
                                     /\ items'[i].type = "num" <=> items[i].type = "num",
         \A i \in Titles \cap Awaited :
           i \notin Awaited' /\ pos' = pos + 1 /\ Valued(items', i, Token)
  PROVE  Told'
<1>1. /\ root \in DOMAIN items /\ pos \in Nat \ {0} /\ Token = text[pos]
  BY ReadingBasics
<1>2. PICK m : Tells(items, strs, text, pos, Titles, m, Awaited)
  BY DEF FileInv, Told
<1>3. Names(text, pos') = Names(text, pos)
  <2>. HIDE DEF Names
  <2>1. CASE pos' = pos
    BY <2>1
  <2>2. CASE pos' = pos + 1
    BY <1>1, <2>2, NamesStay
  <2>. QED
    BY <2>1, <2>2
<1>4. \A i \in Titles : strs'[items[i].string] = strs[items[i].string]
  <2>1. Titles \subseteq DOMAIN items /\ \A i \in Titles : items[i].string # NULL
    BY <1>1, OuterBounds DEF Titles
  <2>2. \A i \in Titles : items[i].string \in DOMAIN strs
    BY <2>1 DEF HeapInv, Owned
  <2>. QED
    BY <2>2
<1>5. Carries(items, strs, pos, Awaited, items', strs', pos', Awaited', text, Titles)
  <2>. HIDE DEF Titles, Awaited, Names, Valued
  <2>1. \A i \in Titles \cap Awaited : Valued(items', i, text[pos]) /\ i \notin Awaited' /\ pos' = pos + 1
    BY <1>1
  <2>2. pos \in Nat /\ pos' \in {pos, pos + 1}
    BY <1>1
  <2>. QED
    BY <1>3, <1>4, <2>1, <2>2 DEF Carries
<1>6. Tells(items', strs', text, pos', Titles, m, Awaited')
  <2>. HIDE DEF Titles, Awaited
  <2>. QED
    BY <1>2, <1>5, TellsOn
<1>7. Tells(items', strs', text', pos', Titles', m, Awaited')
  <2>. HIDE DEF Titles, Awaited
  <2>. QED
    BY <1>6
<1>8. \E x : Tells(items', strs', text', pos', Titles', x, Awaited')
  <2>. HIDE DEF Titles, Awaited
  <2>. QED
    BY <1>7
<1>. QED
  BY <1>8 DEF Told

\* What parse_value does with an item: its links, its name and the others stay.
LEMMA FilledItem ==
  ASSUME HeapInv, Literal \/ Number \/ StringValue
  PROVE  /\ item \in DOMAIN items /\ DOMAIN items' = DOMAIN items
         /\ \A j \in DOMAIN items : j # item => items'[j] = items[j]
         /\ items'[item].next = items[item].next /\ items'[item].child = items[item].child
         /\ items'[item].string = items[item].string /\ Valued(items', item, Token)
         /\ \A a \in DOMAIN strs : strs'[a] = strs[a]
<1>1. jpc = "value" /\ item \in DOMAIN items /\ items[item] \in ItemType /\ brk \notin DOMAIN strs
  <2>1. jpc = "value"
    BY DEF Literal, Number, StringValue
  <2>. QED
    BY <2>1, HeapBasics DEF HeapInv, PlaceInv, IsHeap
<1>2. ASSUME NEW x, items' = [items EXCEPT ![item] = x]
      PROVE  /\ DOMAIN items' = DOMAIN items /\ items'[item] = x
             /\ \A j \in DOMAIN items : j # item => items'[j] = items[j]
  BY <1>1, <1>2
<1>3. CASE Literal
  <2>1. /\ items' = [items EXCEPT ![item] = [items[item] EXCEPT !.type = Token.k]]
        /\ UNCHANGED strs /\ Token.k # "num"
    BY <1>3 DEF Literal, Fill
  <2>2. items'[item] = [items[item] EXCEPT !.type = Token.k]
    BY <1>2, <2>1
  <2>3. /\ items'[item].next = items[item].next /\ items'[item].child = items[item].child
        /\ items'[item].string = items[item].string /\ items'[item].type = Token.k
    BY <1>1, <2>2 DEF ItemType
  <2>4. Valued(items', item, Token)
    BY <2>1, <2>3 DEF Valued
  <2>. QED
    BY <1>1, <1>2, <2>1, <2>3, <2>4
<1>4. CASE Number
  <2>1. /\ items' = [items EXCEPT ![item] = [items[item] EXCEPT !.type = "num", !.number = Token.n]]
        /\ UNCHANGED strs /\ Token.k = "num"
    BY <1>4 DEF Number, Fill
  <2>2. items'[item] = [items[item] EXCEPT !.type = "num", !.number = Token.n]
    BY <1>2, <2>1
  <2>3. /\ items'[item].next = items[item].next /\ items'[item].child = items[item].child
        /\ items'[item].string = items[item].string /\ items'[item].type = "num"
        /\ items'[item].number = Token.n
    BY <1>1, <2>2 DEF ItemType
  <2>4. Valued(items', item, Token)
    BY <2>1, <2>3 DEF Valued
  <2>. QED
    BY <1>1, <1>2, <2>1, <2>3, <2>4
<1>5. CASE StringValue
  <2>1. /\ items' = [items EXCEPT ![item] = [items[item] EXCEPT !.type = "str", !.valuestring = brk]]
        /\ Token.k = "str"
    BY <1>5 DEF StringValue, String, Fill
  <2>2. items'[item] = [items[item] EXCEPT !.type = "str", !.valuestring = brk]
    BY <1>2, <2>1
  <2>3. /\ items'[item].next = items[item].next /\ items'[item].child = items[item].child
        /\ items'[item].string = items[item].string /\ items'[item].type = "str"
    BY <1>1, <2>2 DEF ItemType
  <2>4. Valued(items', item, Token)
    BY <2>1, <2>3 DEF Valued
  <2>5. \A a \in DOMAIN strs : strs'[a] = strs[a]
    BY <1>1, <1>5 DEF StringValue, String, Put
  <2>. QED
    BY <1>1, <1>2, <2>1, <2>3, <2>4, <2>5
<1>. QED
  BY <1>3, <1>4, <1>5

\* A value that is no list or object.
LEMMA FillTells ==
  ASSUME HeapInv, HeapInv', FileInv, Literal \/ Number \/ StringValue
  PROVE  FileInv'
<1>1. /\ jpc = "value" /\ jpc' = "after" /\ pos' = pos + 1 /\ UNCHANGED <<text, stack, item, root>>
      /\ Reading /\ Reading'
  BY DEF Literal, Number, StringValue, Fill, Reading
<1>2. Token.k \notin {"[", "{"} \cup {"]", "}"} /\ Token.k # ":"
  BY DEF Literal, Number, StringValue, String
<1>3. /\ item \in DOMAIN items /\ DOMAIN items' = DOMAIN items
      /\ \A j \in DOMAIN items : j # item => items'[j] = items[j]
      /\ items'[item].next = items[item].next /\ items'[item].child = items[item].child
      /\ items'[item].string = items[item].string /\ Valued(items', item, Token)
      /\ \A a \in DOMAIN strs : strs'[a] = strs[a]
  BY FilledItem
<1>4. /\ root \in DOMAIN items /\ pos \in Nat \ {0} /\ Token = text[pos] /\ text[1] = text'[1]
  BY <1>1, ReadingBasics
<1>5. Titles' = Titles
  <2>1. Start(items, root, stack)' = Start(items, root, stack)
    BY <1>1, <1>3, <1>4 DEF Start
  <2>2. Outermost(items, root, stack)' = Outermost(items, root, stack)
    <3>1. \A i \in Outermost(items, root, stack) : i \in DOMAIN items' /\ items'[i].next = items[i].next
      BY <1>3, <1>4, OuterBounds
    <3>. QED
      BY <1>4, <2>1, <3>1, OuterStays
  <2>3. \A i \in Outermost(items, root, stack) : items'[i].string = items[i].string
    BY <1>3, <1>4, OuterBounds
  <2>. HIDE DEF Outermost
  <2>. QED
    BY <1>1, <2>2, <2>3 DEF Titles
<1>6. Titles \subseteq DOMAIN items
  BY <1>4, OuterBounds DEF Titles
<1>7. Told'
  <2>1. Awaited = {item} /\ Awaited' = {}
    BY <1>1 DEF Awaited
  <2>2. \A i \in Titles : items'[i].string = items[i].string
    BY <1>3, <1>6
  <2>3. \A i \in Titles \ Awaited : /\ i \notin Awaited' /\ items'[i].number = items[i].number
                                    /\ items'[i].type = "num" <=> items[i].type = "num"
    BY <1>3, <1>6, <2>1
  <2>4. \A i \in Titles \cap Awaited :
          i \notin Awaited' /\ pos' = pos + 1 /\ Valued(items', i, Token)
    BY <1>1, <1>3, <2>1
  <2>. HIDE DEF Titles, Awaited
  <2>. QED
    BY <1>1, <1>2, <1>3, <1>5, <2>2, <2>3, <2>4, ToldOn
<1>8. TextInv'
  <2>1. stack = << >> => pos = 1
    BY <1>1 DEF FileInv, TextInv
  <2>2. Deep(text', pos' - 1) = Len(stack) /\ \A j \in 1 .. pos' - 2 : Deep(text', j) >= 1
    BY <1>1, <1>2, <2>1, DepthOn
  <2>3. \A f \in DOMAIN stack : items'[stack[f].item].type = "none"
    <3>1. ASSUME NEW f \in DOMAIN stack PROVE stack[f].item \in DOMAIN items /\ stack[f].item # item
      <4>1. stack[f].item \in DOMAIN items
        BY DEF HeapInv, Nested, OpenList
      <4>2. stack # << >> /\ item = Top.cur /\ item # NULL /\ item \in Nat
        <5>1. stack # << >>
          OBVIOUS
        <5>2. item = Top.cur
          BY <1>1, <5>1 DEF HeapInv, PlaceInv
        <5>3. item # NULL /\ item \in Nat
          BY <1>3, HeapBasics DEF IsHeap
        <5>. QED
          BY <5>1, <5>2, <5>3
      <4>3. stack[f].item < item
        <5>1. Len(stack) \in DOMAIN stack /\ f \in 1 .. Len(stack) /\ Top = stack[Len(stack)]
          BY <4>2, StackOrder
        <5>2. Top.head # NULL
          BY <4>2, <5>1 DEF HeapInv, Nested, OpenList
        <5>. QED
          BY <4>2, <5>1, <5>2, StackOrder
      <4>4. stack[f].item \in Nat
        BY <4>1, HeapBasics DEF IsHeap
      <4>. QED
        BY <4>1, <4>2, <4>3, <4>4
    <3>2. \A f \in DOMAIN stack : items[stack[f].item].type = "none"
      BY <1>1 DEF FileInv, TextInv
    <3>. QED
      BY <1>3, <3>1, <3>2
  <2>4. Titles' # {} => text'[1].k = "{"
    BY <1>1, <1>4, <1>5 DEF FileInv, TextInv
  <2>5. stack # << >> => stack[1].item = root /\ stack[1].kind = text[1].k
    BY <1>1 DEF FileInv, TextInv
  <2>6. pos' # 1
    BY <1>1, <1>4
  <2>. HIDE DEF Titles, Deep
  <2>. QED
    BY <1>1, <2>2, <2>3, <2>4, <2>5, <2>6 DEF TextInv
<1>. QED
  BY <1>7, <1>8 DEF FileInv

\* The name of a member is read; it does not count before the colon.
LEMMA NameTells ==
  ASSUME HeapInv, HeapInv', FileInv, Name
  PROVE  FileInv'
<1>1. /\ jpc = "name" /\ jpc' = "colon" /\ pos' = pos + 1 /\ UNCHANGED <<text, stack, item, root>>
      /\ Reading /\ Reading' /\ Token.k = "str" /\ WellFormed(Token.u)
      /\ strs' = Put(strs, brk, [s |-> Token.s, b |-> Unescaped(Token.u), size |-> Allocated(Token.u)])
      /\ items' = [items EXCEPT ![item] = [items[item] EXCEPT !.string = brk]]
  BY DEF Name, String, Reading
<1>2. Token.k \notin {"[", "{"} \cup {"]", "}"} /\ Token.k # ":"
  BY <1>1
<1>3. /\ item \in DOMAIN items /\ items[item] \in ItemType /\ brk \notin DOMAIN strs /\ brk # NULL
      /\ items[item].string = NULL
  BY <1>1, HeapBasics DEF HeapInv, PlaceInv, IsHeap
<1>4. /\ DOMAIN items' = DOMAIN items /\ \A j \in DOMAIN items : j # item => items'[j] = items[j]
      /\ items'[item] = [items[item] EXCEPT !.string = brk]
  BY <1>1, <1>3
<1>5. /\ items'[item].next = items[item].next /\ items'[item].child = items[item].child
      /\ items'[item].type = items[item].type /\ items'[item].string = brk
  BY <1>3, <1>4 DEF ItemType
<1>6. \A a \in DOMAIN strs : strs'[a] = strs[a]
  BY <1>1, <1>3 DEF Put
<1>7. /\ root \in DOMAIN items /\ pos \in Nat \ {0} /\ Token = text[pos] /\ text[1] = text'[1]
  BY <1>1, ReadingBasics
<1>8. Titles' = Titles /\ item \notin Titles
  <2>1. Start(items, root, stack)' = Start(items, root, stack)
    BY <1>1, <1>4, <1>5, <1>7 DEF Start
  <2>2. Outermost(items, root, stack)' = Outermost(items, root, stack)
    <3>1. \A i \in Outermost(items, root, stack) : i \in DOMAIN items' /\ items'[i].next = items[i].next
      BY <1>4, <1>5, <1>7, OuterBounds
    <3>. QED
      BY <1>7, <2>1, <3>1, OuterStays
  <2>3. \A i \in Outermost(items, root, stack) : i # item => items'[i].string = items[i].string
    BY <1>4, <1>7, OuterBounds
  <2>. HIDE DEF Outermost
  <2>. QED
    BY <1>1, <1>3, <2>2, <2>3 DEF Titles
<1>9. Titles \subseteq DOMAIN items
  BY <1>7, OuterBounds DEF Titles
<1>10. Told'
  <2>1. Awaited = {} /\ Awaited' = {}
    BY <1>1 DEF Awaited
  <2>2. \A i \in Titles : items'[i] = items[i]
    BY <1>4, <1>8, <1>9
  <2>. HIDE DEF Titles, Awaited
  <2>. QED
    BY <1>1, <1>2, <1>6, <1>8, <2>1, <2>2, ToldOn
<1>11. TextInv'
  <2>1. stack # << >>
    BY <1>1 DEF HeapInv, PlaceInv
  <2>2. Deep(text', pos' - 1) = Len(stack) /\ \A j \in 1 .. pos' - 2 : Deep(text', j) >= 1
    BY <1>1, <1>2, <2>1, DepthOn
  <2>3. \A f \in DOMAIN stack : items'[stack[f].item].type = "none"
    <3>1. \A f \in DOMAIN stack : stack[f].item \in DOMAIN items /\ items[stack[f].item].type = "none"
      BY <1>1 DEF FileInv, TextInv, HeapInv, Nested, OpenList
    <3>. QED
      BY <1>4, <1>5, <3>1
  <2>4. Titles' # {} => text'[1].k = "{"
    BY <1>1, <1>7, <1>8 DEF FileInv, TextInv
  <2>5. stack # << >> => stack[1].item = root /\ stack[1].kind = text[1].k
    BY <1>1 DEF FileInv, TextInv
  <2>6. items'[item].type = "none"
    BY <1>1, <1>5 DEF FileInv, TextInv
  <2>7. pos' > 1 /\ Titled(items', strs', item, text'[pos' - 1])
    <3>1. pos' > 1 /\ text'[pos' - 1] = Token
      BY <1>1, <1>7
    <3>2. strs'[brk].s = Token.s /\ strs'[brk].b = Unescaped(Token.u)
      BY <1>1 DEF Put
    <3>. QED
      BY <1>1, <1>3, <1>5, <3>1, <3>2 DEF Titled
  <2>8. pos' # 1
    BY <2>7, <1>7
  <2>. HIDE DEF Titles, Deep, Titled
  <2>. QED
    BY <1>1, <2>2, <2>3, <2>4, <2>5, <2>6, <2>7, <2>8 DEF TextInv
<1>. QED
  BY <1>10, <1>11 DEF FileInv

\* With the colon behind it the name is complete; its value is next.
LEMMA ColonTells ==
  ASSUME HeapInv, HeapInv', FileInv, Colon
  PROVE  FileInv'
<1>1. /\ jpc = "colon" /\ jpc' = "value" /\ pos' = pos + 1 /\ Reading /\ Reading'
      /\ UNCHANGED <<text, stack, item, root>> /\ items' = items /\ strs' = strs /\ Token.k = ":"
  BY DEF Colon, Reading
<1>2. Token.k \notin {"[", "{"} \cup {"]", "}"}
  BY <1>1
<1>3. /\ root \in DOMAIN items /\ pos \in Nat \ {0} /\ Token = text[pos] /\ text[1] = text'[1]
  BY <1>1, ReadingBasics
<1>4. /\ stack # << >> /\ Top.kind = "{" /\ item = Top.cur /\ item \in DOMAIN items
      /\ pos > 1 /\ Titled(items, strs, item, text[pos - 1]) /\ items[item].type = "none"
      /\ Deep(text, pos - 1) = Len(stack)
  BY <1>1 DEF HeapInv, PlaceInv, FileInv, TextInv
<1>5. /\ Len(stack) \in Nat \ {0} /\ Len(stack) \in DOMAIN stack /\ Top = stack[Len(stack)]
      /\ Top.head # NULL
  <2>1. Len(stack) \in Nat \ {0} /\ Len(stack) \in DOMAIN stack /\ Top = stack[Len(stack)]
    BY <1>4, StackOrder
  <2>2. item # NULL
    BY <1>4, HeapBasics DEF IsHeap
  <2>. QED
    BY <1>4, <2>1, <2>2 DEF HeapInv, Nested, OpenList
<1>. DEFINE M == Outermost(items, root, stack)
            Called == {i \in M : items[i].string # NULL}
<1>6. Titles = Called \ {item} /\ Titles' = Called
  BY <1>1 DEF Titles
<1>7. Awaited = {} /\ Awaited' = {item}
  BY <1>1 DEF Awaited
<1>8. text'[1].k = "{" \/ Titles' = {}
  <2>1. Titles # {} => text[1].k = "{"
    BY <1>1 DEF FileInv, TextInv
  <2>2. CASE Len(stack) = 1
    <3>1. text[1].k = "{"
      BY <1>1, <1>4, <1>5, <2>2 DEF FileInv, TextInv
    <3>. QED
      BY <1>3, <3>1
  <2>3. CASE Len(stack) # 1
    <3>4. item \notin M
      BY <1>3, <1>4, <1>5, <2>3, InnerItem
    <3>5. Titles' = Titles
      BY <1>6, <3>4
    <3>. QED
      BY <1>3, <2>1, <3>5
  <2>. QED
    BY <2>2, <2>3
<1>9. TextInv'
  <2>2. Deep(text', pos' - 1) = Len(stack) /\ \A j \in 1 .. pos' - 2 : Deep(text', j) >= 1
    BY <1>1, <1>2, <1>4, DepthOn
  <2>3. \A f \in DOMAIN stack : items[stack[f].item].type = "none"
    BY <1>1 DEF FileInv, TextInv
  <2>5. stack[1].item = root /\ stack[1].kind = text[1].k
    BY <1>1, <1>4 DEF FileInv, TextInv
  <2>6. items[item].string # NULL
    BY <1>4 DEF Titled
  <2>. HIDE DEF Titles, Deep, Titled
  <2>. QED
    BY <1>1, <1>4, <1>8, <2>2, <2>3, <2>5, <2>6 DEF TextInv
<1>10. Told'
  <2>1. CASE item \notin M
    <3>1. Titles' = Titles /\ item \notin Titles
      BY <1>6, <2>1
    <3>2. Len(stack) # 1
      <4>1. Len(stack) = 1 => item \in M
        BY <1>3, <1>4, <1>5, OuterBounds
      <4>. QED
        BY <2>1, <4>1
    <3>3. Deep(text, pos - 1) # 1
      BY <1>4, <3>2
    <3>. HIDE DEF Titles, Awaited, Deep
    <3>. QED
      BY <1>1, <1>7, <3>1, <3>3, ToldOn
  <2>2. CASE item \in M
    <3>1. Len(stack) = 1
      BY <1>3, <1>4, <1>5, <2>2, InnerItem
    <3>2. PICK m : Tells(items, strs, text, pos, Titles, m, Awaited)
      BY <1>1 DEF FileInv, Told
    <3>3. /\ text[pos - 1].k = "str" /\ text[pos].k = ":" /\ Deep(text, pos - 1) = 1
          /\ items[item].string # NULL
      BY <1>1, <1>3, <1>4, <3>1 DEF Titled
    <3>4. /\ Names(text, pos + 1) = Names(text, pos) \cup {pos - 1}
          /\ \A k \in Names(text, pos) : k \in Nat /\ k < pos - 1
      BY <1>3, <1>4, <3>3, NamesMore
    <3>5. Titles' = Titles \cup {item} /\ item \notin Titles
      BY <1>6, <2>2, <3>3
    <3>6. \A i \in Titles : i < item
      <4>1. \A i \in M : i <= item /\ i \in Nat
        <5>1. \A i \in M : i <= stack[1].cur
          BY <1>3, <1>4, OuterBounds
        <5>2. stack[1].cur = item
          BY <1>4, <1>5, <3>1
        <5>3. M \subseteq DOMAIN items /\ DOMAIN items \subseteq Nat
          BY <1>3, OuterBounds, HeapBasics DEF IsHeap
        <5>. QED
          BY <5>1, <5>2, <5>3
      <4>2. Titles \subseteq M /\ item \in Nat
        BY <1>6, <2>2, <4>1
      <4>. HIDE DEF M, Titles
      <4>. QED
        BY <3>5, <4>1, <4>2
    <3>. DEFINE x == [i \in Titles' |-> IF i = item THEN pos - 1 ELSE m[i]]
    <3>7. /\ m \in [Titles -> Names(text, pos)]
          /\ \A i, j \in Titles : i < j => m[i] < m[j]
          /\ \A k \in Names(text, pos) : \E i \in Titles : m[i] = k
          /\ \A i \in Titles : Titled(items, strs, i, text[m[i]])
          /\ \A i \in Titles : m[i] + 2 < pos /\ Valued(items, i, text[m[i] + 2])
      BY <1>7, <3>2 DEF Tells
    <3>. HIDE DEF Titles, Awaited, M, Names, Titled, Valued, Deep
    <3>8. x[item] = pos - 1 /\ \A i \in Titles : x[i] = m[i] /\ m[i] \in Names(text, pos)
      BY <3>5, <3>7
    <3>9. x \in [Titles' -> Names(text, pos + 1)]
      BY <3>4, <3>5, <3>8
    <3>. HIDE DEF x
    <3>10. \A i, j \in Titles' : i < j => x[i] < x[j]
      <4>1. ASSUME NEW i \in Titles', NEW j \in Titles', i < j PROVE x[i] < x[j]
        <5>1. i \in Nat /\ j \in Nat /\ item \in Nat
          <6>1. DOMAIN items \subseteq Nat /\ Titles \subseteq DOMAIN items
            BY <1>3, OuterBounds, HeapBasics DEF IsHeap, Titles
          <6>. QED
            BY <1>4, <3>5, <6>1
        <5>2. i \in Titles
          BY <3>5, <3>6, <4>1, <5>1
        <5>3. CASE j = item
          BY <3>4, <3>8, <5>2, <5>3
        <5>4. CASE j # item
          <6>1. j \in Titles
            BY <3>5, <5>4
          <6>. QED
            BY <3>7, <3>8, <4>1, <5>2, <6>1
        <5>. QED
          BY <5>3, <5>4
      <4>. QED
        BY <4>1
    <3>11. \A k \in Names(text, pos + 1) : \E i \in Titles' : x[i] = k
      BY <3>4, <3>5, <3>7, <3>8
    <3>12. \A i \in Titles' : Titled(items, strs, i, text[x[i]])
      BY <1>4, <3>5, <3>7, <3>8
    <3>13. \A i \in Titles' : IF i \in Awaited' THEN x[i] = (pos + 1) - 2
                              ELSE x[i] + 2 < pos + 1 /\ Valued(items, i, text[x[i] + 2])
      <4>1. x[item] = (pos + 1) - 2
        BY <1>3, <3>8
      <4>2. ASSUME NEW i \in Titles PROVE x[i] + 2 < pos + 1 /\ Valued(items, i, text[x[i] + 2])
        <5>1. x[i] = m[i] /\ x[i] \in Nat /\ m[i] + 2 < pos
          BY <3>4, <3>7, <3>8
        <5>. QED
          BY <1>3, <3>7, <5>1
      <4>. QED
        BY <1>7, <3>5, <4>1, <4>2
    <3>14. Tells(items, strs, text, pos + 1, Titles', x, Awaited')
      BY <3>9, <3>10, <3>11, <3>12, <3>13 DEF Tells
    <3>15. Tells(items', strs', text', pos', Titles', x, Awaited')
      BY <1>1, <3>14
    <3>16. \E y : Tells(items', strs', text', pos', Titles', y, Awaited')
      BY <3>15
    <3>. QED
      BY <3>16 DEF Told
  <2>. QED
    BY <2>1, <2>2
<1>. QED
  BY <1>9, <1>10 DEF FileInv

\* Steps that read nothing but commas, and those that fail.
LEMMA QuietTells ==
  ASSUME HeapInv, FileInv,
         \/ First \/ More \/ Accept
         \/ NoRoot \/ StringFails \/ NoValue \/ NoMember \/ NoName \/ NoColon \/ NoClose
         \/ Unwind \/ Refuse
  PROVE  FileInv'
<1>1. CASE First \/ More \/ Accept
  <2>1. /\ UNCHANGED <<text, stack, root, items, strs>> /\ jpc \in {"first", "after"} /\ Reading
        /\ jpc' \in {"member", "done"} /\ (jpc' = "done" => stack = << >> /\ pos' = pos)
        /\ pos' \in {pos, pos + 1} /\ (pos' = pos + 1 => stack # << >> /\ Token.k = ",")
        /\ stack # << >> \/ pos' = pos
    <3>1. CASE First
      <4>1. /\ UNCHANGED <<text, stack, root, items, strs>> /\ jpc = "first" /\ jpc' = "member" /\ pos' = pos
        BY <3>1 DEF First
      <4>2. pos # pos + 1
        <5>1. Reading
          BY <4>1 DEF Reading
        <5>. QED
          BY <5>1, ReadingBasics
      <4>. QED
        BY <4>1, <4>2 DEF Reading
    <3>2. CASE More
      BY <3>2 DEF More, Reading
    <3>3. CASE Accept
      <4>1. /\ UNCHANGED <<text, stack, root, items, strs>> /\ jpc = "after" /\ jpc' = "done" /\ pos' = pos
            /\ stack = << >>
        BY <3>3 DEF Accept
      <4>2. pos # pos + 1
        <5>1. Reading
          BY <4>1 DEF Reading
        <5>. QED
          BY <5>1, ReadingBasics
      <4>. QED
        BY <4>1, <4>2 DEF Reading
    <3>. QED
      BY <1>1, <3>1, <3>2, <3>3
  <2>2. /\ root \in DOMAIN items /\ root # NULL /\ pos \in Nat \ {0}
    BY <2>1, ReadingBasics
  <2>3. Reading'
    BY <2>1, <2>2 DEF Reading
  <2>4. Titles' = Titles
    BY <2>1 DEF Titles
  <2>5. Awaited = {} /\ Awaited' = {}
    BY <2>1 DEF Awaited
  <2>6. Told'
    <3>1. pos' = pos + 1 => Token.k # ":"
      BY <2>1
    <3>. HIDE DEF Titles, Awaited, Reading, Deep
    <3>. QED
      BY <2>1, <2>4, <2>5, <3>1, ToldOn
  <2>7. Deep(text', pos' - 1) = Len(stack) /\ \A j \in 1 .. pos' - 2 : Deep(text', j) >= 1
    <3>1. CASE pos' = pos
      BY <2>1, <3>1 DEF FileInv, TextInv
    <3>2. CASE pos' = pos + 1
      <4>1. Token.k \notin {"[", "{"} \cup {"]", "}"}
        BY <2>1, <3>2
      <4>2. UNCHANGED text /\ stack # << >>
        BY <2>1, <3>2
      <4>. QED
        BY <2>1, <3>2, <4>1, <4>2, DepthOn
    <3>. QED
      BY <2>1, <3>1, <3>2
  <2>8. /\ \A f \in DOMAIN stack : items[stack[f].item].type = "none"
        /\ Titles # {} => text[1].k = "{"
        /\ stack # << >> => stack[1].item = root /\ stack[1].kind = text[1].k
    BY <2>1 DEF FileInv, TextInv
  <2>9. TextInv'
    <3>1. pos' # 1
      <4>1. pos # 1
        <5>. HIDE DEF Titles, Deep, Reading
        <5>. QED
          BY <2>1 DEF FileInv, TextInv
      <4>2. pos' \in {pos, pos + 1}
        <5>. HIDE DEF Reading
        <5>. QED
          BY ONLY <2>1
      <4>3. pos \in Nat /\ pos >= 1
        BY ONLY <2>2
      <4>. QED
        BY ONLY <4>1, <4>2, <4>3
    <3>. HIDE DEF Titles, Deep, Reading
    <3>. QED
      BY <2>1, <2>4, <2>7, <2>8, <3>1 DEF TextInv
  <2>. QED
    BY <2>6, <2>9 DEF FileInv
<1>2. CASE ~ (First \/ More \/ Accept)
  <2>1. jpc' = "fail" \/ (jpc' = "done" /\ root' = NULL)
    <3>1. jpc = "start" => root = NULL
      BY DEF HeapInv, PlaceInv
    <3>2. CASE NoRoot
      BY <3>1, <3>2 DEF NoRoot
    <3>3. CASE StringFails \/ NoValue \/ NoMember \/ NoName \/ NoColon \/ NoClose
      BY <3>3 DEF StringFails, NoValue, NoMember, NoName, NoColon, NoClose, Fails
    <3>4. CASE Unwind \/ Refuse
      BY <3>4 DEF Unwind, Refuse
    <3>. QED
      BY <1>2, <3>2, <3>3, <3>4
  <2>2. ~ Reading' /\ jpc' \notin {"start", "value", "name", "colon"}
    BY <2>1 DEF Reading
  <2>. QED
    BY <2>2 DEF FileInv, TextInv, Told
<1>. QED
  BY <1>1, <1>2

\* A list or an object begins.
LEMMA OpenTells ==
  ASSUME HeapInv, HeapInv', FileInv, Open
  PROVE  FileInv'
<1>. DEFINE N == Len(stack)
            o == [item |-> item, kind |-> Token.k, head |-> NULL, cur |-> NULL]
<1>1. /\ jpc = "value" /\ jpc' = "first" /\ pos' = pos + 1 /\ Reading /\ Reading'
      /\ UNCHANGED <<text, items, strs, item, root>> /\ stack' = Append(stack, o)
  BY DEF Open, Reading
<1>2. Token.k \in {"[", "{"}
  BY DEF Open
<1>3. Token.k # ":" /\ Token.k # "num"
  BY <1>2
<1>4. /\ root \in DOMAIN items /\ pos \in Nat \ {0} /\ Token = text[pos]
  BY <1>1, ReadingBasics
<1>5. /\ item = (IF stack = << >> THEN root ELSE Top.cur) /\ items[item].child = NULL
      /\ items[item].type = "none" /\ (stack = << >> => pos = 1)
  BY <1>1 DEF HeapInv, PlaceInv, FileInv, TextInv
<1>6. o.item = item /\ o.head = NULL /\ o.kind = Token.k
  OBVIOUS
<1>7. /\ DOMAIN stack' = 1 .. N + 1 /\ Len(stack') = N + 1 /\ stack'[N + 1] = o /\ N \in Nat
      /\ \A f \in 1 .. N : stack'[f] = stack[f]
      /\ stack = << >> => N = 0
      /\ stack # << >> => N # 0
  <2>1. stack' \in Seq(FrameType) /\ stack \in Seq(FrameType)
    BY DEF HeapInv, ParserTypeOK
  <2>2. stack' = Append(stack, o)
    BY <1>1
  <2>3. stack # << >> => N # 0
    BY StackOrder
  <2>. HIDE DEF o, FrameType
  <2>. QED
    BY <2>1, <2>2, <2>3, AppendProperties, LenProperties
<1>. HIDE DEF o
<1>8. stack' # << >> /\ (stack # << >> => 1 \in 1 .. N /\ stack'[1] = stack[1])
      /\ (stack = << >> => stack'[1] = o)
  <2>1. Len(stack') # 0
    BY <1>7
  <2>. HIDE DEF N
  <2>. QED
    BY <1>7, <2>1
<1>9. Titles' = Titles
  <2>1. Start(items', root', stack') = Start(items, root, stack)
    BY <1>1, <1>5, <1>6, <1>8 DEF Start
  <2>2. Outermost(items', root', stack') = Outermost(items, root, stack)
    BY <1>1, <2>1 DEF Outermost
  <2>. HIDE DEF Outermost
  <2>. QED
    BY <1>1, <2>2 DEF Titles
<1>10. Told'
  <2>1. Awaited = {item} /\ Awaited' = {}
    BY <1>1 DEF Awaited
  <2>2. Valued(items', item, Token)
    BY <1>1, <1>3, <1>5 DEF Valued
  <2>. HIDE DEF Titles, Awaited, Valued
  <2>. QED
    BY <1>1, <1>3, <1>9, <2>1, <2>2, ToldOn
<1>11. TextInv'
  <2>1. Deep(text', pos' - 1) = Len(stack') /\ \A j \in 1 .. pos' - 2 : Deep(text', j) >= 1
    BY <1>1, <1>2, <1>5, <1>7, DepthOn
  <2>2. \A f \in DOMAIN stack' : items'[stack'[f].item].type = "none"
    <3>1. \A f \in 1 .. N : items[stack[f].item].type = "none"
      <4>1. \A f \in DOMAIN stack : items[stack[f].item].type = "none"
        BY <1>1 DEF FileInv, TextInv
      <4>2. DOMAIN stack = 1 .. N
        BY LenProperties DEF HeapInv, ParserTypeOK
      <4>. QED
        BY <4>1, <4>2
    <3>2. \A f \in 1 .. N + 1 : f \in 1 .. N \/ f = N + 1
      BY <1>7
    <3>. HIDE DEF N
    <3>. QED
      BY <1>1, <1>5, <1>6, <1>7, <3>1, <3>2
  <2>3. stack'[1].item = root' /\ stack'[1].kind = text'[1].k
    <3>1. stack # << >> => stack[1].item = root /\ stack[1].kind = text[1].k
      BY <1>1 DEF FileInv, TextInv
    <3>. QED
      BY <1>1, <1>4, <1>5, <1>6, <1>8, <3>1
  <2>4. Titles' # {} => text'[1].k = "{"
    <3>1. Titles # {} => text[1].k = "{"
      BY <1>1 DEF FileInv, TextInv
    <3>. HIDE DEF Titles
    <3>. QED
      BY <1>1, <1>9, <3>1
  <2>5. pos' # 1
    BY <1>1, <1>4
  <2>. HIDE DEF Titles, Deep
  <2>. QED
    BY <1>1, <2>1, <2>2, <2>3, <2>4, <2>5 DEF TextInv
<1>. QED
  BY <1>10, <1>11 DEF FileInv

\* The root is made, and nothing of the text has been read.
LEMMA RootTells ==
  ASSUME HeapInv, FileInv, NewRoot
  PROVE  FileInv'
<1>1. /\ jpc = "start" /\ jpc' = "value" /\ pos' = pos /\ pos = 1 /\ UNCHANGED <<text, stack>>
      /\ items' = Put(items, brk, Blank) /\ root' = brk /\ item' = brk /\ stack = << >>
  BY DEF NewRoot, FileInv, TextInv, HeapInv, PlaceInv, Underway
<1>2. items'[brk] = Blank
  BY <1>1 DEF Put
<1>3. items'[brk].type = "none" /\ items'[brk].child = NULL
  BY <1>2 DEF Blank
<1>4. Outermost(items', root', stack') = {} /\ Titles' = {}
  <2>1. Start(items', root', stack') = NULL
    BY <1>1, <1>3 DEF Start
  <2>2. Outermost(items', root', stack') = {}
    BY <2>1, ListNull DEF Outermost
  <2>. QED
    BY <2>2 DEF Titles
<1>5. Names(text', pos') = {}
  BY <1>1 DEF Names
<1>6. Told'
  <2>. DEFINE x == [i \in {} |-> 0]
  <2>1. x \in [Titles' -> Names(text', pos')]
    BY <1>4
  <2>2. Tells(items', strs', text', pos', Titles', x, Awaited')
    <3>. HIDE DEF x, Titles, Awaited
    <3>. QED
      BY <1>4, <1>5, <2>1 DEF Tells
  <2>3. \E y : Tells(items', strs', text', pos', Titles', y, Awaited')
    <3>. HIDE DEF x, Titles, Awaited
    <3>. QED
      BY <2>2
  <2>. QED
    BY <2>3 DEF Told
<1>7. TextInv'
  <2>1. Deep(text', pos' - 1) = Len(stack') /\ DOMAIN stack' = {}
    <3>1. pos' - 1 = 0 /\ Len(stack') = 0 /\ DOMAIN stack' = {}
      BY <1>1
    <3>. QED
      BY <3>1, DeepStarts
  <2>2. \A j \in 1 .. pos' - 2 : Deep(text', j) >= 1
    BY <1>1
  <2>. HIDE DEF Titles, Deep
  <2>. QED
    BY <1>1, <1>3, <1>4, <2>1, <2>2 DEF TextInv
<1>. QED
  BY <1>6, <1>7 DEF FileInv

\* A member begins, at the end of its list; it has no name and no value yet.
LEMMA AddedItem ==
  ASSUME HeapInv, Member
  PROVE  LET N == Len(stack)
         IN /\ stack # << >> /\ N \in Nat \ {0} /\ Top = stack[N]
            /\ DOMAIN stack = 1 .. N /\ DOMAIN stack' = 1 .. N /\ Len(stack') = N /\ stack' # << >>
            /\ \A f \in 1 .. N - 1 : stack'[f] = stack[f]
            /\ stack'[N].item = Top.item /\ stack'[N].kind = Top.kind
            /\ stack'[N].head = (IF Top.head = NULL THEN brk ELSE Top.head)
            /\ DOMAIN items' = DOMAIN items \cup {brk} /\ brk \notin DOMAIN items /\ brk # NULL
            /\ items'[brk].string = NULL /\ items'[brk].type = "none" /\ items'[brk].next = NULL
            /\ \A i \in DOMAIN items :
                 /\ items'[i].string = items[i].string /\ items'[i].type = items[i].type
                 /\ items'[i].number = items[i].number /\ items'[i].child = items[i].child
                 /\ items'[i].next = (IF Top.head # NULL /\ i = Top.cur THEN brk ELSE items[i].next)
<1>. DEFINE N == Len(stack)
<1>1. /\ ParserTypeOK /\ stack # << >> /\ items \in [DOMAIN items -> ItemType]
      /\ brk \notin DOMAIN items /\ brk # NULL
  BY HeapBasics DEF HeapInv, PlaceInv, ParserTypeOK, Member
<1>2. N \in Nat \ {0} /\ Top = stack[N] /\ DOMAIN stack = 1 .. N
  BY <1>1, StackOrder
<1>3. Top \in FrameType /\ brk \in Nat
  BY <1>1, TopType DEF ParserTypeOK
<1>4. Top.head # NULL => Top.cur \in DOMAIN items /\ items[Top.cur].next = NULL
  <2>1. N \in DOMAIN stack
    BY <1>2
  <2>. QED
    BY <1>2, <2>1 DEF HeapInv, Nested, OpenList
<1>. HIDE DEF N
<1>5. CASE Top.head = NULL
  <2>. DEFINE o == [Top EXCEPT !.head = brk, !.cur = brk]
  <2>1. /\ o \in FrameType /\ o.item = Top.item /\ o.kind = Top.kind /\ o.head = brk
    BY <1>3 DEF FrameType
  <2>2. items' = Put(items, brk, Blank) /\ stack' = Append(Outer, o)
    BY <1>5 DEF Member
  <2>. HIDE DEF o
  <2>3. /\ DOMAIN stack' = 1 .. N /\ stack'[N] = o /\ Len(stack') = N /\ stack' # << >>
        /\ \A f \in 1 .. N - 1 : stack'[f] = stack[f]
    BY <1>1, <2>1, <2>2, TopChanges DEF N
  <2>4. /\ DOMAIN items' = DOMAIN items \cup {brk} /\ items'[brk] = Blank
        /\ \A i \in DOMAIN items : items'[i] = items[i]
    BY <1>1, <2>2 DEF Put
  <2>5. items'[brk].string = NULL /\ items'[brk].type = "none" /\ items'[brk].next = NULL
    BY <2>4 DEF Blank
  <2>. QED
    BY <1>1, <1>2, <1>5, <2>1, <2>3, <2>4, <2>5 DEF N
<1>6. CASE Top.head # NULL
  <2>. DEFINE o == [Top EXCEPT !.cur = brk]
              b == [Blank EXCEPT !.prev = Top.cur]
              l == [items EXCEPT ![Top.cur] = [items[Top.cur] EXCEPT !.next = brk]]
  <2>1. /\ o \in FrameType /\ o.item = Top.item /\ o.kind = Top.kind /\ o.head = Top.head
    BY <1>3 DEF FrameType
  <2>2. items' = Put(l, brk, b) /\ stack' = Append(Outer, o)
    BY <1>6 DEF Member
  <2>3. b.string = NULL /\ b.type = "none" /\ b.next = NULL
    BY DEF Blank
  <2>4. /\ DOMAIN l = DOMAIN items
        /\ \A i \in DOMAIN items :
             /\ l[i].string = items[i].string /\ l[i].type = items[i].type
             /\ l[i].number = items[i].number /\ l[i].child = items[i].child
             /\ l[i].next = (IF i = Top.cur THEN brk ELSE items[i].next)
    <3>1. /\ DOMAIN l = DOMAIN items /\ \A i \in DOMAIN items : i # Top.cur => l[i] = items[i]
          /\ l[Top.cur] = [items[Top.cur] EXCEPT !.next = brk]
      BY <1>1, <1>4, <1>6
    <3>2. items[Top.cur] \in ItemType
      BY <1>1, <1>4, <1>6
    <3>3. LET c == Top.cur
          IN /\ l[c].string = items[c].string /\ l[c].type = items[c].type
             /\ l[c].number = items[c].number /\ l[c].child = items[c].child
             /\ l[c].next = brk
      BY <3>1, <3>2 DEF ItemType
    <3>. HIDE DEF l
    <3>. QED
      BY <3>1, <3>3
  <2>. HIDE DEF o, b, l
  <2>5. /\ DOMAIN stack' = 1 .. N /\ stack'[N] = o /\ Len(stack') = N /\ stack' # << >>
        /\ \A f \in 1 .. N - 1 : stack'[f] = stack[f]
    BY <1>1, <2>1, <2>2, TopChanges DEF N
  <2>6. /\ DOMAIN items' = DOMAIN items \cup {brk} /\ items'[brk] = b
        /\ \A i \in DOMAIN items : items'[i] = l[i]
    BY <1>1, <2>2, <2>4 DEF Put
  <2>. QED
    BY <1>1, <1>2, <1>6, <2>1, <2>3, <2>4, <2>5, <2>6 DEF N
<1>. QED
  BY <1>5, <1>6

\* It makes no name and takes none away.
LEMMA MemberTells ==
  ASSUME HeapInv, HeapInv', FileInv, Member
  PROVE  FileInv'
<1>. DEFINE N == Len(stack)
            M == Outermost(items, root, stack)
<1>1. /\ jpc = "member" /\ pos' = pos /\ Reading /\ UNCHANGED <<text, strs, root>> /\ item' = brk
      /\ jpc' = (IF Top.kind = "[" THEN "value" ELSE "name")
  BY DEF Member, Reading
<1>2. Reading' /\ jpc' \in {"value", "name"} /\ (jpc' = "value" => Top.kind = "[")
  BY <1>1 DEF Reading
<1>3. /\ root \in DOMAIN items /\ pos \in Nat \ {0} /\ stack # << >>
      /\ M \subseteq DOMAIN items /\ \A i \in M : items[i].next \in DOMAIN items \cup {NULL}
  <2>1. stack # << >>
    BY AddedItem
  <2>. QED
    BY <1>1, <2>1, ReadingBasics, OuterBounds
<1>4. /\ N \in Nat \ {0} /\ Top = stack[N] /\ DOMAIN stack = 1 .. N /\ DOMAIN stack' = 1 .. N
      /\ Len(stack') = N /\ stack' # << >> /\ \A f \in 1 .. N - 1 : stack'[f] = stack[f]
      /\ stack'[N].item = Top.item /\ stack'[N].kind = Top.kind
      /\ stack'[N].head = (IF Top.head = NULL THEN brk ELSE Top.head)
  BY AddedItem
<1>5. /\ DOMAIN items' = DOMAIN items \cup {brk} /\ brk \notin DOMAIN items /\ brk # NULL
      /\ items'[brk].string = NULL /\ items'[brk].type = "none" /\ items'[brk].next = NULL
      /\ \A i \in DOMAIN items :
           /\ items'[i].string = items[i].string /\ items'[i].type = items[i].type
           /\ items'[i].number = items[i].number /\ items'[i].child = items[i].child
           /\ items'[i].next = (IF Top.head # NULL /\ i = Top.cur THEN brk ELSE items[i].next)
  BY AddedItem
<1>. HIDE DEF N
<1>6. \A i : i # brk => (i \in Outermost(items', root', stack') <=> i \in M)
  <2>1. CASE N # 1
    <3>1. 1 \in 1 .. N - 1 /\ stack'[1] = stack[1]
      BY <1>4, <2>1
    <3>2. Start(items, root, stack)' = Start(items, root, stack)
      BY <1>3, <1>4, <3>1 DEF Start
    <3>3. \A i \in M : i \in DOMAIN items' /\ items'[i].next = items[i].next
      <4>1. Top.head # NULL => Top.cur \notin M
        BY <1>3, <2>1, InnerItem DEF N
      <4>. HIDE DEF M
      <4>. QED
        BY <1>3, <1>5, <4>1
    <3>4. Outermost(items, root, stack)' = Outermost(items, root, stack)
      BY <1>3, <3>2, <3>3, OuterStays
    <3>. QED
      BY <3>4
  <2>2. CASE N = 1 /\ Top.head = NULL
    <3>1. M = {}
      <4>1. Start(items, root, stack) = NULL
        BY <1>3, <1>4, <2>2 DEF Start
      <4>. QED
        BY <1>3, <4>1, OuterBounds
    <3>2. Outermost(items', root', stack') = List(items', brk)
      BY <1>4, <2>2 DEF Outermost, Start
    <3>3. List(items', brk) \subseteq {brk}
      <4>1. {brk} \in SUBSET DOMAIN items' /\ \A k \in {brk} : items'[k].next # NULL => items'[k].next \in {brk}
        BY <1>5
      <4>. QED
        BY <1>5, <4>1, ListLeast
    <3>. QED
      BY <3>1, <3>2, <3>3
  <2>3. CASE N = 1 /\ Top.head # NULL
    <3>. DEFINE c == Top.head
    <3>1. Outermost(items', root', stack') = List(items', c) /\ M = List(items, c)
      BY <1>3, <1>4, <2>3 DEF Outermost, Start
    <3>2. c \in DOMAIN items /\ c \in DOMAIN items' /\ Top.cur \in DOMAIN items /\ items[Top.cur].next = NULL
      <4>1. N \in DOMAIN stack
        BY <1>4
      <4>. QED
        BY <1>4, <1>5, <2>3, <4>1 DEF HeapInv, Nested, OpenList
    <3>3. IsHeap(items) /\ IsHeap(items') /\ Linked(items, stack)
      <4>1. IsHeap(items)
        BY HeapBasics
      <4>2. ParserTypeOK'
        BY DEF HeapInv
      <4>3. /\ brk' \in Nat \ {0} /\ DOMAIN items' \subseteq 1 .. brk' - 1
            /\ items' \in [DOMAIN items' -> ItemType]
        BY <4>2 DEF ParserTypeOK
      <4>4. \A i \in 1 .. brk' - 1 : i \in Nat \ {NULL}
        BY <4>3 DEF NULL
      <4>. QED
        BY <4>1, <4>3, <4>4 DEF IsHeap, HeapInv
    <3>4. \A k \in DOMAIN items : /\ items[k].next \in DOMAIN items \cup {NULL}
                                  /\ items[k].next # NULL => items'[k].next = items[k].next
      BY <1>5, <3>2, <3>3 DEF Linked
    <3>5. M \subseteq List(items', c)
      <4>1. DOMAIN items \subseteq DOMAIN items'
        BY <1>5
      <4>. HIDE DEF c
      <4>. QED
        BY <3>1, <3>2, <3>3, <3>4, <4>1, ListGrows
    <3>6. List(items', c) \subseteq M \cup {brk}
      <4>. DEFINE S == M \cup {brk}
      <4>1. c \in M /\ \A k \in M : items[k].next # NULL => items[k].next \in M
        <5>. HIDE DEF c
        <5>. QED
          BY <3>1, <3>2, <3>3, <3>4, ListIn
      <4>. HIDE DEF M, c
      <4>2. c \in S /\ S \in SUBSET DOMAIN items' /\ \A k \in S : items'[k].next # NULL => items'[k].next \in S
        BY <1>3, <1>5, <4>1
      <4>. HIDE DEF S
      <4>3. List(items', c) \subseteq S
        BY <3>2, <4>2, ListLeast
      <4>. QED
        BY <4>3 DEF S
    <3>. HIDE DEF M, c
    <3>. QED
      BY <3>1, <3>5, <3>6
  <2>. QED
    BY <2>1, <2>2, <2>3
<1>7. Titles' = Titles /\ brk \notin Titles
  <2>1. Titles = {i \in M : items[i].string # NULL}
    BY <1>1 DEF Titles
  <2>2. Titles' = {i \in Outermost(items', root', stack') : items'[i].string # NULL}
    BY <1>2 DEF Titles
  <2>. HIDE DEF M, Titles
  <2>. QED
    BY <1>3, <1>5, <1>6, <2>1, <2>2
<1>8. Told'
  <2>1. Awaited = {} /\ Awaited' \subseteq {brk}
    BY <1>1 DEF Awaited
  <2>2. Titles \subseteq DOMAIN items
    BY <1>3 DEF Titles
  <2>3. pos' # pos + 1
    BY <1>1, <1>3
  <2>4. \A i \in Titles : /\ items'[i].string = items[i].string /\ items'[i].type = items[i].type
                          /\ items'[i].number = items[i].number
    BY <1>5, <2>2
  <2>. HIDE DEF Titles, Awaited, M
  <2>. QED
    BY <1>1, <1>7, <2>1, <2>3, <2>4, ToldOn
<1>9. TextInv'
  <2>1. Deep(text', pos' - 1) = Len(stack') /\ \A j \in 1 .. pos' - 2 : Deep(text', j) >= 1
    BY <1>1, <1>4 DEF FileInv, TextInv, N
  <2>2. \A f \in DOMAIN stack' : items'[stack'[f].item].type = "none"
    <3>1. \A f \in DOMAIN stack : stack[f].item \in DOMAIN items /\ items[stack[f].item].type = "none"
      BY <1>1 DEF FileInv, TextInv, HeapInv, Nested, OpenList
    <3>2. \A f \in 1 .. N : stack'[f].item = stack[f].item
      <4>1. \A f \in 1 .. N : f \in 1 .. N - 1 \/ f = N
        BY <1>4
      <4>. QED
        BY <1>4, <4>1
    <3>. QED
      BY <1>4, <1>5, <3>1, <3>2
  <2>3. stack'[1].item = root' /\ stack'[1].kind = text'[1].k
    <3>1. stack[1].item = root /\ stack[1].kind = text[1].k
      BY <1>1, <1>3 DEF FileInv, TextInv
    <3>2. stack'[1].item = stack[1].item /\ stack'[1].kind = stack[1].kind
      <4>1. N = 1 \/ 1 \in 1 .. N - 1
        BY <1>4
      <4>. QED
        BY <1>4, <4>1
    <3>. QED
      BY <1>1, <3>1, <3>2
  <2>4. Titles' # {} => text'[1].k = "{"
    <3>1. Titles # {} => text[1].k = "{"
      BY <1>1 DEF FileInv, TextInv
    <3>. HIDE DEF Titles
    <3>. QED
      BY <1>1, <1>7, <3>1
  <2>5. jpc' = "value" => Top'.kind # "{"
    <3>1. Top' = stack'[N]
      BY <1>4 DEF Top
    <3>. QED
      BY <1>2, <1>4, <3>1
  <2>6. pos' # 1
    BY <1>1 DEF FileInv, TextInv
  <2>. HIDE DEF Titles, Deep, M
  <2>. QED
    BY <1>1, <1>2, <1>4, <1>5, <2>1, <2>2, <2>3, <2>4, <2>5, <2>6 DEF TextInv
<1>. QED
  BY <1>8, <1>9 DEF FileInv

\* A list or an object is complete: its item becomes one, and leads to its members.
LEMMA ClosedItem ==
  ASSUME HeapInv, Close
  PROVE  LET N == Len(stack)
         IN /\ stack # << >> /\ N \in Nat \ {0} /\ Top = stack[N] /\ Top \in FrameType
            /\ DOMAIN stack = 1 .. N /\ DOMAIN stack' = 1 .. N - 1 /\ Len(stack') = N - 1
            /\ \A f \in 1 .. N - 1 : stack'[f] = stack[f]
            /\ (N = 1 => stack' = << >>) /\ (N # 1 => stack' # << >>)
            /\ DOMAIN items' = DOMAIN items /\ Top.item \in DOMAIN items
            /\ \A i \in DOMAIN items :
                 /\ items'[i].string = items[i].string /\ items'[i].number = items[i].number
                 /\ items'[i].next = items[i].next
                 /\ items'[i].type = (IF i = Top.item THEN Top.kind ELSE items[i].type)
                 /\ items'[i].child = (IF i = Top.item THEN Top.head ELSE items[i].child)
<1>. DEFINE N == Len(stack)
            linked == IF Top.head = NULL THEN items ELSE [items EXCEPT ![Top.head].prev = Top.cur]
<1>1. ParserTypeOK /\ stack # << >> /\ items \in [DOMAIN items -> ItemType]
  BY DEF HeapInv, ParserTypeOK, Close
<1>2. N \in Nat \ {0} /\ Top = stack[N] /\ DOMAIN stack = 1 .. N /\ Top \in FrameType
  BY <1>1, StackOrder, TopType
<1>3. OpenList(items, Top)
  <2>1. N \in DOMAIN stack
    BY <1>2
  <2>. QED
    BY <1>2, <2>1 DEF HeapInv, Nested
<1>4. /\ stack' = Outer
      /\ items' = [linked EXCEPT ![Top.item] = [linked[Top.item] EXCEPT !.type = Top.kind,
                                                                        !.child = Top.head]]
  BY DEF Close
<1>5. /\ DOMAIN stack' = 1 .. N - 1 /\ Len(stack') = N - 1
      /\ \A f \in 1 .. N - 1 : stack'[f] = stack[f]
  BY <1>1, <1>4, TopType
<1>6. (N = 1 => stack' = << >>) /\ (N # 1 => stack' # << >>)
  <2>1. Outer \in Seq(FrameType) /\ Len(stack') = N - 1 /\ stack' = Outer
    BY <1>1, <1>4, <1>5, TopType
  <2>. HIDE DEF N, FrameType
  <2>2. N = 1 => Len(Outer) = 0
    BY <2>1
  <2>3. N # 1 => Len(Outer) # 0
    BY <1>2, <2>1
  <2>. QED
    BY <2>1, <2>2, <2>3, EmptySeq
<1>7. /\ DOMAIN linked = DOMAIN items
      /\ \A i \in DOMAIN items :
           /\ linked[i] \in ItemType
           /\ linked[i].string = items[i].string /\ linked[i].number = items[i].number
           /\ linked[i].next = items[i].next /\ linked[i].type = items[i].type
           /\ linked[i].child = items[i].child
  <2>1. CASE Top.head = NULL
    BY <1>1, <2>1
  <2>2. CASE Top.head # NULL
    <3>. DEFINE c == Top.head
                x == [items[c] EXCEPT !.prev = Top.cur]
    <3>1. c \in DOMAIN items
      BY <1>3, <2>2 DEF OpenList
    <3>2. items[c] \in ItemType
      BY <1>1, <3>1
    <3>3. x \in ItemType /\ x.string = items[c].string /\ x.number = items[c].number
          /\ x.next = items[c].next /\ x.type = items[c].type /\ x.child = items[c].child
      <4>1. Top.cur \in Nat
        BY <1>2 DEF FrameType
      <4>. QED
        BY <3>2, <4>1 DEF ItemType
    <3>4. linked = [items EXCEPT ![c] = x]
      BY <2>2
    <3>. HIDE DEF c, x, linked
    <3>. QED
      BY <1>1, <3>1, <3>3, <3>4
  <2>. QED
    BY <2>1, <2>2
<1>. DEFINE y == [linked[Top.item] EXCEPT !.type = Top.kind, !.child = Top.head]
<1>. HIDE DEF linked, N
<1>8. Top.item \in DOMAIN items
  BY <1>3 DEF OpenList
<1>9. /\ y.string = linked[Top.item].string /\ y.number = linked[Top.item].number
      /\ y.next = linked[Top.item].next /\ y.type = Top.kind /\ y.child = Top.head
  <2>1. linked[Top.item] \in ItemType
    BY <1>7, <1>8
  <2>. QED
    BY <2>1 DEF ItemType
<1>10. /\ DOMAIN items' = DOMAIN items /\ items'[Top.item] = y
       /\ \A i \in DOMAIN items : i # Top.item => items'[i] = linked[i]
  BY <1>4, <1>7, <1>8
<1>. HIDE DEF y
<1>. QED
  BY <1>1, <1>2, <1>5, <1>6, <1>7, <1>8, <1>9, <1>10 DEF N

\* With the outermost list what it told is told by the children of the root.
LEMMA CloseTells ==
  ASSUME HeapInv, HeapInv', FileInv, Close
  PROVE  FileInv'
<1>. DEFINE N == Len(stack)
            M == Outermost(items, root, stack)
<1>1. /\ jpc \in {"first", "after"} /\ jpc' = "after" /\ pos' = pos + 1 /\ Reading /\ Reading'
      /\ UNCHANGED <<text, strs, root>>
  BY DEF Close, Reading
<1>2. Token.k \in {"]", "}"}
  BY DEF Close, Closing
<1>3. Token.k # ":"
  BY <1>2
<1>4. /\ stack # << >> /\ N \in Nat \ {0} /\ Top = stack[N] /\ Top \in FrameType
      /\ DOMAIN stack = 1 .. N /\ DOMAIN stack' = 1 .. N - 1 /\ Len(stack') = N - 1
      /\ \A f \in 1 .. N - 1 : stack'[f] = stack[f]
      /\ (N = 1 => stack' = << >>) /\ (N # 1 => stack' # << >>)
  BY ClosedItem
<1>5. /\ DOMAIN items' = DOMAIN items /\ Top.item \in DOMAIN items
      /\ \A i \in DOMAIN items :
           /\ items'[i].string = items[i].string /\ items'[i].number = items[i].number
           /\ items'[i].next = items[i].next
           /\ items'[i].type = (IF i = Top.item THEN Top.kind ELSE items[i].type)
           /\ items'[i].child = (IF i = Top.item THEN Top.head ELSE items[i].child)
  BY ClosedItem
<1>6. /\ root \in DOMAIN items /\ pos \in Nat \ {0} /\ M \subseteq DOMAIN items
  BY <1>1, ReadingBasics, OuterBounds
<1>7. /\ stack[1].item = root /\ stack[1].kind = text[1].k
      /\ \A f \in 1 .. N : items[stack[f].item].type = "none"
  BY <1>1, <1>4 DEF FileInv, TextInv
<1>8. N \in 1 .. N /\ (N # 1 => 1 \in 1 .. N - 1)
  BY <1>4
<1>9. Titles' = Titles
  <2>1. Start(items, root, stack)' = Start(items, root, stack)
    <3>1. CASE N = 1
      <4>1. stack' = << >> /\ Top = stack[1] /\ Top.item = root
        BY <1>4, <1>7, <3>1
      <4>2. items'[root].child = stack[1].head
        BY <1>5, <4>1
      <4>. QED
        BY <1>1, <1>4, <4>1, <4>2 DEF Start
    <3>2. CASE N # 1
      <4>1. stack' # << >> /\ stack'[1] = stack[1]
        BY <1>4, <1>8, <3>2
      <4>. QED
        BY <1>4, <4>1 DEF Start
    <3>. QED
      BY <3>1, <3>2
  <2>2. Outermost(items, root, stack)' = Outermost(items, root, stack)
    <3>1. \A i \in M : i \in DOMAIN items' /\ items'[i].next = items[i].next
      BY <1>5, <1>6
    <3>. QED
      BY <1>6, <2>1, <3>1, OuterStays
  <2>3. \A i \in M : items'[i].string = items[i].string
    BY <1>5, <1>6
  <2>. HIDE DEF Outermost
  <2>. QED
    BY <1>1, <2>2, <2>3 DEF Titles
<1>10. Told'
  <2>1. Awaited = {} /\ Awaited' = {}
    BY <1>1 DEF Awaited
  <2>2. Titles \subseteq DOMAIN items
    BY <1>6 DEF Titles
  <2>3. \A i \in Titles : /\ items'[i].string = items[i].string
                          /\ items'[i].number = items[i].number
    BY <1>5, <2>2
  <2>4. \A i \in Titles : items'[i].type = "num" <=> items[i].type = "num"
    <3>1. Top.kind # "num"
      BY <1>4 DEF FrameType
    <3>2. items[Top.item].type = "none"
      BY <1>4, <1>7, <1>8
    <3>3. items[Top.item].type # "num"
      BY <3>2
    <3>. HIDE DEF Titles
    <3>. QED
      BY <1>5, <2>2, <3>1, <3>3
  <2>. HIDE DEF Titles, Awaited, M
  <2>. QED
    BY <1>1, <1>3, <1>9, <2>1, <2>3, <2>4, ToldOn
<1>11. TextInv'
  <2>1. Deep(text', pos' - 1) = Len(stack') /\ \A j \in 1 .. pos' - 2 : Deep(text', j) >= 1
    BY <1>1, <1>2, <1>4, DepthOn
  <2>2. \A f \in DOMAIN stack' : items'[stack'[f].item].type = "none"
    <3>1. \A f \in 1 .. N - 1 : f \in 1 .. N /\ stack'[f] = stack[f]
      BY <1>4
    <3>2. \A f \in 1 .. N - 1 : stack[f].item # Top.item
      <4>1. \A f \in 1 .. N - 1 : stack[f].item < Top.item /\ stack[f] \in FrameType
        <5>1. \A f \in 1 .. N - 1 : stack[f].item < Top.item
          BY <1>4, StackOrder
        <5>2. \A f \in 1 .. N : stack[f] \in FrameType
          BY <1>4, StackOrder
        <5>. QED
          BY <3>1, <5>1, <5>2
      <4>2. \A f \in 1 .. N - 1 : stack[f].item \in Nat
        BY <4>1 DEF FrameType
      <4>3. Top.item \in Nat
        BY <1>4 DEF FrameType
      <4>. HIDE DEF N
      <4>. QED
        BY <4>1, <4>2, <4>3
    <3>3. \A f \in 1 .. N : stack[f].item \in DOMAIN items
      BY <1>4 DEF HeapInv, Nested, OpenList
    <3>. HIDE DEF N
    <3>. QED
      BY <1>4, <1>5, <1>7, <3>1, <3>2, <3>3
  <2>3. stack' # << >> => stack'[1].item = root' /\ stack'[1].kind = text'[1].k
    <3>1. stack' # << >> => stack'[1] = stack[1]
      BY <1>4, <1>8
    <3>. QED
      BY <1>1, <1>7, <3>1
  <2>4. Titles' # {} => text'[1].k = "{"
    <3>1. Titles # {} => text[1].k = "{"
      BY <1>1 DEF FileInv, TextInv
    <3>. HIDE DEF Titles
    <3>. QED
      BY <1>1, <1>9, <3>1
  <2>5. pos' # 1
    BY <1>1, <1>6
  <2>. HIDE DEF Titles, Deep, M
  <2>. QED
    BY <1>1, <2>1, <2>2, <2>3, <2>4, <2>5 DEF TextInv
<1>. QED
  BY <1>10, <1>11 DEF FileInv

\* No step of the parser makes the tree tell what the text does not.
LEMMA FileSteps ==
  ASSUME HeapInv, HeapInv', FileInv, JsonNext
  PROVE  FileInv'
<1>1. CASE \/ First \/ More \/ Accept
           \/ NoRoot \/ StringFails \/ NoValue \/ NoMember \/ NoName \/ NoColon \/ NoClose
           \/ Unwind \/ Refuse
  BY <1>1, QuietTells
<1>2. CASE Literal \/ Number \/ StringValue
  BY <1>2, FillTells
<1>3. CASE NewRoot
  BY <1>3, RootTells
<1>4. CASE Open
  BY <1>4, OpenTells
<1>5. CASE Member
  BY <1>5, MemberTells
<1>6. CASE Name
  BY <1>6, NameTells
<1>7. CASE Colon
  BY <1>7, ColonTells
<1>8. CASE Close
  BY <1>8, CloseTells
<1>. QED
  BY <1>1, <1>2, <1>3, <1>4, <1>5, <1>6, <1>7, <1>8 DEF JsonNext
-------------------------------------------------------------------------------
(* What a file gives a setting *)

\* What a string spells, unit by unit.
LEMMA SpeltUnits ==
  ASSUME NEW u \in Seq(Int)
  PROVE  /\ Spelt(Repaired(u)) \in Seq(Int) /\ Len(Spelt(Repaired(u))) = Len(u)
         /\ \A i \in 1 .. Len(u) :
              Spelt(Repaired(u))[i] = IF u[i] = Plain THEN 120 ELSE IF u[i] = Newline THEN 10
                                      ELSE parse_hex4(u[i])
<1>. DEFINE n == Len(u)
            r == [i \in 1 .. n |-> IF u[i] = BadHex THEN 0 ELSE u[i]]
            s == [i \in 1 .. n |-> CASE r[i] = Plain -> 120 [] r[i] = Newline -> 10 [] OTHER -> r[i]]
<1>1. n \in Nat /\ DOMAIN u = 1 .. n /\ \A i \in 1 .. n : u[i] \in Int
  BY LenProperties
<1>2. Repaired(u) = r /\ DOMAIN r = 1 .. n
  BY <1>1 DEF Repaired
<1>3. Spelt(r) = s
  BY <1>2 DEF Spelt
<1>4. \A i \in 1 .. n :
        s[i] = IF u[i] = Plain THEN 120 ELSE IF u[i] = Newline THEN 10 ELSE parse_hex4(u[i])
  BY DEF parse_hex4, BadHex, Plain, Newline
<1>5. s \in [1 .. n -> Int]
  BY <1>1 DEF BadHex
<1>. HIDE DEF n, r, s
<1>6. s \in Seq(Int) /\ Len(s) = n
  BY <1>1, <1>5
<1>. QED
  BY <1>2, <1>3, <1>4, <1>6 DEF n

\* A piece that spells an ASCII character is that byte, any other one begins with a
\* byte that is none.
LEMMA UnescapeUnit ==
  ASSUME NEW u \in Seq(Int), NEW i \in 1 .. Len(u), Unescape(u)[i].good
  PROVE  LET R == Unescape(u)[i].bytes
             Q == Unescape(u)[i + 1]
             c == Spelt(Repaired(u))[i]
         IN /\ R \in Seq(Int) /\ Len(R) > 0
            /\ c < 128 => /\ R[1] = c /\ Q.good /\ Q.bytes \in Seq(Int)
                          /\ Len(R) = Len(Q.bytes) + 1
                          /\ \A k \in 1 .. Len(Q.bytes) : R[k + 1] = Q.bytes[k]
            /\ c >= 128 => R[1] >= 128
<1>. DEFINE R == Unescape(u)[i].bytes
            Q == Unescape(u)[i + 1]
            t == Taken(u, i)
            c == Codepoint(u, i)
            r == Unescape(u)[i + t].bytes
            d == Spelt(Repaired(u))[i]
            e == Encode(c)
<1>1. Len(u) \in Nat /\ u[i] \in Int
  BY LenProperties
<1>2. t # 0 /\ Unescape(u)[i + t].good /\ R = e \o r
  <2>1. Unescape(u)[i] = IF Taken(u, i) = 0 THEN [good |-> FALSE, bytes |-> << >>]
                         ELSE [good |-> Unescape(u)[i + Taken(u, i)].good,
                               bytes |-> Encode(Codepoint(u, i)) \o Unescape(u)[i + Taken(u, i)].bytes]
    BY UnescapeSteps
  <2>. QED
    BY <2>1
<1>3. t \in 1 .. 2 /\ i + t \in 1 .. Len(u) + 1
  BY <1>2, TakenType
<1>4. r \in Seq(Int)
  BY <1>3, UnescapedFits
<1>5. d \in Int /\ d = IF u[i] = Plain THEN 120 ELSE IF u[i] = Newline THEN 10 ELSE parse_hex4(u[i])
  BY <1>1, SpeltUnits DEF parse_hex4
<1>6. c \in Int /\ (d < 128 => c = d /\ t = 1) /\ (d >= 128 => c >= 128)
  <2>1. CASE t = 2
    <3>1. High(parse_hex4(u[i]))
      BY <2>1 DEF Taken
    <3>2. u[i] # Plain /\ u[i] # Newline /\ d >= 55296
      BY <1>5, <3>1 DEF High, parse_hex4, Plain, Newline, BadHex
    <3>3. u[i + 1] \in Int
      <4>1. i + 1 \in 1 .. Len(u)
        BY <1>1, <1>3, <2>1
      <4>. QED
        BY <4>1
    <3>4. c = 65536 + (u[i] % 1024) * 1024 + (u[i + 1] % 1024)
      BY <2>1, <3>2 DEF Codepoint
    <3>5. \A z \in Int : z % 1024 \in 0 .. 1023
      OBVIOUS
    <3>. DEFINE x == u[i] % 1024
                y == u[i + 1] % 1024
    <3>6. x \in 0 .. 1023 /\ y \in 0 .. 1023 /\ c = 65536 + x * 1024 + y
      <4>1. x \in 0 .. 1023 /\ y \in 0 .. 1023
        <5>. DEFINE a == u[i]
                    b == u[i + 1]
        <5>1. a \in Int /\ b \in Int
          BY <1>1, <3>3
        <5>. HIDE DEF a, b
        <5>2. a % 1024 \in 0 .. 1023 /\ b % 1024 \in 0 .. 1023
          BY ONLY <3>5, <5>1
        <5>. QED
          BY <5>2 DEF a, b
      <4>. HIDE DEF c
      <4>2. c = 65536 + x * 1024 + y
        BY ONLY <3>4 DEF x, y
      <4>. HIDE DEF x, y
      <4>. QED
        BY ONLY <4>1, <4>2
    <3>. HIDE DEF x, y, c, d
    <3>7. c \in Int /\ c >= 128
      BY ONLY <3>6
    <3>. QED
      BY <1>5, <3>2, <3>7
  <2>2. CASE t # 2
    BY <1>1, <1>3, <1>5, <2>2 DEF Codepoint, parse_hex4, Plain, Newline, BadHex
  <2>. QED
    BY <2>1, <2>2
<1>7. e \in Seq(Int) /\ Len(e) > 0 /\ (c < 128 => Len(e) = 1 /\ e[1] = c) /\ (c >= 128 => e[1] >= 128)
  <2>. HIDE DEF c
  <2>1. e \in Seq(Int)
    BY <1>6, EncodeType
  <2>2. Len(e) > 0 /\ (c < 128 => Len(e) = 1 /\ e[1] = c) /\ (c >= 128 => e[1] >= 128)
    <3>1. c \in Int /\ (c >= 0 => c \div 64 >= 0 /\ c \div 4096 >= 0 /\ c \div 262144 >= 0)
      BY <1>6
    <3>2. /\ c \div 64 \in Int /\ c \div 4096 \in Int /\ c \div 262144 \in Int
      BY <3>1
    <3>3. CASE c < 128
      <4>1. Len(e) = 1 /\ e[1] = c
        BY <3>1, <3>3 DEF Encode
      <4>. QED
        BY <3>1, <3>3, <4>1
    <3>4. CASE 128 <= c /\ c < 2048
      <4>1. Len(e) = 2 /\ e[1] = 192 + c \div 64
        BY <3>1, <3>4 DEF Encode
      <4>. QED
        BY <3>1, <3>2, <3>4, <4>1
    <3>5. CASE 2048 <= c /\ c < 65536
      <4>1. Len(e) = 3 /\ e[1] = 224 + c \div 4096
        BY <3>1, <3>5 DEF Encode
      <4>. QED
        BY <3>1, <3>2, <3>5, <4>1
    <3>6. CASE c >= 65536
      <4>1. Len(e) = 4 /\ e[1] = 240 + c \div 262144
        BY <3>1, <3>6 DEF Encode
      <4>. QED
        BY <3>1, <3>2, <3>6, <4>1
    <3>. QED
      BY <3>1, <3>3, <3>4, <3>5, <3>6
  <2>. QED
    BY <2>1, <2>2
<1>8. R \in Seq(Int) /\ Len(R) > 0 /\ R[1] = e[1]
  <2>. HIDE DEF e, r, R
  <2>. QED
    BY <1>2, <1>4, <1>7
<1>9. ASSUME d < 128
      PROVE  /\ R[1] = d /\ Q.good /\ Q.bytes \in Seq(Int)
             /\ Len(R) = Len(Q.bytes) + 1
             /\ \A k \in 1 .. Len(Q.bytes) : R[k + 1] = Q.bytes[k]
  <2>1. c = d /\ i + t = i + 1
    BY <1>6, <1>9
  <2>2. Q.good /\ Q.bytes = r
    BY <1>2, <2>1
  <2>3. R = e \o r /\ e \in Seq(Int) /\ Len(e) = 1 /\ e[1] = d
    BY <1>2, <1>5, <1>7, <1>9, <2>1
  <2>4. Q.bytes \in Seq(Int) /\ Len(Q.bytes) = Len(r)
    BY <1>4, <2>2
  <2>. HIDE DEF R, Q, r, d, e
  <2>. DEFINE x == e \o r
  <2>5. Len(r) \in Nat /\ Len(R) = 1 + Len(r) /\ R[1] = d
        /\ \A k \in 1 .. Len(r) : R[1 + k] = r[k]
    <3>1. Len(r) \in Nat
      BY ONLY <1>4, LenProperties
    <3>2. /\ Len(x) = Len(e) + Len(r)
          /\ \A k \in 1 .. Len(e) + Len(r) : x[k] = IF k <= Len(e) THEN e[k] ELSE r[k - Len(e)]
      BY ONLY <1>4, <2>3, ConcatProperties
    <3>3. R = x /\ Len(e) = 1 /\ e[1] = d
      BY <2>3
    <3>. HIDE DEF x
    <3>4. /\ Len(R) = 1 + Len(r)
          /\ \A k \in 1 .. 1 + Len(r) : R[k] = IF k <= 1 THEN e[k] ELSE r[k - 1]
      BY ONLY <3>2, <3>3
    <3>5. R[1] = d
      BY ONLY <3>1, <3>3, <3>4
    <3>6. \A k \in 1 .. Len(r) : R[1 + k] = r[k]
      BY ONLY <3>1, <3>4
    <3>. QED
      BY ONLY <3>1, <3>4, <3>5, <3>6
  <2>7. \A k \in 1 .. Len(r) : k + 1 = 1 + k
    BY <2>5
  <2>. QED
    BY <2>2, <2>4, <2>5, <2>7
<1>10. d >= 128 => R[1] >= 128
  <2>. HIDE DEF R, d, c, e
  <2>. QED
    BY <1>6, <1>7, <1>8
<1>. QED
  BY <1>8, <1>9, <1>10

\* As long as a string spells ASCII characters, its bytes are those.
LEMMA SpeltAlike ==
  ASSUME NEW u \in Seq(Int), WellFormed(u), NEW n \in 0 .. Len(u),
         \A k \in 1 .. n : Spelt(Repaired(u))[k] < 128
  PROVE  /\ Unescape(u)[n + 1].good /\ Unescape(u)[n + 1].bytes \in Seq(Int)
         /\ Len(Unescaped(u)) = n + Len(Unescape(u)[n + 1].bytes)
         /\ \A k \in 1 .. n : Unescaped(u)[k] = Spelt(Repaired(u))[k]
         /\ \A k \in 1 .. Len(Unescape(u)[n + 1].bytes) :
              Unescaped(u)[n + k] = Unescape(u)[n + 1].bytes[k]
<1>. DEFINE B == Unescaped(u)
            S == Spelt(Repaired(u))
            good(m) == Unescape(u)[m + 1].good
            R(m) == Unescape(u)[m + 1].bytes
            C == {m \in 0 .. n : /\ good(m) /\ R(m) \in Seq(Int) /\ Len(B) = m + Len(R(m))
                                 /\ \A k \in 1 .. m : B[k] = S[k]
                                 /\ \A k \in 1 .. Len(R(m)) : B[m + k] = R(m)[k]}
<1>1. Len(u) \in Nat /\ B \in Seq(Int)
  BY LenProperties, UnescapedFits
<1>2. 0 \in C
  <2>1. good(0) /\ R(0) = B
    BY DEF WellFormed, Unescaped
  <2>. HIDE DEF B, R, good
  <2>2. Len(B) \in Nat /\ Len(B) = 0 + Len(R(0)) /\ R(0) \in Seq(Int)
    BY <1>1, <2>1, LenProperties
  <2>. QED
    BY <1>1, <2>1, <2>2
<1>3. ASSUME NEW m \in 0 .. n, m \in C, m < n PROVE m + 1 \in C
  <2>1. m + 1 \in 1 .. Len(u) /\ m + 1 \in 0 .. n /\ m + 1 \in 1 .. n
    BY <1>1, <1>3
  <2>2. S[m + 1] < 128
    BY <2>1
  <2>3. /\ R(m) \in Seq(Int) /\ Len(R(m)) > 0
        /\ R(m)[1] = S[m + 1] /\ good(m + 1) /\ R(m + 1) \in Seq(Int)
        /\ Len(R(m)) = Len(R(m + 1)) + 1
        /\ \A k \in 1 .. Len(R(m + 1)) : R(m)[k + 1] = R(m + 1)[k]
    BY <1>3, <2>1, <2>2, UnescapeUnit
  <2>. HIDE DEF B, S, good
  <2>4. /\ Len(B) = m + Len(R(m)) /\ \A k \in 1 .. m : B[k] = S[k]
        /\ \A k \in 1 .. Len(R(m)) : B[m + k] = R(m)[k]
    BY <1>3
  <2>. DEFINE x == R(m)
              y == R(m + 1)
  <2>. HIDE DEF x, y, C, R
  <2>5. /\ x \in Seq(Int) /\ y \in Seq(Int) /\ x[1] = S[m + 1] /\ Len(x) = Len(y) + 1
        /\ \A k \in 1 .. Len(y) : x[k + 1] = y[k]
        /\ Len(B) = m + Len(x) /\ \A k \in 1 .. Len(x) : B[m + k] = x[k]
    BY <2>3, <2>4 DEF x, y
  <2>6. Len(x) \in Nat /\ Len(y) \in Nat /\ m \in Nat
    BY <2>5, LenProperties
  <2>7. Len(B) = (m + 1) + Len(y)
    BY <2>5, <2>6
  <2>8. B[m + 1] = S[m + 1]
    BY <2>5, <2>6
  <2>9. \A k \in 1 .. m + 1 : B[k] = S[k]
    BY <2>4, <2>6, <2>8
  <2>10. ASSUME NEW k \in 1 .. Len(y) PROVE B[(m + 1) + k] = y[k]
    <3>1. k + 1 \in 1 .. Len(x) /\ (m + 1) + k = m + (k + 1)
      BY <2>5, <2>6
    <3>2. B[m + (k + 1)] = x[k + 1] /\ x[k + 1] = y[k]
      BY <2>5, <3>1
    <3>. QED
      BY <3>1, <3>2
  <2>. QED
    BY <2>1, <2>3, <2>5, <2>7, <2>9, <2>10 DEF C, y
<1>4. n \in C
  <2>. HIDE DEF C
  <2>1. n \in Nat
    BY <1>1
  <2>2. 0 .. n \subseteq C
    BY <1>2, <1>3, <2>1, UpTo
  <2>. QED
    BY <2>1, <2>2
<1>. QED
  BY <1>4

\* The bytes of a string match a name of ASCII letters just when what it spells does.
LEMMA NameMatches ==
  ASSUME NEW u \in Seq(Int), WellFormed(u), NEW p \in Seq(Int), NEW c \in Seq(1 .. 127)
  PROVE  Matches(p \o Unescaped(u), c) <=> Matches(p \o Spelt(Repaired(u)), c)
<1>. DEFINE B == Unescaped(u)
            S == Spelt(Repaired(u))
            n == Len(c) - Len(p)
            R(m) == Unescape(u)[m + 1].bytes
<1>1. /\ Len(u) \in Nat /\ B \in Seq(Int) /\ Len(B) \in Nat /\ S \in Seq(Int) /\ Len(S) = Len(u)
      /\ Len(p) \in Nat /\ Len(c) \in Nat /\ n \in Int
      /\ \A k \in 1 .. Len(c) : c[k] \in 1 .. 127
  <2>1. Len(u) \in Nat /\ Len(p) \in Nat /\ Len(c) \in Nat
    BY LenProperties
  <2>2. B \in Seq(Int)
    BY UnescapedFits
  <2>3. S \in Seq(Int) /\ Len(S) = Len(u)
    BY SpeltUnits
  <2>. HIDE DEF B, S
  <2>4. Len(B) \in Nat
    BY <2>2, LenProperties
  <2>5. \A k \in 1 .. Len(c) : c[k] \in 1 .. 127
    BY ElementOfSeq
  <2>. QED
    BY <2>1, <2>2, <2>3, <2>4, <2>5
<1>2. \A a \in Int, b \in 1 .. 127 : tolower(a) = tolower(b) => a < 128
  BY DEF tolower
<1>3. ASSUME NEW m \in 0 .. Len(u), \A k \in 1 .. m : S[k] < 128
      PROVE  /\ m <= Len(B) /\ \A k \in 1 .. m : B[k] = S[k]
             /\ m = Len(u) => Len(B) = m
             /\ m < Len(u) => /\ m < Len(B)
                              /\ S[m + 1] < 128 => B[m + 1] = S[m + 1]
                              /\ S[m + 1] >= 128 => B[m + 1] >= 128
  <2>1. /\ Unescape(u)[m + 1].good /\ R(m) \in Seq(Int) /\ Len(B) = m + Len(R(m))
        /\ \A k \in 1 .. m : B[k] = S[k]
        /\ \A k \in 1 .. Len(R(m)) : B[m + k] = R(m)[k]
    BY <1>3, SpeltAlike
  <2>2. Len(R(m)) \in Nat
    BY <2>1, LenProperties
  <2>3. CASE m = Len(u)
    <3>1. R(m) = << >>
      BY <2>3, UnescapeSteps
    <3>. HIDE DEF R, B, S
    <3>2. Len(R(m)) = 0
      BY <3>1
    <3>. QED
      BY <1>1, <2>1, <2>3, <3>2
  <2>4. CASE m # Len(u)
    <3>1. m + 1 \in 1 .. Len(u)
      BY <1>1, <2>4
    <3>2. /\ Len(R(m)) > 0
          /\ S[m + 1] < 128 => R(m)[1] = S[m + 1]
          /\ S[m + 1] >= 128 => R(m)[1] >= 128
      BY <2>1, <3>1, UnescapeUnit
    <3>. HIDE DEF R, B, S
    <3>3. B[m + 1] = R(m)[1]
      <4>1. 1 \in 1 .. Len(R(m))
        BY <2>2, <3>2
      <4>. QED
        BY <2>1, <4>1
    <3>. DEFINE lB == Len(B)
                lR == Len(R(m))
    <3>4. m < lB /\ m <= lB
      <4>1. lR \in Nat /\ lB = m + lR /\ lR > 0 /\ m \in Nat
        BY <1>1, <2>1, <2>2, <3>2
      <4>. HIDE DEF lB, lR
      <4>. QED
        BY ONLY <4>1
    <3>. QED
      BY <2>1, <2>4, <3>2, <3>3, <3>4
  <2>. QED
    BY <2>3, <2>4
<1>. HIDE DEF B, S, R
<1>4. ASSUME NEW X \in Seq(Int)
      PROVE  Matches(p \o X, c) <=>
               IF n < 0 THEN /\ \A k \in 1 .. Len(c) : tolower(p[k]) = tolower(c[k])
                             /\ p[Len(c) + 1] = 0
               ELSE /\ \A k \in 1 .. Len(p) : tolower(p[k]) = tolower(c[k])
                    /\ n <= Len(X) /\ \A k \in 1 .. n : tolower(X[k]) = tolower(c[Len(p) + k])
                    /\ Len(X) = n \/ X[n + 1] = 0
  <2>. DEFINE b == p \o X
  <2>1. /\ Len(X) \in Nat /\ b \in Seq(Int) /\ Len(b) = Len(p) + Len(X)
        /\ \A k \in 1 .. Len(p) : b[k] = p[k]
        /\ \A k \in 1 .. Len(X) : b[Len(p) + k] = X[k]
    BY <1>1, LenProperties
  <2>. HIDE DEF b
  <2>2. Matches(b, c) <=> /\ Len(b) >= Len(c)
                          /\ \A k \in 1 .. Len(c) : tolower(b[k]) = tolower(c[k])
                          /\ Len(b) = Len(c) \/ b[Len(c) + 1] = 0
    BY DEF Matches
  <2>3. CASE n < 0
    <3>1. Len(b) > Len(c) /\ Len(c) + 1 \in 1 .. Len(p) /\ \A k \in 1 .. Len(c) : k \in 1 .. Len(p)
      BY <1>1, <2>1, <2>3
    <3>2. b[Len(c) + 1] = p[Len(c) + 1] /\ \A k \in 1 .. Len(c) : b[k] = p[k]
      BY <2>1, <3>1
    <3>3. Len(b) >= Len(c) /\ Len(b) # Len(c)
      BY <1>1, <2>1, <3>1
    <3>4. Matches(b, c) <=> /\ \A k \in 1 .. Len(c) : tolower(p[k]) = tolower(c[k])
                            /\ p[Len(c) + 1] = 0
      BY <2>2, <3>2, <3>3
    <3>. QED
      BY <2>3, <3>4 DEF b
  <2>4. CASE n >= 0
    <3>1. Len(c) = Len(p) + n /\ n \in Nat
      BY <1>1, <2>4
    <3>. DEFINE lb == Len(b)
                lx == Len(X)
                lp == Len(p)
                lc == Len(c)
    <3>2. Len(b) >= Len(c) <=> n <= Len(X)
      <4>1. lx \in Nat /\ lp \in Nat /\ lb = lp + lx /\ lc = lp + n /\ n \in Nat
        BY <1>1, <2>1, <3>1
      <4>. HIDE DEF lb, lx, lp, lc, n
      <4>2. lb >= lc <=> n <= lx
        BY ONLY <4>1
      <4>. QED
        BY <4>2 DEF lb, lx, lc
    <3>3. Len(b) = Len(c) <=> Len(X) = n
      <4>1. lx \in Nat /\ lp \in Nat /\ lb = lp + lx /\ lc = lp + n /\ n \in Nat
        BY <1>1, <2>1, <3>1
      <4>. HIDE DEF lb, lx, lp, lc, n
      <4>2. lb = lc <=> lx = n
        BY ONLY <4>1
      <4>. QED
        BY <4>2 DEF lb, lx, lc
    <3>4. n < Len(X) => b[Len(c) + 1] = X[n + 1]
      <4>1. n < Len(X) => n + 1 \in 1 .. Len(X)
        BY <2>1, <3>1
      <4>2. n < Len(X) => b[Len(p) + (n + 1)] = X[n + 1]
        BY <2>1, <4>1
      <4>. QED
        BY <1>1, <3>1, <4>2
    <3>5. (\A k \in 1 .. Len(c) : tolower(b[k]) = tolower(c[k])) <=>
             /\ \A k \in 1 .. Len(p) : tolower(b[k]) = tolower(c[k])
             /\ \A k \in 1 .. n : tolower(b[Len(p) + k]) = tolower(c[Len(p) + k])
      <4>1. \A k \in 1 .. Len(c) : k \in 1 .. Len(p) \/ (k - Len(p) \in 1 .. n /\ k = Len(p) + (k - Len(p)))
        BY <1>1, <3>1
      <4>2. /\ \A k \in 1 .. Len(p) : k \in 1 .. Len(c)
            /\ \A k \in 1 .. n : Len(p) + k \in 1 .. Len(c)
        BY <1>1, <3>1
      <4>. HIDE DEF n
      <4>. QED
        BY <4>1, <4>2
    <3>6. n <= Len(X) => \A k \in 1 .. n : b[Len(p) + k] = X[k]
      <4>1. n <= Len(X) => \A k \in 1 .. n : k \in 1 .. Len(X)
        <5>1. lx \in Nat /\ n \in Nat
          BY <2>1, <3>1
        <5>. HIDE DEF lx, n
        <5>2. n <= lx => \A k \in 1 .. n : k \in 1 .. lx
          BY ONLY <5>1
        <5>. QED
          BY <5>2 DEF lx
      <4>2. \A k \in 1 .. Len(X) : b[Len(p) + k] = X[k]
        BY <2>1
      <4>. HIDE DEF b, n
      <4>. QED
        BY ONLY <4>1, <4>2
    <3>. HIDE DEF n
    <3>7. Matches(b, c) <=> /\ \A k \in 1 .. Len(p) : tolower(p[k]) = tolower(c[k])
                            /\ n <= Len(X) /\ \A k \in 1 .. n : tolower(X[k]) = tolower(c[Len(p) + k])
                            /\ Len(X) = n \/ X[n + 1] = 0
      <4>1. n <= Len(X) => (Len(X) = n \/ n < Len(X))
        BY <2>1, <3>1
      <4>. QED
        BY <2>1, <2>2, <3>2, <3>3, <3>4, <3>5, <3>6, <4>1
    <3>. QED
      BY <2>4, <3>1, <3>7 DEF b
  <2>. QED
    BY <1>1, <2>3, <2>4
<1>5. CASE n < 0
  BY <1>1, <1>4, <1>5 DEF B, S
<1>6. CASE n >= 0
  <2>. DEFINE Fit(X) == /\ n <= Len(X) /\ \A k \in 1 .. n : tolower(X[k]) = tolower(c[Len(p) + k])
                        /\ Len(X) = n \/ X[n + 1] = 0
  <2>0. n \in Nat /\ \A k \in 1 .. n : c[Len(p) + k] \in 1 .. 127
    <3>1. n \in Nat /\ \A k \in 1 .. n : Len(p) + k \in 1 .. Len(c)
      BY <1>1, <1>6
    <3>. QED
      BY <1>1, <3>1
  <2>. HIDE DEF n
  <2>1. ASSUME Fit(S) PROVE Fit(B)
    <3>1. n \in 0 .. Len(u) /\ \A k \in 1 .. n : S[k] \in Int
      BY <1>1, <2>0, <2>1
    <3>2. \A k \in 1 .. n : S[k] < 128
      BY <1>2, <2>0, <2>1, <3>1
    <3>3. /\ n <= Len(B) /\ \A k \in 1 .. n : B[k] = S[k]
          /\ n = Len(u) => Len(B) = n
          /\ n < Len(u) /\ S[n + 1] < 128 => B[n + 1] = S[n + 1]
      BY <1>3, <3>1, <3>2
    <3>4. n = Len(u) \/ (n < Len(u) /\ S[n + 1] = 0)
      BY <1>1, <2>0, <2>1, <3>1
    <3>. QED
      BY <2>1, <3>3, <3>4
  <2>2. ASSUME Fit(B) PROVE Fit(S)
    <3>. DEFINE C == {m \in 0 .. n : m <= Len(u) /\ \A k \in 1 .. m : S[k] < 128}
    <3>1. 0 \in C
      BY <1>1, <2>0
    <3>2. \A k \in 1 .. n : B[k] \in Int /\ B[k] < 128
      <4>1. \A k \in 1 .. n : B[k] \in Int
        BY <1>1, <2>0, <2>2
      <4>. QED
        BY <1>2, <2>0, <2>2, <4>1
    <3>3. ASSUME NEW m \in 0 .. n, m \in C, m < n PROVE m + 1 \in C
      <4>1. m \in 0 .. Len(u) /\ \A k \in 1 .. m : S[k] < 128
        BY <1>1, <2>0, <3>3
      <4>2. /\ m = Len(u) => Len(B) = m
            /\ m < Len(u) /\ S[m + 1] >= 128 => B[m + 1] >= 128
        BY <1>3, <4>1
      <4>3. m # Len(u)
        BY <1>1, <2>0, <2>2, <3>3, <4>2
      <4>4. m + 1 \in 1 .. Len(u) /\ m + 1 \in 1 .. n /\ m < Len(u)
        BY <1>1, <2>0, <3>3, <4>1, <4>3
      <4>5. S[m + 1] \in Int /\ B[m + 1] < 128 /\ B[m + 1] \in Int
        BY <1>1, <3>2, <4>4
      <4>6. S[m + 1] < 128
        BY <4>2, <4>4, <4>5
      <4>7. \A k \in 1 .. m + 1 : k \in 1 .. m \/ k = m + 1
        BY <2>0, <3>3
      <4>8. \A k \in 1 .. m + 1 : S[k] < 128
        BY ONLY <4>1, <4>6, <4>7
      <4>9. m + 1 \in 0 .. n /\ m + 1 <= Len(u)
        BY ONLY <2>0, <3>3, <4>4
      <4>. QED
        BY ONLY <4>8, <4>9
    <3>4. n \in C
      <4>. HIDE DEF C
      <4>1. 0 .. n \subseteq C
        BY <2>0, <3>1, <3>3, UpTo
      <4>. QED
        BY <2>0, <4>1
    <3>5. n \in 0 .. Len(u) /\ \A k \in 1 .. n : S[k] < 128
      BY <1>1, <2>0, <3>4
    <3>6. /\ \A k \in 1 .. n : B[k] = S[k]
          /\ n < Len(u) => /\ n < Len(B)
                           /\ S[n + 1] < 128 => B[n + 1] = S[n + 1]
                           /\ S[n + 1] >= 128 => B[n + 1] >= 128
      BY <1>3, <3>5
    <3>7. n < Len(u) => S[n + 1] = 0
      <4>1. n < Len(u) => n + 1 \in 1 .. Len(u) /\ S[n + 1] \in Int
        BY <1>1, <2>0
      <4>2. n < Len(u) => B[n + 1] = 0
        BY <1>1, <2>0, <2>2, <3>6
      <4>. QED
        BY <3>6, <4>1, <4>2
    <3>8. n = Len(u) \/ n < Len(u)
      BY <1>1, <3>5
    <3>. QED
      BY <1>1, <2>2, <3>5, <3>6, <3>7, <3>8
  <2>3. n >= 0 /\ ~ (n < 0)
    BY <2>0
  <2>4. \A X \in Seq(Int) : Matches(p \o X, c) <=>
             (\A k \in 1 .. Len(p) : tolower(p[k]) = tolower(c[k])) /\ Fit(X)
    BY <1>4, <2>3
  <2>. HIDE DEF Fit
  <2>5. Matches(p \o B, c) <=> Matches(p \o S, c)
    BY <1>1, <2>1, <2>2, <2>4
  <2>. QED
    BY <2>5 DEF B, S
<1>. QED
  BY <1>1, <1>5, <1>6

\* The constants, as OptionsAssumption has them.
CharsAreBytes == \A s \in DOMAIN Chars : Chars[s] \in Seq(1 .. 255)
IsName(name) == Chars[name] \in Seq(1 .. 127)

\* When the parser is done, what process_json_config finds in the tree under a name
\* is what the text gives it.
LEMMA SettingInFile ==
  ASSUME HeapInv, FileInv, jpc = "done", root # NULL, NEW name, IsName(name), CharsAreBytes
  PROVE  LET i == GetObjectItem(root, name)
         IN InFile(text, name) = IF i # NULL /\ items[i].type = "num"
                                 THEN {items[i].number} ELSE {}
<1>. DEFINE called(k) == Matches(Chars[text[k].s] \o Spelt(Repaired(text[k].u)), Chars[name])
            named == {k \in DOMAIN text : /\ text[1].k = "{" /\ text[k].k = "str" /\ text[k + 1].k = ":"
                                          /\ Nesting(Cut(text, 1, k)) = 1
                                          /\ \A j \in 1 .. k : Nesting(Cut(text, 1, j)) >= 1
                                          /\ Matches(Chars[text[k].s] \o Spelt(Repaired(text[k].u)),
                                                     Chars[name])}
            found == Members(root, name)
            least == GetObjectItem(root, name)
<1>1. /\ Reading /\ stack = << >> /\ Len(stack) = 0
  BY EmptySeq DEF Reading, HeapInv, PlaceInv, Underway
<1>2. /\ root \in DOMAIN items /\ text \in Seq(TokenType) /\ pos \in 1 .. Len(text) /\ pos \in Nat \ {0}
      /\ Len(text) \in Nat /\ DOMAIN text = 1 .. Len(text)
  BY <1>1, ReadingBasics, LenProperties
<1>3. /\ Deep(text, pos - 1) = 0 /\ \A j \in 1 .. pos - 2 : Deep(text, j) >= 1
      /\ pos # 1 /\ (Titles # {} => text[1].k = "{")
  <2>. HIDE DEF Titles, Deep, Reading
  <2>. QED
    BY <1>1 DEF FileInv, TextInv
<1>4. Awaited = {} /\ Titles = {i \in List(items, items[root].child) : items[i].string # NULL}
  BY <1>1 DEF Awaited, Titles, Outermost, Start
<1>5. PICK m : Tells(items, strs, text, pos, Titles, m, {})
  BY <1>1, <1>4 DEF FileInv, Told
<1>6. /\ m \in [Titles -> Names(text, pos)]
      /\ \A i, j \in Titles : i < j => m[i] < m[j]
      /\ \A k \in Names(text, pos) : \E i \in Titles : m[i] = k
      /\ \A i \in Titles : Titled(items, strs, i, text[m[i]])
      /\ \A i \in Titles : Valued(items, i, text[m[i] + 2])
  <2>. HIDE DEF Titles, Names, Titled, Valued
  <2>. QED
    BY <1>5 DEF Tells
<1>7. /\ \A k \in Names(text, pos) : k \in Nat /\ k \in DOMAIN text
      /\ DOMAIN items \subseteq Nat
  BY <1>2, HeapBasics DEF Names, IsHeap
<1>8. named = {k \in Names(text, pos) : called(k)}
  <2>0. /\ \A k \in named : k \in 1 .. Len(text) /\ \A j \in 1 .. k : Deep(text, j) >= 1
        /\ \A k \in named : text[k].k = "str" /\ text[k + 1].k = ":" /\ Deep(text, k) = 1
    BY <1>2 DEF Deep
  <2>1. ASSUME NEW k \in named PROVE k \in Names(text, pos)
    <3>. HIDE DEF named
    <3>1. k \in 1 .. Len(text) /\ \A j \in 1 .. k : Deep(text, j) >= 1
      BY <2>0
    <3>2. ~ (pos - 1 \in 1 .. k)
      <4>1. Deep(text, pos - 1) = 0
        BY <1>3
      <4>2. pos - 1 \in 1 .. k => Deep(text, pos - 1) >= 1
        BY <3>1
      <4>. DEFINE d == Deep(text, pos - 1)
      <4>. HIDE DEF d
      <4>3. d = 0 /\ (pos - 1 \in 1 .. k => d >= 1)
        BY <4>1, <4>2 DEF d
      <4>. QED
        BY ONLY <4>3
    <3>3. k \in 1 .. pos - 2
      <4>1. pos # 1
        BY <1>3
      <4>2. k \in Nat /\ k >= 1 /\ pos \in Nat /\ pos # 0
        BY ONLY <1>2, <3>1
      <4>. QED
        BY ONLY <4>1, <4>2, <3>2
    <3>. QED
      BY <2>0, <3>3 DEF Names
  <2>2. ASSUME NEW k \in Names(text, pos), called(k) PROVE k \in named
    <3>1. text[1].k = "{"
      <4>1. Titles # {}
        BY <1>6
      <4>. QED
        BY <1>3, <4>1
    <3>2. \A j \in 1 .. k : j \in 1 .. pos - 2
      BY <1>2 DEF Names
    <3>3. \A j \in 1 .. k : Deep(text, j) >= 1
      BY <1>3, <3>2
    <3>. QED
      BY <1>7, <2>2, <3>1, <3>3 DEF Names, Deep
  <2>. HIDE DEF named
  <2>3. \A k \in named : called(k)
    BY DEF named
  <2>. HIDE DEF called
  <2>. QED
    BY <2>1, <2>2, <2>3
<1>9. InFile(text, name) = {text[k + 2].n : k \in {k \in named : text[k + 2].k = "num" /\ \A x \in named : k <= x}}
  BY DEF InFile
<1>10. ASSUME NEW i \in Titles PROVE Named(items[i].string, name) <=> called(m[i])
  <2>. DEFINE a == items[i].string
              k == m[i]
  <2>1. k \in DOMAIN text
    BY <1>6, <1>7
  <2>2. text[k].u \in Seq(Int) /\ text[k].s \in DOMAIN Chars
    <3>1. text[k] \in TokenType
      <4>. HIDE DEF TokenType, k
      <4>. QED
        BY <1>2, <2>1
    <3>. HIDE DEF k
    <3>. QED
      BY <3>1 DEF TokenType
  <2>3. WellFormed(text[k].u) /\ a # NULL /\ strs[a].s = text[k].s /\ strs[a].b = Unescaped(text[k].u)
    BY <1>6 DEF Titled
  <2>. DEFINE u == text[k].u
              p == Chars[text[k].s]
  <2>4. p \in Seq(Int)
    <3>. HIDE DEF p
    <3>1. p \in Seq(1 .. 255)
      BY <2>2 DEF CharsAreBytes, p
    <3>2. 1 .. 255 \subseteq Int
      OBVIOUS
    <3>. QED
      BY ONLY <3>1, <3>2, SeqMonotonic
  <2>. HIDE DEF u, p
  <2>5. Matches(p \o Unescaped(u), Chars[name]) <=> Matches(p \o Spelt(Repaired(u)), Chars[name])
    BY <2>2, <2>3, <2>4, NameMatches DEF u, IsName
  <2>. QED
    BY <2>3, <2>5 DEF Named, u, p
<1>11. found = {i \in Titles : called(m[i])} /\ found \subseteq DOMAIN items
  <2>1. found = {i \in List(items, items[root].child) : Named(items[i].string, name)}
    BY DEF Members, Siblings, List
  <2>2. \A i : Named(items[i].string, name) => items[i].string # NULL
    BY DEF Named
  <2>3. found = {i \in Titles : Named(items[i].string, name)}
    BY <1>4, <2>1, <2>2
  <2>4. found \subseteq DOMAIN items
    BY <1>2, FirstMember
  <2>. HIDE DEF found, called, Titles
  <2>. QED
    BY <1>10, <2>3, <2>4
<1>. HIDE DEF named, called, Titles
<1>12. CASE found = {}
  <2>1. named = {}
    BY <1>6, <1>8, <1>11, <1>12
  <2>2. least = NULL
    BY <1>2, <1>12, FirstMember
  <2>. QED
    BY <1>9, <2>1, <2>2
<1>13. CASE found # {}
  <2>1. least \in found /\ \A j \in found : least <= j
    BY <1>2, <1>13, FirstMember
  <2>. HIDE DEF least, found
  <2>2. least \in Titles /\ least \in Nat /\ least # NULL /\ m[least] \in named /\ m[least] \in Nat
    <3>1. NULL \notin DOMAIN items
      BY HeapBasics DEF IsHeap
    <3>. QED
      BY <1>6, <1>7, <1>8, <1>11, <2>1, <3>1
  <2>3. \A x \in named : x \in Nat /\ m[least] <= x
    <3>1. ASSUME NEW x \in named PROVE x \in Nat /\ m[least] <= x
      <4>1. x \in Nat /\ x \in Names(text, pos) /\ called(x)
        BY <1>7, <1>8
      <4>2. PICK j \in Titles : m[j] = x
        BY <1>6, <4>1
      <4>3. j \in found /\ j \in Nat /\ least <= j
        BY <1>7, <1>11, <2>1, <4>1, <4>2
      <4>4. least = j \/ least < j
        BY <2>2, <4>3
      <4>5. m[least] = x \/ m[least] < x
        BY <1>6, <2>2, <4>2, <4>4
      <4>. QED
        BY <2>2, <4>1, <4>5
    <3>. QED
      BY <3>1
  <2>4. ASSUME NEW k PROVE (k \in named /\ \A x \in named : k <= x) <=> k = m[least]
    <3>1. ASSUME k \in named, \A x \in named : k <= x PROVE k = m[least]
      <4>1. k \in Nat /\ m[least] <= k /\ k <= m[least] /\ m[least] \in Nat
        BY <2>2, <2>3, <3>1
      <4>. QED
        BY ONLY <4>1
    <3>. QED
      BY <2>2, <2>3, <3>1
  <2>5. InFile(text, name) = IF text[m[least] + 2].k = "num" THEN {text[m[least] + 2].n} ELSE {}
    BY <1>9, <2>4
  <2>6. /\ items[least].type = "num" <=> text[m[least] + 2].k = "num"
        /\ text[m[least] + 2].k = "num" => items[least].number = text[m[least] + 2].n
    BY <1>6, <2>2 DEF Valued
  <2>7. InFile(text, name) = IF least # NULL /\ items[least].type = "num"
                             THEN {items[least].number} ELSE {}
    BY <2>2, <2>5, <2>6
  <2>. QED
    BY <2>7 DEF least
<1>. QED
  BY <1>12, <1>13

-------------------------------------------------------------------------------
(* The options *)

\* There is a first index that is not in a set, or the end.
LEMMA FirstOutside ==
  ASSUME NEW d \in 0 .. 4, NEW S
  PROVE  \E i \in d .. 4 : (i = 4 \/ i \notin S) /\ \A j \in d .. i - 1 : j \in S
<1>. DEFINE T == {i \in d .. 4 : i = 4 \/ i \notin S}
<1>1. T \in SUBSET Nat /\ 4 \in T
  OBVIOUS
<1>2. PICK i \in T : \A y \in T : i <= y
  <2>. HIDE DEF T
  <2>. QED
    BY <1>1, LeastNatural
<1>3. ASSUME NEW j \in d .. i - 1 PROVE j \in S
  <2>1. j \in d .. 4 /\ ~ (i <= j)
    BY <1>1
  <2>. QED
    BY <1>2, <2>1
<1>. QED
  BY <1>2, <1>3

\* atoi gives a number.
LEMMA AtoiType ==
  ASSUME NEW v \in Int
  PROVE  atoi(v) \in Int
<1>. DEFINE B(i) == Byte(v, i)
            s == CHOOSE i \in 0 .. 4 : /\ i = 4 \/ B(i) \notin Blanks
                                       /\ \A j \in 0 .. i - 1 : B(j) \in Blanks
            d == IF s < 4 /\ B(s) \in {43, 45} THEN s + 1 ELSE s
            e == CHOOSE i \in d .. 4 : /\ i = 4 \/ B(i) \notin Digits
                                       /\ \A j \in d .. i - 1 : B(j) \in Digits
            At(f, i) == IF i <= d THEN 0 ELSE 10 * f[i - 1] + B(i - 1) - 48
            size == CHOOSE f : f = [i \in 0 .. 4 |-> At(f, i)]
<1>0. atoi(v) = IF d > s /\ B(s) = 45 THEN - size[e] ELSE size[e]
  BY DEF atoi
<1>1. \A i \in 0 .. 3 : B(i) \in Int
  <2>1. ASSUME NEW i \in 0 .. 3 PROVE B(i) \in Int
    <3>. DEFINE p == <<1, 256, 65536, 16777216>>[i + 1]
    <3>1. p \in Nat /\ p > 0
      OBVIOUS
    <3>2. B(i) = (v \div p) % 256
      BY DEF Byte
    <3>. HIDE DEF p
    <3>3. v \div p \in Int
      BY <3>1
    <3>. QED
      BY <3>2, <3>3
  <2>. QED
    BY <2>1
<1>. HIDE DEF B
<1>2. s \in 0 .. 4
  <2>. DEFINE S == {i \in 0 .. 4 : B(i) \in Blanks}
  <2>1. \E i \in 0 .. 4 : (i = 4 \/ i \notin S) /\ \A j \in 0 .. i - 1 : j \in S
    <3>1. 0 \in 0 .. 4
      OBVIOUS
    <3>. HIDE DEF S
    <3>. QED
      BY <3>1, FirstOutside
  <2>2. \E i \in 0 .. 4 : (i = 4 \/ B(i) \notin Blanks) /\ \A j \in 0 .. i - 1 : B(j) \in Blanks
    BY <2>1
  <2>. QED
    BY <2>2
<1>. HIDE DEF s
<1>3. d \in 0 .. 4
  BY <1>2
<1>. HIDE DEF d
<1>4. e \in 0 .. 4
  <2>. DEFINE S == {i \in d .. 4 : B(i) \in Digits}
  <2>1. \E i \in d .. 4 : (i = 4 \/ i \notin S) /\ \A j \in d .. i - 1 : j \in S
    <3>. HIDE DEF S
    <3>. QED
      BY <1>3, FirstOutside
  <2>2. \E i \in d .. 4 : (i = 4 \/ B(i) \notin Digits) /\ \A j \in d .. i - 1 : B(j) \in Digits
    BY <1>3, <2>1
  <2>3. e \in d .. 4
    BY <2>2
  <2>. QED
    BY <1>3, <2>3
<1>. HIDE DEF e
<1>. DEFINE Def(n, f) == f = [i \in 0 .. n |-> At(f, i)] /\ f \in [0 .. n -> Int]
            S == {n \in 0 .. 4 : \E f : Def(n, f)}
<1>5. 0 \in S
  <2>. DEFINE f == [i \in 0 .. 0 |-> 0]
  <2>1. f \in [0 .. 0 -> Int] /\ \A i \in 0 .. 0 : At(f, i) = 0
    BY <1>3
  <2>2. Def(0, f)
    <3>1. [i \in 0 .. 0 |-> At(f, i)] = [i \in 0 .. 0 |-> 0]
      <4>. HIDE DEF At
      <4>. QED
        BY <2>1
    <3>. QED
      BY <2>1, <3>1
  <2>. HIDE DEF Def, f
  <2>3. \E h : Def(0, h)
    BY <2>2
  <2>. QED
    BY <2>3
<1>6. ASSUME NEW n \in 0 .. 4, n \in S, n < 4 PROVE n + 1 \in S
  <2>1. PICK f : Def(n, f)
    BY <1>6
  <2>. DEFINE g == [i \in 0 .. n + 1 |-> IF i <= n THEN f[i] ELSE At(f, n + 1)]
  <2>2. n \in Nat /\ n \in 0 .. n /\ (n + 1) - 1 = n /\ n + 1 \in 0 .. 4 /\ n + 1 \in 0 .. n + 1
    BY <1>6
  <2>3. f \in [0 .. n -> Int] /\ \A i \in 0 .. n : f[i] = At(f, i)
    <3>. HIDE DEF At
    <3>. QED
      BY <2>1
  <2>4. At(f, n + 1) \in Int
    <3>1. f[n] \in Int /\ B(n) \in Int
      BY <1>1, <1>6, <2>2, <2>3
    <3>2. At(f, n + 1) = IF n + 1 <= d THEN 0 ELSE 10 * f[n] + B(n) - 48
      BY <2>2
    <3>. DEFINE x == f[n]
                y == B(n)
    <3>3. x \in Int /\ y \in Int /\ At(f, n + 1) = IF n + 1 <= d THEN 0 ELSE 10 * x + y - 48
      BY <3>1, <3>2
    <3>. HIDE DEF x, y, At
    <3>. QED
      BY ONLY <3>3
  <2>5. /\ \A i \in 0 .. n : g[i] = f[i]
        /\ g[n + 1] = At(f, n + 1)
        /\ g \in [0 .. n + 1 -> Int]
    <3>1. \A i \in 0 .. n : i \in 0 .. n + 1 /\ i <= n
      BY <2>2
    <3>2. ~ (n + 1 <= n) /\ \A i \in 0 .. n + 1 : i <= n => i \in 0 .. n
      BY <2>2
    <3>. HIDE DEF At
    <3>. QED
      BY <2>2, <2>3, <2>4, <3>1, <3>2
  <2>. HIDE DEF g
  <2>6. ASSUME NEW i \in 0 .. n + 1 PROVE At(g, i) = At(f, i)
    <3>1. CASE i <= d
      BY <3>1
    <3>2. CASE ~ (i <= d)
      <4>1. i - 1 \in 0 .. n
        BY <1>3, <2>2, <3>2
      <4>. QED
        BY <2>5, <4>1
    <3>. QED
      BY <3>1, <3>2
  <2>7. \A i \in 0 .. n + 1 : g[i] = At(g, i)
    <3>1. \A i \in 0 .. n + 1 : i \in 0 .. n \/ i = n + 1
      BY <2>2
    <3>. HIDE DEF At
    <3>. QED
      BY <2>3, <2>5, <2>6, <3>1
  <2>8. g = [i \in 0 .. n + 1 |-> At(g, i)]
    <3>. HIDE DEF At
    <3>. QED
      BY <2>5, <2>7
  <2>9. Def(n + 1, g)
    BY <2>5, <2>8
  <2>. HIDE DEF Def
  <2>10. \E h : Def(n + 1, h)
    BY <2>9
  <2>. QED
    BY <2>2, <2>10
<1>7. 0 .. 4 \subseteq S
  <2>. HIDE DEF S
  <2>. QED
    BY <1>5, <1>6, UpTo
<1>8. PICK f : Def(4, f)
  <2>. HIDE DEF Def
  <2>1. 4 \in S
    BY <1>7
  <2>. QED
    BY <2>1
<1>9. size = [i \in 0 .. 4 |-> At(size, i)]
  <2>. HIDE DEF At
  <2>. QED
    BY <1>8
<1>. HIDE DEF size
<1>10. \A i \in 0 .. 4 : size[i] = At(size, i)
  <2>. HIDE DEF At
  <2>. QED
    BY <1>9
<1>. DEFINE R == {i \in 0 .. 4 : size[i] \in Int}
<1>11. 0 \in R
  BY <1>3, <1>10
<1>12. ASSUME NEW n \in 0 .. 4, n \in R, n < 4 PROVE n + 1 \in R
  <2>1. n + 1 \in 0 .. 4 /\ (n + 1) - 1 = n /\ n \in 0 .. 3
    BY <1>12
  <2>. DEFINE x == size[n]
              y == B(n)
  <2>2. x \in Int /\ y \in Int /\ size[n + 1] = IF n + 1 <= d THEN 0 ELSE 10 * x + y - 48
    BY <1>1, <1>10, <1>12, <2>1
  <2>3. size[n + 1] \in Int
    <3>. HIDE DEF x, y, At
    <3>. QED
      BY ONLY <2>2
  <2>. QED
    BY <2>1, <2>3
<1>13. 0 .. 4 \subseteq R
  <2>. HIDE DEF R
  <2>. QED
    BY <1>11, <1>12, UpTo
<1>14. size[e] \in Int
  BY <1>4, <1>13
<1>. QED
  <2>. DEFINE z == size[e]
  <2>1. z \in Int /\ (atoi(v) = z \/ atoi(v) = - z)
    BY <1>0, <1>14 DEF s, d, e, size, B
  <2>. HIDE DEF z
  <2>. QED
    BY <2>1

\* Where process_options is; a file it reads is that of the option it is at.
OptionsInv ==
  /\ HeapInv
  /\ argv \in Argv /\ argi \in 1 .. Len(argv) + 1 /\ optstring \in Optstrings
  /\ opc \in {"next", "file", "done", "exit"} /\ nopt \in 1 .. Len(FromFile) + 1
  /\ numports \in Int /\ worker_threads \in Int
  /\ jpc = "idle" => text = << >>
  /\ opc = "file" => argi <= Len(argv)

\* The value of a setting in a file is a number.
LEMMA SettingType ==
  ASSUME HeapInv, NEW i, i \in DOMAIN items \cup {NULL}, NEW was \in Int
  PROVE  Setting(i, was) \in Int
<1>1. CASE i # NULL /\ items[i].type = "num"
  <2>1. items[i].number \in Int
    <3>1. i \in DOMAIN items /\ items \in [DOMAIN items -> ItemType]
      BY <1>1 DEF HeapInv, ParserTypeOK
    <3>. QED
      BY <3>1 DEF ItemType
  <2>2. Setting(i, was) = atoi(items[i].number)
    BY <1>1 DEF Setting
  <2>. QED
    BY <2>1, <2>2, AtoiType
<1>2. CASE ~ (i # NULL /\ items[i].type = "num")
  BY <1>2 DEF Setting
<1>. QED
  BY <1>1, <1>2

\* The process starts with its defaults and nothing read.
LEMMA OptionsStart == Init => OptionsInv
<1>. SUFFICES ASSUME Init PROVE OptionsInv
  OBVIOUS
<1>1. HeapInv /\ jpc = "idle" /\ text = << >>
  <2>1. JsonInit
    BY DEF Init
  <2>. QED
    BY <2>1, HeapStarts DEF JsonInit
<1>2. argv \in Argv /\ argi \in 1 .. Len(argv) + 1 /\ argi = 1
  <2>1. argv \in Argv /\ argi = 1
    BY DEF Init
  <2>2. Len(argv) \in Nat
    BY <2>1, OptionsAssumption
  <2>3. 1 \in 1 .. Len(argv) + 1
    BY <2>2
  <2>. QED
    BY <2>1, <2>3
<1>3. numports \in Int /\ worker_threads \in Int
  BY OptionsAssumption DEF Init
<1>4. optstring \in Optstrings /\ opc = "next" /\ nopt = 1
  BY DEF Init
<1>5. nopt \in 1 .. Len(FromFile) + 1
  BY <1>4 DEF FromFile
<1>. QED
  BY <1>1, <1>2, <1>3, <1>4, <1>5 DEF OptionsInv

\* Every step of process_options keeps the invariant, those of the parser included.
LEMMA OptionsSteps == OptionsInv /\ [Next]_optVars => OptionsInv'
<1>. SUFFICES ASSUME OptionsInv, [Next]_optVars PROVE OptionsInv'
  OBVIOUS
<1>1. /\ HeapInv /\ argv \in Argv /\ argi \in 1 .. Len(argv) + 1 /\ optstring \in Optstrings
      /\ opc \in {"next", "file", "done", "exit"} /\ nopt \in 1 .. Len(FromFile) + 1
      /\ numports \in Int /\ worker_threads \in Int
      /\ (jpc = "idle" => text = << >>) /\ (opc = "file" => argi <= Len(argv))
  BY DEF OptionsInv
<1>2. /\ argv \in Seq(OptionType) /\ Len(argv) \in Nat
      /\ \A i \in DOMAIN argv : argv[i] \in OptionType /\ (argv[i].file = << >> \/ IsText(argv[i].file))
      /\ \A i \in 1 .. Len(argv) : i \in DOMAIN argv
  BY <1>1, OptionsAssumption
<1>3. UNCHANGED jsonVars => HeapInv' /\ (jpc = "idle" => text = << >>)'
  BY <1>1 DEF HeapInv, ParserTypeOK, PlaceInv, Underway, Top, jsonVars
<1>4. argi <= Len(argv) => argi + 1 \in 1 .. Len(argv) + 1 /\ argi \in DOMAIN argv
  BY <1>1, <1>2
<1>. USE DEF Passed, Reads, Option, settings
<1>5. ASSUME UnknownOption \/ SetModules \/ Help PROVE OptionsInv'
  <2>1. /\ argi' = argi + 1 /\ argi <= Len(argv) /\ UNCHANGED <<argv, optstring, nopt>>
        /\ UNCHANGED <<numports, worker_threads>> /\ UNCHANGED jsonVars
        /\ opc' \in {"next", "exit"}
    BY <1>5 DEF UnknownOption, SetModules, Help
  <2>. QED
    BY <1>1, <1>3, <1>4, <2>1 DEF OptionsInv
<1>6. ASSUME SetPorts \/ SetThreads PROVE OptionsInv'
  <2>1. /\ argi' = argi + 1 /\ argi <= Len(argv) /\ UNCHANGED <<argv, optstring, nopt>>
        /\ UNCHANGED jsonVars /\ opc' = "next"
        /\ numports' \in {numports, argv[argi].n} /\ worker_threads' \in {worker_threads, argv[argi].n}
    BY <1>6 DEF SetPorts, SetThreads
  <2>2. argv[argi].n \in Int
    BY <1>2, <1>4, <2>1 DEF OptionType
  <2>3. numports' \in Int /\ worker_threads' \in Int
    BY <1>1, <2>1, <2>2
  <2>. QED
    BY <1>1, <1>3, <1>4, <2>1, <2>3 DEF OptionsInv
<1>7. ASSUME ConfigFile PROVE OptionsInv'
  <2>1. /\ Option.file # << >> /\ opc' = "file" /\ Parse(Option.file) /\ argi <= Len(argv)
        /\ UNCHANGED <<argv, argi, optstring, nopt>> /\ UNCHANGED <<numports, worker_threads>>
    BY <1>7 DEF ConfigFile
  <2>2. IsText(Option.file)
    BY <1>2, <1>4, <2>1
  <2>3. HeapInv' /\ jpc' = "start"
    <3>1. jpc' = "start"
      BY <2>1 DEF Parse
    <3>2. HeapInv'
      <4>. HIDE DEF Option
      <4>. QED
        BY <1>1, <2>1, <2>2, ParseStep
    <3>. QED
      BY <3>1, <3>2
  <2>. QED
    BY <1>1, <2>1, <2>3 DEF OptionsInv
<1>8. ASSUME NoConfigFile \/ NoMoreOptions \/ BadFile PROVE OptionsInv'
  <2>1. /\ UNCHANGED <<argv, argi, optstring, nopt>> /\ UNCHANGED <<numports, worker_threads>>
        /\ UNCHANGED jsonVars /\ opc' \in {"exit", "done"}
    BY <1>8 DEF NoConfigFile, NoMoreOptions, BadFile
  <2>. QED
    BY <1>1, <1>3, <2>1 DEF OptionsInv
<1>9. ASSUME ParseFile PROVE OptionsInv'
  <2>1. /\ JsonNext /\ opc = "file" /\ UNCHANGED opc
        /\ UNCHANGED <<argv, argi, optstring, nopt>> /\ UNCHANGED <<numports, worker_threads>>
    BY <1>9 DEF ParseFile
  <2>2. HeapInv'
    BY <1>1, <2>1, ParserSteps
  <2>3. jpc' # "idle"
    BY <2>1, <1>1
       DEF JsonNext, NewRoot, NoRoot, Literal, Number, StringValue, StringFails, Open, NoValue,
           First, Member, NoMember, Name, NoName, Colon, NoColon, More, Close, NoClose, Accept,
           Unwind, Refuse, Fill, Fails
  <2>. QED
    BY <1>1, <2>1, <2>2, <2>3 DEF OptionsInv
<1>10. ASSUME Apply PROVE OptionsInv'
  <2>. DEFINE i == GetObjectItem(root, FromFile[nopt])
  <2>1. /\ opc = "file" /\ jpc = "done" /\ root # NULL /\ nopt <= Len(FromFile)
        /\ nopt' = nopt + 1 /\ UNCHANGED <<argv, argi, optstring, opc>> /\ UNCHANGED jsonVars
        /\ numports' = IF FromFile[nopt] = "ports" THEN Setting(i, numports) ELSE numports
        /\ worker_threads' = IF FromFile[nopt] = "threads" THEN Setting(i, worker_threads)
                             ELSE worker_threads
    BY <1>10 DEF Apply
  <2>2. root \in DOMAIN items
    BY <1>1, <2>1 DEF HeapInv, PlaceInv
  <2>3. i \in DOMAIN items \cup {NULL}
    BY <1>1, <2>2, FirstMember
  <2>. HIDE DEF i
  <2>4. numports' \in Int /\ worker_threads' \in Int
    BY <1>1, <2>1, <2>3, SettingType
  <2>5. nopt' \in 1 .. Len(FromFile) + 1
    BY <1>1, <2>1 DEF FromFile
  <2>. QED
    BY <1>1, <1>3, <2>1, <2>4, <2>5 DEF OptionsInv
<1>11. ASSUME Applied PROVE OptionsInv'
  <2>1. /\ opc = "file" /\ opc' = "next" /\ argi' = argi + 1 /\ nopt' = 1
        /\ UNCHANGED <<argv, optstring>> /\ UNCHANGED <<numports, worker_threads>>
        /\ UNCHANGED jsonVars
    BY <1>11 DEF Applied
  <2>2. nopt' \in 1 .. Len(FromFile) + 1
    BY <2>1 DEF FromFile
  <2>. QED
    BY <1>1, <1>3, <1>4, <2>1, <2>2 DEF OptionsInv
<1>12. ASSUME UNCHANGED optVars PROVE OptionsInv'
  <2>1. /\ UNCHANGED <<argv, argi, optstring, opc, nopt>> /\ UNCHANGED <<numports, worker_threads>>
        /\ UNCHANGED jsonVars
    BY <1>12 DEF optVars
  <2>. QED
    BY <1>1, <1>3, <2>1 DEF OptionsInv
<1>. QED
  BY <1>5, <1>6, <1>7, <1>8, <1>9, <1>10, <1>11, <1>12 DEF Next

\* From the first step of the process on its heap and its place are as the invariant says.
THEOREM OptionsInvariant == Spec => []OptionsInv
<1>1. Init => OptionsInv
  BY OptionsStart
<1>2. OptionsInv /\ [Next]_optVars => OptionsInv'
  BY OptionsSteps
<1>. QED
  BY <1>1, <1>2, PTL DEF Spec

\* Every variable keeps its type, the offset stays within the text, and the calls of
\* parse_array and parse_object nest no deeper than the limit.
THEOREM OptionsTypes == Spec => []TypeOK
<1>1. OptionsInv => TypeOK
  BY DEF OptionsInv, HeapInv, ParserTypeOK, TypeOK
<1>. QED
  BY <1>1, OptionsInvariant, PTL

\* Whatever the files hold, and wherever memory runs out, no pointer of the heap leads
\* to memory that was freed, lists are linked both ways, strings have one owner and fit.
THEOREM OptionsHeapIsSound == Spec => []HeapIsSound
<1>1. OptionsInv => HeapIsSound
  BY SoundByInv DEF OptionsInv
<1>. QED
  BY <1>1, OptionsInvariant, PTL

\* Whatever the files hold, and wherever memory runs out, cJSON_Parse leaves nothing
\* allocated that is not in the tree it returns.
THEOREM OptionsNothingLeaks == Spec => []NothingLeaks
<1>1. OptionsInv => NothingLeaks
  BY NothingLeaksByInv DEF OptionsInv
<1>. QED
  BY <1>1, OptionsInvariant, PTL

-------------------------------------------------------------------------------
(* The number of ports *)

\* What each option gives numports, and what is right when the first n were applied:
\* the default, or what the last of them gives that gives anything.
Gifts == [i \in DOMAIN argv |-> Given(argv[i])]
Latest(gifts, n, v) ==
  \/ v = DefaultPorts /\ \A i \in 1 .. n : gifts[i] = {}
  \/ \E i \in 1 .. n : v \in gifts[i] /\ \A j \in 1 .. n : j > i => gifts[j] = {}

\* A file sets numports with the second option of the table.
SettingInv ==
  /\ opc = "next" => nopt = 1
  /\ opc = "file" => Recognised(Option) /\ Option.opt = "c" /\ text = Option.file
  /\ opc = "done" => argi = Len(argv) + 1
  /\ opc # "exit" => Latest(Gifts, IF opc = "file" /\ nopt > 2 THEN argi ELSE argi - 1, numports)

\* One option more: it gives nothing and nothing changes, or it gives the new value.
LEMMA LatestOn ==
  ASSUME NEW gifts, NEW n \in Nat \ {0}, NEW v, NEW w, Latest(gifts, n - 1, v),
         (gifts[n] = {} /\ w = v) \/ w \in gifts[n]
  PROVE  Latest(gifts, n, w)
<1>1. /\ \A i \in 1 .. n : i \in 1 .. n - 1 \/ i = n
      /\ \A i \in 1 .. n - 1 : i \in 1 .. n /\ n > i
      /\ n \in 1 .. n /\ \A j \in 1 .. n : ~ (j > n)
  OBVIOUS
<1>2. CASE gifts[n] = {} /\ w = v
  BY <1>1, <1>2 DEF Latest
<1>3. CASE w \in gifts[n]
  BY <1>1, <1>3 DEF Latest
<1>. QED
  BY <1>2, <1>3

\* What is said of the text stays true while the parser rests.
LEMMA FileStays ==
  ASSUME FileInv, UNCHANGED jsonVars
  PROVE  FileInv'
<1>1. UNCHANGED <<text, pos, items, strs, stack, item, jpc, root>>
  BY DEF jsonVars
<1>2. Titles' = Titles /\ Awaited' = Awaited /\ Reading' = Reading
  BY <1>1 DEF Titles, Awaited, Reading, Outermost
<1>. HIDE DEF Titles, Awaited, Reading
<1>3. TextInv'
  BY <1>1, <1>2 DEF FileInv, TextInv, Top
<1>4. Told'
  BY <1>1, <1>2 DEF FileInv, Told
<1>. QED
  BY <1>3, <1>4 DEF FileInv

\* Nothing has been applied yet.
LEMMA SettingStarts == Init => FileInv /\ SettingInv
<1>. SUFFICES ASSUME Init PROVE FileInv /\ SettingInv
  OBVIOUS
<1>1. FileInv
  <2>1. jpc \notin {"start", "value", "first", "member", "name", "colon", "after", "done"}
    BY DEF Init, JsonInit
  <2>2. ~ Reading
    BY <2>1 DEF Reading
  <2>. QED
    BY <2>1, <2>2 DEF FileInv, TextInv, Told
<1>2. opc = "next" /\ nopt = 1 /\ argi = 1 /\ numports = DefaultPorts
  BY DEF Init
<1>3. Latest(Gifts, argi - 1, numports)
  BY <1>2 DEF Latest
<1>4. opc # "file" /\ opc # "done"
  BY <1>2
<1>. QED
  BY <1>1, <1>2, <1>3, <1>4 DEF SettingInv

\* Every step of process_options leaves numports as the options up to there say.
LEMMA SettingSteps ==
  ASSUME OptionsInv, OptionsInv', FileInv, SettingInv, [Next]_optVars
  PROVE  FileInv' /\ SettingInv'
<1>1. /\ HeapInv /\ HeapInv' /\ argv \in Argv /\ argi \in 1 .. Len(argv) + 1
      /\ nopt \in 1 .. Len(FromFile) + 1 /\ (opc = "file" => argi <= Len(argv))
  BY DEF OptionsInv
<1>2. /\ Len(argv) \in Nat /\ DOMAIN argv = 1 .. Len(argv)
      /\ argi \in Nat \ {0} /\ (argi <= Len(argv) => argi \in DOMAIN argv)
  <2>1. argv \in Seq(OptionType)
    BY <1>1, OptionsAssumption
  <2>2. Len(argv) \in Nat /\ DOMAIN argv = 1 .. Len(argv)
    <3>. HIDE DEF OptionType
    <3>. QED
      BY <2>1, LenProperties
  <2>. QED
    BY <1>1, <2>2
<1>3. UNCHANGED <<argv, optstring>>
  BY DEF Next, optVars, settings, UnknownOption, SetPorts, SetThreads, SetModules, Help, ConfigFile,
         NoConfigFile, NoMoreOptions, ParseFile, BadFile, Apply, Applied, Passed
<1>4. Gifts' = Gifts
  BY <1>3 DEF Gifts, Given, Recognised
<1>5. \A i \in DOMAIN argv : Gifts[i] = Given(argv[i])
  BY DEF Gifts
<1>6. \A o : Recognised(o)' <=> Recognised(o)
  BY <1>3 DEF Recognised
<1>7. UNCHANGED jsonVars => FileInv'
  BY FileStays
<1>8. ASSUME opc' = "next", nopt' = 1, Latest(Gifts, argi' - 1, numports') PROVE SettingInv'
  <2>1. opc' # "file" /\ opc' # "done"
    BY <1>8
  <2>. HIDE DEF Gifts, Latest
  <2>. QED
    BY <1>4, <1>8, <2>1 DEF SettingInv
<1>9. opc' = "exit" => SettingInv'
  BY DEF SettingInv
<1>. HIDE DEF Gifts, Latest, Recognised, Given
<1>10. ASSUME opc = "next", argi <= Len(argv), argi' = argi + 1, opc' = "next", nopt' = nopt,
              (Gifts[argi] = {} /\ numports' = numports) \/ numports' \in Gifts[argi]
       PROVE  SettingInv'
  <2>1. nopt = 1 /\ Latest(Gifts, argi - 1, numports)
    <3>1. opc # "file" /\ opc # "exit"
      BY <1>10
    <3>. QED
      BY <1>10, <3>1 DEF SettingInv
  <2>2. Latest(Gifts, argi, numports')
    BY <1>2, <1>10, <2>1, LatestOn
  <2>3. argi' - 1 = argi
    BY <1>2, <1>10
  <2>. QED
    BY <1>8, <1>10, <2>1, <2>2, <2>3
<1>11. CASE UnknownOption
  <2>1. /\ opc = "next" /\ argi <= Len(argv) /\ argi' = argi + 1 /\ opc' = opc /\ nopt' = nopt
        /\ numports' = numports /\ UNCHANGED jsonVars /\ ~ Recognised(argv[argi])
    BY <1>11 DEF UnknownOption, Passed, settings, Option
  <2>2. Gifts[argi] = {}
    BY <1>2, <1>5, <2>1 DEF Given
  <2>. QED
    BY <1>7, <1>10, <2>1, <2>2
<1>12. CASE SetPorts
  <2>1. /\ opc = "next" /\ argi <= Len(argv) /\ argi' = argi + 1 /\ opc' = opc /\ nopt' = nopt
        /\ numports' = argv[argi].n /\ UNCHANGED jsonVars
        /\ Recognised(argv[argi]) /\ argv[argi].opt = "n"
    BY <1>12 DEF SetPorts, Reads, Passed, Option
  <2>2. Gifts[argi] = {argv[argi].n}
    BY <1>2, <1>5, <2>1 DEF Given
  <2>. QED
    BY <1>7, <1>10, <2>1, <2>2
<1>13. CASE SetThreads \/ SetModules
  <2>1. /\ opc = "next" /\ argi <= Len(argv) /\ argi' = argi + 1 /\ opc' = opc /\ nopt' = nopt
        /\ numports' = numports /\ UNCHANGED jsonVars
        /\ Recognised(argv[argi]) /\ argv[argi].opt \in {"t", "m"}
    BY <1>13 DEF SetThreads, SetModules, Reads, Passed, Option, settings
  <2>2. Gifts[argi] = {}
    BY <1>2, <1>5, <2>1 DEF Given
  <2>. QED
    BY <1>7, <1>10, <2>1, <2>2
<1>14. CASE Help \/ NoConfigFile \/ BadFile
  <2>1. opc' = "exit" /\ UNCHANGED jsonVars
    BY <1>14 DEF Help, NoConfigFile, BadFile
  <2>. QED
    BY <1>7, <1>9, <2>1
<1>15. CASE ConfigFile
  <2>1. /\ opc = "next" /\ opc' = "file" /\ UNCHANGED <<argv, argi, nopt, numports>>
        /\ Recognised(argv[argi]) /\ argv[argi].opt = "c"
        /\ text' = argv[argi].file /\ jpc' = "start" /\ pos' = 1
    BY <1>15 DEF ConfigFile, Reads, Option, Parse, settings
  <2>2. nopt = 1 /\ Latest(Gifts, argi - 1, numports)
    <3>1. opc # "file" /\ opc # "exit"
      BY <2>1
    <3>. QED
      BY <2>1, <3>1 DEF SettingInv
  <2>3. ~ (nopt' > 2) /\ opc' # "next" /\ opc' # "done"
    BY <2>1, <2>2
  <2>4. SettingInv'
    BY <1>4, <1>6, <2>1, <2>2, <2>3 DEF SettingInv, Option
  <2>5. FileInv'
    <3>1. jpc' \notin {"value", "first", "member", "name", "colon", "after", "done"}
      BY <2>1
    <3>2. ~ Reading'
      BY <3>1 DEF Reading
    <3>. QED
      BY <2>1, <3>1, <3>2 DEF FileInv, TextInv, Told
  <2>. QED
    BY <2>4, <2>5
<1>16. CASE NoMoreOptions
  <2>1. /\ opc = "next" /\ opc' = "done" /\ argi > Len(argv) /\ UNCHANGED <<argv, argi, numports>>
        /\ UNCHANGED jsonVars
    BY <1>16 DEF NoMoreOptions, settings
  <2>2. Latest(Gifts, argi - 1, numports) /\ argi = Len(argv) + 1
    <3>1. opc # "file" /\ opc # "exit"
      BY <2>1
    <3>2. argi = Len(argv) + 1
      BY <1>1, <1>2, <2>1
    <3>. QED
      BY <3>1, <3>2 DEF SettingInv
  <2>3. opc' # "next" /\ opc' # "file"
    BY <2>1
  <2>. QED
    BY <1>4, <1>7, <2>1, <2>2, <2>3 DEF SettingInv
<1>17. CASE ParseFile
  <2>1. /\ JsonNext /\ UNCHANGED <<argv, argi, opc, nopt, numports>>
    BY <1>17 DEF ParseFile, settings
  <2>2. text' = text
    BY <2>1
       DEF JsonNext, NewRoot, NoRoot, Literal, Number, StringValue, StringFails, Open, NoValue,
           First, Member, NoMember, Name, NoName, Colon, NoColon, More, Close, NoClose, Accept,
           Unwind, Refuse, Fill, Fails
  <2>3. FileInv'
    BY <1>1, <2>1, FileSteps
  <2>4. SettingInv'
    BY <1>4, <1>6, <2>1, <2>2 DEF SettingInv, Option
  <2>. QED
    BY <2>3, <2>4
<1>18. CASE Apply
  <2>. DEFINE i == GetObjectItem(root, "ports")
  <2>1. /\ opc = "file" /\ jpc = "done" /\ root # NULL /\ nopt <= Len(FromFile) /\ opc' = opc
        /\ nopt' = nopt + 1 /\ UNCHANGED <<argv, argi>> /\ UNCHANGED jsonVars
        /\ numports' = IF FromFile[nopt] = "ports" THEN Setting(GetObjectItem(root, FromFile[nopt]), numports)
                       ELSE numports
    BY <1>18 DEF Apply
  <2>2. /\ argi \in DOMAIN argv /\ Recognised(argv[argi]) /\ argv[argi].opt = "c"
        /\ text = argv[argi].file /\ text' = text
        /\ Latest(Gifts, IF nopt > 2 THEN argi ELSE argi - 1, numports)
    <3>1. opc # "exit"
      BY <2>1
    <3>. QED
      BY <1>1, <1>2, <2>1, <3>1 DEF SettingInv, Option, jsonVars
  <2>3. FromFile[nopt] = "ports" <=> nopt = 2
    BY <1>1, <2>1 DEF FromFile
  <2>4. Latest(Gifts, IF nopt' > 2 THEN argi ELSE argi - 1, numports')
    <3>1. CASE nopt # 2
      <4>1. numports' = numports /\ (nopt' > 2 <=> nopt > 2)
        BY <1>1, <2>1, <2>3, <3>1
      <4>. QED
        BY <2>2, <4>1
    <3>2. CASE nopt = 2
      <4>1. numports' = Setting(i, numports)
        BY <2>1, <2>3, <3>2
      <4>2. InFile(text, "ports") = IF i # NULL /\ items[i].type = "num"
                                    THEN {items[i].number} ELSE {}
        <5>. HIDE DEF i
        <5>1. IsName("ports") /\ CharsAreBytes
          BY OptionsAssumption DEF IsName, CharsAreBytes
        <5>. QED
          BY <1>1, <2>1, <5>1, SettingInFile DEF i
      <4>3. Gifts[argi] = {atoi(v) : v \in InFile(text, "ports")}
        BY <1>5, <2>2 DEF Given
      <4>4. (Gifts[argi] = {} /\ numports' = numports) \/ numports' \in Gifts[argi]
        <5>. HIDE DEF i
        <5>. QED
          BY <4>1, <4>2, <4>3 DEF Setting
      <4>5. Latest(Gifts, argi - 1, numports)
        BY <2>2, <3>2
      <4>6. Latest(Gifts, argi, numports')
        BY <1>2, <4>4, <4>5, LatestOn
      <4>7. nopt' > 2
        BY <2>1, <3>2
      <4>. QED
        BY <4>6, <4>7
    <3>. QED
      BY <3>1, <3>2
  <2>5. SettingInv'
    <3>1. opc' = "file" /\ opc' # "next" /\ opc' # "done"
      BY <2>1
    <3>. QED
      BY <1>4, <1>6, <2>1, <2>2, <2>4, <3>1 DEF SettingInv, Option
  <2>. QED
    BY <1>7, <2>1, <2>5
<1>19. CASE Applied
  <2>1. /\ opc = "file" /\ nopt > Len(FromFile) /\ opc' = "next" /\ argi' = argi + 1 /\ nopt' = 1
        /\ numports' = numports /\ UNCHANGED jsonVars
    BY <1>19 DEF Applied, settings
  <2>2. nopt > 2 /\ opc # "exit"
    BY <1>1, <2>1 DEF FromFile
  <2>3. Latest(Gifts, argi, numports)
    BY <2>1, <2>2 DEF SettingInv
  <2>4. argi' - 1 = argi
    BY <1>2, <2>1
  <2>. QED
    BY <1>7, <1>8, <2>1, <2>3, <2>4
<1>20. CASE UNCHANGED optVars
  <2>1. UNCHANGED <<argv, argi, opc, nopt, numports, text>> /\ UNCHANGED jsonVars
    BY <1>20 DEF optVars, settings, jsonVars
  <2>2. SettingInv'
    BY <1>4, <1>6, <2>1 DEF SettingInv, Option
  <2>. QED
    BY <1>7, <2>1, <2>2
<1>. QED
  BY <1>11, <1>12, <1>13, <1>14, <1>15, <1>16, <1>17, <1>18, <1>19, <1>20 DEF Next

\* What a file gives the settings is what its tree tells, and numports is what the
\* options up to where process_options is say, in every state.
THEOREM OptionsFollowFiles == Spec => [](FileInv /\ SettingInv)
<1>1. Init => FileInv /\ SettingInv
  BY SettingStarts
<1>2. OptionsInv /\ OptionsInv' /\ FileInv /\ SettingInv /\ [Next]_optVars => FileInv' /\ SettingInv'
  BY SettingSteps
<1>. QED
  BY <1>1, <1>2, OptionsInvariant, PTL DEF Spec

\* When the switch starts up, the number of ports is that of the last option, or
\* configuration file, that gives one, whatever the files hold.
THEOREM OptionsSettingsApplied == Spec => []SettingsApplied
<1>1. OptionsInv /\ SettingInv => SettingsApplied
  <2>. SUFFICES ASSUME OptionsInv, SettingInv, opc = "done"
       PROVE LET giving == {i \in DOMAIN argv : Given(argv[i]) # {}}
             IN numports \in IF giving = {} THEN {DefaultPorts}
                             ELSE Given(argv[CHOOSE i \in giving : \A x \in giving : x <= i])
    BY DEF SettingsApplied
  <2>. DEFINE giving == {i \in DOMAIN argv : Given(argv[i]) # {}}
              n == Len(argv)
  <2>1. argi = n + 1 /\ Latest(Gifts, argi - 1, numports)
    <3>1. opc # "file" /\ opc # "exit"
      OBVIOUS
    <3>. QED
      BY <3>1 DEF SettingInv
  <2>2. n \in Nat /\ DOMAIN argv = 1 .. n
    <3>1. argv \in Seq(OptionType)
      BY OptionsAssumption DEF OptionsInv
    <3>. HIDE DEF OptionType
    <3>. QED
      BY <3>1, LenProperties
  <2>3. Latest(Gifts, n, numports)
    <3>1. argi - 1 = n
      BY <2>1, <2>2
    <3>. QED
      BY <2>1, <3>1
  <2>4. \A i \in 1 .. n : Gifts[i] = Given(argv[i])
    BY <2>2 DEF Gifts
  <2>. HIDE DEF Gifts, Given, n
  <2>5. CASE numports = DefaultPorts /\ \A i \in 1 .. n : Gifts[i] = {}
    BY <2>2, <2>4, <2>5
  <2>6. CASE \E i \in 1 .. n : numports \in Gifts[i] /\ \A j \in 1 .. n : j > i => Gifts[j] = {}
    <3>1. PICK i \in 1 .. n : numports \in Gifts[i] /\ \A j \in 1 .. n : j > i => Gifts[j] = {}
      BY <2>6
    <3>2. /\ i \in giving /\ giving \subseteq 1 .. n
          /\ \A j \in 1 .. n : j > i => j \notin giving
      BY <2>2, <2>4, <3>1
    <3>3. numports \in Given(argv[i])
      BY <2>4, <3>1
    <3>. HIDE DEF giving
    <3>4. \A x \in giving : x \in Nat /\ x <= i
      BY <2>2, <3>2
    <3>5. i \in Nat
      BY <2>2
    <3>6. i = CHOOSE y \in giving : \A x \in giving : x <= y
      <4>. DEFINE c == CHOOSE y \in giving : \A x \in giving : x <= y
      <4>1. c \in giving /\ \A x \in giving : x <= c
        BY <3>2, <3>4
      <4>. HIDE DEF c
      <4>2. c \in Nat /\ c <= i /\ i <= c
        BY <3>2, <3>4, <4>1
      <4>3. i = c
        BY ONLY <3>5, <4>2
      <4>. QED
        BY <4>3 DEF c
    <3>7. giving # {}
      BY <3>2
    <3>. QED
      BY <3>3, <3>6, <3>7 DEF giving
  <2>. QED
    BY <2>3, <2>5, <2>6 DEF Latest
<1>. QED
  BY <1>1, OptionsInvariant, OptionsFollowFiles, PTL
================================================================================
