------------------------------ MODULE JsonParser ------------------------------
(***************************************************************************)
(* cJSON_Parse of the vendored parser (src/config/cJSON.c), with which     *)
(* process_json_config reads the configuration file: the tree it builds    *)
(* item by item, and how it takes everything down again when the text is   *)
(* wrong or memory runs out in the middle.                                 *)
(*                                                                         *)
(* The text is a sequence of tokens [k, s, n, u]: what kind it is, and for *)
(* a string its ordinary characters s and pieces u, for a number its value *)
(* n; whitespace lies anywhere between them.  The last token is the "end", *)
(* the terminating zero.  The calls of parse_array and parse_object that   *)
(* are under way form a stack; the depth of the input buffer is its length.*)
(***************************************************************************)
EXTENDS JsonString, FiniteSets

CONSTANTS
  CJSON_NESTING_LIMIT,
  Chars            \* the characters of the ordinary strings that occur

NULL == 0

\* A file that was read, or any other text, ends with the terminating zero.
Kinds == {"null", "false", "true", "num", "str", "open", "[", "]", "{", "}", ",", ":",
          "bad", "end"}
TokenType == [k : Kinds, s : DOMAIN Chars, n : Int, u : Seq(Int)]
IsText(t) == t \in Seq(TokenType) /\ t # << >> /\ t[Len(t)].k = "end"

VARIABLES
  text, pos,       \* the input buffer: its content and offset, in tokens
  items, strs,     \* the heap: cJSON structures and strings by address
  brk,             \* the next address malloc returns
  stack,           \* calls of parse_array and parse_object: [item, kind, head, cur]
  item,            \* the item parse_value is to fill in
  jpc,             \* where the parser is
  root,            \* the result
  oom              \* whether an allocation has failed

jsonVars == <<text, pos, items, strs, brk, stack, item, jpc, root, oom>>

JsonInit == /\ text = << >> /\ pos = 1 /\ items = << >> /\ strs = << >> /\ brk = 1
            /\ stack = << >> /\ item = NULL /\ jpc = "idle" /\ root = NULL /\ oom = FALSE

Blank == [type |-> "none", number |-> 0, valuestring |-> NULL, string |-> NULL,
          next |-> NULL, prev |-> NULL, child |-> NULL]

\* The heap with what is allocated at address a.
Put(heap, a, value) == [x \in DOMAIN heap \cup {a} |-> IF x = a THEN value ELSE heap[x]]

Token == text[pos]
Top == stack[Len(stack)]
Outer == SubSeq(stack, 1, Len(stack) - 1)
Closing(kind) == IF kind = "[" THEN "]" ELSE "}"

\* cJSON_Parse is called on a text.  The tree of an earlier one stays behind,
\* never read or freed.
Parse(t) == /\ jpc \in {"idle", "done"}
            /\ text' = t /\ pos' = 1 /\ items' = << >> /\ strs' = << >> /\ brk' = 1
            /\ jpc' = "start" /\ root' = NULL /\ oom' = FALSE
            /\ UNCHANGED <<stack, item>>

NewRoot == /\ jpc = "start"
           /\ items' = Put(items, brk, Blank) /\ root' = brk /\ item' = brk /\ brk' = brk + 1
           /\ jpc' = "value"
           /\ UNCHANGED <<text, pos, strs, stack, oom>>

NoRoot == /\ jpc = "start"
          /\ jpc' = "done" /\ oom' = TRUE
          /\ UNCHANGED <<text, pos, items, strs, brk, stack, item, root>>

Fails == /\ jpc' = "fail"
         /\ UNCHANGED <<text, pos, items, strs, brk, stack, item, root>>

-------------------------------------------------------------------------------
(* parse_value *)

Fill(filled) == /\ items' = [items EXCEPT ![item] = filled]
                /\ pos' = pos + 1 /\ jpc' = "after"
                /\ UNCHANGED <<text, stack, item, root, oom>>

Literal == /\ jpc = "value" /\ Token.k \in {"null", "false", "true"}
           /\ Fill([items[item] EXCEPT !.type = Token.k])
           /\ UNCHANGED <<strs, brk>>

Number == /\ jpc = "value" /\ Token.k = "num"
          /\ Fill([items[item] EXCEPT !.type = "num", !.number = Token.n])
          /\ UNCHANGED <<strs, brk>>

\* parse_string succeeds: its output is at address brk.
String == /\ Token.k = "str" /\ WellFormed(Token.u)
          /\ strs' = Put(strs, brk, [s |-> Token.s, b |-> Unescaped(Token.u),
                                     size |-> Allocated(Token.u)])
          /\ brk' = brk + 1

\* It fails: no string, no closing quote, no memory, or a bad escape, upon which
\* it frees its output.
NoString == \/ Token.k # "str" /\ UNCHANGED oom
            \/ Token.k = "str" /\ oom' = TRUE
            \/ Token.k = "str" /\ ~ WellFormed(Token.u) /\ UNCHANGED oom

StringValue == /\ jpc = "value" /\ String
               /\ Fill([items[item] EXCEPT !.type = "str", !.valuestring = brk])

StringFails == jpc = "value" /\ Token.k \in {"str", "open"} /\ NoString /\ Fails

\* Mutation of Open: the nesting is not limited.
OpenAnyDepth == /\ jpc = "value" /\ Token.k \in {"[", "{"}
                /\ stack' = Append(stack, [item |-> item, kind |-> Token.k,
                                           head |-> NULL, cur |-> NULL])
                /\ pos' = pos + 1 /\ jpc' = "first"
                /\ UNCHANGED <<text, items, strs, brk, item, root, oom>>

Open == /\ jpc = "value" /\ Token.k \in {"[", "{"} /\ Len(stack) < CJSON_NESTING_LIMIT
        /\ stack' = Append(stack, [item |-> item, kind |-> Token.k,
                                   head |-> NULL, cur |-> NULL])
        /\ pos' = pos + 1 /\ jpc' = "first"
        /\ UNCHANGED <<text, items, strs, brk, item, root, oom>>

NoValue == /\ jpc = "value"
           /\ \/ Token.k \in {"]", "}", ",", ":", "bad", "end"}
              \/ Token.k \in {"[", "{"} /\ Len(stack) >= CJSON_NESTING_LIMIT
           /\ Fails /\ UNCHANGED oom

-------------------------------------------------------------------------------
(* parse_array and parse_object *)

First == /\ jpc = "first" /\ Token.k # Closing(Top.kind)
         /\ jpc' = "member"
         /\ UNCHANGED <<text, pos, items, strs, brk, stack, item, root, oom>>

\* An item is added to the list.
Member ==
  /\ jpc = "member"
  /\ IF Top.head = NULL
     THEN /\ items' = Put(items, brk, Blank)
          /\ stack' = Append(Outer, [Top EXCEPT !.head = brk, !.cur = brk])
     ELSE /\ items' = Put([items EXCEPT ![Top.cur].next = brk],
                          brk, [Blank EXCEPT !.prev = Top.cur])
          /\ stack' = Append(Outer, [Top EXCEPT !.cur = brk])
  /\ item' = brk /\ brk' = brk + 1
  /\ jpc' = IF Top.kind = "[" THEN "value" ELSE "name"
  /\ UNCHANGED <<text, pos, strs, root, oom>>

NoMember == jpc = "member" /\ oom' = TRUE /\ Fails

\* Mutation of Name: valuestring keeps the address of the name.
NameKept == /\ jpc = "name" /\ String
            /\ items' = [items EXCEPT ![item].string = brk, ![item].valuestring = brk]
            /\ pos' = pos + 1 /\ jpc' = "colon"
            /\ UNCHANGED <<text, stack, item, root, oom>>

\* The name of a member: the string read becomes its string.
Name == /\ jpc = "name" /\ String
        /\ items' = [items EXCEPT ![item].string = brk]
        /\ pos' = pos + 1 /\ jpc' = "colon"
        /\ UNCHANGED <<text, stack, item, root, oom>>

NoName == jpc = "name" /\ NoString /\ Fails

Colon == /\ jpc = "colon" /\ Token.k = ":"
         /\ pos' = pos + 1 /\ jpc' = "value"
         /\ UNCHANGED <<text, items, strs, brk, stack, item, root, oom>>

NoColon == jpc = "colon" /\ Token.k # ":" /\ Fails /\ UNCHANGED oom

\* Mutation of More: what follows a comma may be the end of the list.
MoreOrEnd == /\ jpc = "after" /\ stack # << >> /\ Token.k = ","
             /\ pos' = pos + 1 /\ jpc' = "first"
             /\ UNCHANGED <<text, items, strs, brk, stack, item, root, oom>>

More == /\ jpc = "after" /\ stack # << >> /\ Token.k = ","
        /\ pos' = pos + 1 /\ jpc' = "member"
        /\ UNCHANGED <<text, items, strs, brk, stack, item, root, oom>>

\* The list is complete: the first item leads to the last one.
Close == /\ jpc \in {"first", "after"} /\ stack # << >> /\ Token.k = Closing(Top.kind)
         /\ items' = LET linked == IF Top.head = NULL THEN items
                                   ELSE [items EXCEPT ![Top.head].prev = Top.cur]
                     IN [linked EXCEPT ![Top.item].type = Top.kind,
                                       ![Top.item].child = Top.head]
         /\ stack' = Outer /\ item' = Top.item
         /\ pos' = pos + 1 /\ jpc' = "after"
         /\ UNCHANGED <<text, strs, brk, root, oom>>

NoClose == /\ jpc = "after" /\ stack # << >> /\ Token.k \notin {",", Closing(Top.kind)}
           /\ Fails /\ UNCHANGED oom

-------------------------------------------------------------------------------
(* cJSON_ParseWithLengthOpts: the end; what follows the value is not read *)

Accept == /\ jpc = "after" /\ stack = << >>
          /\ jpc' = "done" /\ item' = NULL
          /\ UNCHANGED <<text, pos, items, strs, brk, stack, root, oom>>

\* What one comes to from i where each j leads to the members of leads[j]: the least
\* set with i that holds what its members lead to.
Reached(i, leads) ==
  {j \in DOMAIN leads :
     \A S \in SUBSET DOMAIN leads :
       {i} \cup UNION {leads[k] : k \in S} \subseteq S \cup {NULL} => j \in S}

\* A list of items from i on, and the items cJSON_Delete(i) frees, with their strings.
Siblings(i) == Reached(i, [j \in DOMAIN items |-> {items[j].next}])
Tree(i) == Reached(i, [j \in DOMAIN items |-> {items[j].next, items[j].child}])
StringsOf(s) == (UNION {{items[i].valuestring, items[i].string} : i \in s}) \ {NULL}

Delete(i) == LET dead == Tree(i)
             IN /\ items' = [j \in DOMAIN items \ dead |-> items[j]]
                /\ strs' = [a \in DOMAIN strs \ StringsOf(dead) |-> strs[a]]

\* Mutation of Unwind: a list that fails is dropped.
UnwindOnly == /\ jpc = "fail" /\ stack # << >>
              /\ stack' = Outer
              /\ UNCHANGED <<text, pos, items, strs, brk, item, jpc, root, oom>>

\* parse_array and parse_object fail one after the other, each with its list.
Unwind == /\ jpc = "fail" /\ stack # << >>
          /\ Delete(Top.head)
          /\ stack' = Outer
          /\ UNCHANGED <<text, pos, brk, item, jpc, root, oom>>

Refuse == /\ jpc = "fail" /\ stack = << >>
          /\ Delete(root)
          /\ root' = NULL /\ item' = NULL /\ jpc' = "done"
          /\ UNCHANGED <<text, pos, brk, stack, oom>>

JsonNext == \/ NewRoot \/ NoRoot \/ Literal \/ Number \/ StringValue \/ StringFails
            \/ Open \/ NoValue \/ First \/ Member \/ NoMember \/ Name \/ NoName
            \/ Colon \/ NoColon \/ More \/ Close \/ NoClose \/ Accept \/ Unwind \/ Refuse

-------------------------------------------------------------------------------
(* cJSON_GetObjectItem *)

tolower(c) == IF 65 <= c /\ c <= 90 THEN c + 32 ELSE c

\* case_insensitive_strcmp with a name, which holds no zero: the bytes are its own,
\* in whatever case, up to their end or a zero.
Matches(bytes, name) ==
  /\ Len(bytes) >= Len(name)
  /\ \A i \in 1 .. Len(name) : tolower(bytes[i]) = tolower(name[i])
  /\ Len(bytes) = Len(name) \/ bytes[Len(name) + 1] = 0

\* A string of the tree is compared as it was unescaped.
Named(a, name) == a # NULL /\ Matches(Chars[strs[a].s] \o strs[a].b, Chars[name])

Members(o, name) == {i \in Siblings(items[o].child) : Named(items[i].string, name)}

\* Mutation of GetObjectItem: the last member of that name.
GetLastItem(o, name) ==
  LET found == Members(o, name)
  IN IF found = {} THEN NULL ELSE CHOOSE i \in found : \A j \in found : i \in Siblings(j)

\* The first member of that name.
GetObjectItem(o, name) ==
  LET found == Members(o, name)
  IN IF found = {} THEN NULL ELSE CHOOSE i \in found : \A j \in found : j \in Siblings(i)

-------------------------------------------------------------------------------
(* Properties *)

Cut(s, m, n) == SubSeq(s, m, n)
Nesting(s) == Cardinality({i \in DOMAIN s : s[i].k \in {"[", "{"}})
              - Cardinality({i \in DOMAIN s : s[i].k \in {"]", "}"}})

Held == UNION {{<<items[i].valuestring, i, "v">>, <<items[i].string, i, "s">>} :
                 i \in DOMAIN items}

\* At every moment the lists under construction are sound: no pointer leads to
\* memory that was freed, siblings mirror each other, a first child leads to the
\* last one, no string has two owners, none outgrows its allocation.
HeapIsSound ==
  LET live == DOMAIN items \cup {NULL}
  IN /\ \A i \in DOMAIN items :
          /\ {items[i].next, items[i].prev, items[i].child} \subseteq live
          /\ {items[i].valuestring, items[i].string} \subseteq DOMAIN strs \cup {NULL}
          /\ items[i].next # NULL => items[items[i].next].prev = i
          /\ items[i].child # NULL =>
               LET last == items[items[i].child].prev
               IN last \in Siblings(items[i].child) /\ items[last].next = NULL
     /\ \A h1, h2 \in Held : h1[1] = h2[1] /\ h1[1] # NULL => h1 = h2
     /\ \A f \in DOMAIN stack : {stack[f].item, stack[f].head, stack[f].cur} \subseteq live
     /\ \A a \in DOMAIN strs : Len(strs[a].b) + 1 <= strs[a].size

\* When cJSON_Parse returns, everything allocated belongs to the tree it returns:
\* a text that is refused, wherever in its nesting, leaves nothing behind.
NothingLeaks ==
  jpc = "done" => /\ DOMAIN items = Tree(root)
                  /\ DOMAIN strs = StringsOf(Tree(root))
===============================================================================
