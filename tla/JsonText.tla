-------------------------------- MODULE JsonText --------------------------------
(***************************************************************************)
(* What cJSON_Parse is held against: the grammar of JSON texts, UTF-8 as a *)
(* decoder reads it, and the text a tree of items stands for.              *)
(***************************************************************************)
EXTENDS JsonParser, SequencesExt

(* The code points a UTF-8 decoder reads, and UTF-16 for them *)

FirstOf(b) == CASE b[1] < 128 -> 1 [] b[1] \in 194 .. 223 -> 2
                [] b[1] \in 224 .. 239 -> 3 [] b[1] \in 240 .. 244 -> 4 [] OTHER -> 0
Payload(b, n) ==
  FoldLeft(LAMBDA c, x : c * 64 + (x % 64),
           CASE n = 1 -> b[1] [] n = 2 -> b[1] % 32 [] n = 3 -> b[1] % 16 [] n = 4 -> b[1] % 8,
           SubSeq(b, 2, n))
Least(n) == CASE n = 1 -> 0 [] n = 2 -> 128 [] n = 3 -> 2048 [] n = 4 -> 65536

Utf16(c) == IF c < 65536 THEN <<c>>
            ELSE <<55296 + (c - 65536) \div 1024, 56320 + ((c - 65536) % 1024)>>

\* The UTF-16 text whose UTF-8 form b is; an ill-formed b holds a unit -1.
RECURSIVE Units(_)
Units(b) ==
  IF b = << >> THEN << >>
  ELSE LET n == FirstOf(b)
       IN IF n = 0 \/ Len(b) < n \/ \E i \in 2 .. n : b[i] \notin 128 .. 191
             \/ Payload(b, n) < Least(n)
          THEN <<-1>>
          ELSE Utf16(Payload(b, n)) \o Units(SubSeq(b, n + 1, Len(b)))

\* A string of JSON: the escapes are those of the grammar, with all their digits,
\* and in the UTF-16 they spell high surrogates are those a low one follows, and the
\* other way round.
Paired(u) ==
  /\ \A i \in DOMAIN u : u[i] \notin {BadEscape, BadHex}
  /\ LET s == Spelt(u)
     IN /\ \A i \in DOMAIN s : High(s[i]) => i < Len(s) /\ Low(s[i + 1])
        /\ \A i \in DOMAIN s : Low(s[i]) => i > 1 /\ High(s[i - 1])

-------------------------------------------------------------------------------
\* The grammar of JSON, as a predicate on sequences of tokens.
RECURSIVE IsValue(_), AreMembers(_, _)
IsMember(kind, s) ==
  \/ kind = "[" /\ IsValue(s)
  \/ /\ kind = "{" /\ Len(s) > 2 /\ s[1].k = "str" /\ Paired(s[1].u) /\ s[2].k = ":"
     /\ IsValue(Cut(s, 3, Len(s)))
AreMembers(kind, s) ==
  \/ IsMember(kind, s)
  \/ \E m \in 2 .. Len(s) - 1 : /\ s[m].k = "," /\ IsMember(kind, Cut(s, 1, m - 1))
                                /\ AreMembers(kind, Cut(s, m + 1, Len(s)))
IsValue(s) ==
  \/ Len(s) = 1 /\ s[1].k \in {"null", "false", "true", "num"}
  \/ Len(s) = 1 /\ s[1].k = "str" /\ Paired(s[1].u)
  \/ /\ Len(s) > 1 /\ s[1].k \in {"[", "{"} /\ s[Len(s)].k = Closing(s[1].k)
     /\ Len(s) = 2 \/ AreMembers(s[1].k, Cut(s, 2, Len(s) - 1))

Shallow(s) == \A n \in DOMAIN s : Nesting(Cut(s, 1, n)) <= CJSON_NESTING_LIMIT

\* A tree written as a text, its strings as the UTF-16 they stand for.
Mark(k) == [k |-> k, s |-> "", n |-> 0, u |-> << >>]
WrittenString(a) == [k |-> "str", s |-> strs[a].s, n |-> 0, u |-> Units(strs[a].b)]
RECURSIVE Written(_), WrittenList(_)
Written(i) ==
  LET t == items[i].type
  IN CASE t = "num" -> <<[Mark("num") EXCEPT !.n = items[i].number]>>
       [] t = "str" -> <<WrittenString(items[i].valuestring)>>
       [] t \in {"[", "{"} -> <<Mark(t)>> \o WrittenList(items[i].child) \o <<Mark(Closing(t))>>
       [] OTHER -> <<Mark(t)>>
WrittenList(i) ==
  IF i = NULL THEN << >>
  ELSE (IF items[i].string = NULL THEN << >>
        ELSE <<WrittenString(items[i].string), Mark(":")>>)
       \o Written(i)
       \o (IF items[i].next = NULL THEN << >>
           ELSE <<Mark(",")>> \o WrittenList(items[i].next))

Plainly(s) == [i \in DOMAIN s |-> [s[i] EXCEPT !.u = Spelt(@)]]

\* Where the parser is laxer than JSON: parse_hex4 makes a zero of what is no number,
\* and nobody asks whether it was one.
Mended(s) == [i \in DOMAIN s |-> [s[i] EXCEPT !.u = Repaired(@)]]

\* A text is accepted exactly when it starts with a JSON value that is not nested
\* too deeply, or would if every \u that lacks its digits were \u0000; and then the
\* tree is that value: every member in its place, every \u literal the UTF-8 form of
\* the UTF-16 it spells.  The one other reason to refuse it is a lack of memory.
ParsesTheText ==
  jpc = "done" =>
    LET json == Mended(text)
        good == {n \in DOMAIN json : IsValue(Cut(json, 1, n)) /\ Shallow(Cut(json, 1, n))}
    IN /\ root = NULL => oom \/ good = {}
       /\ root # NULL => \E n \in good : Written(root) = Plainly(Cut(json, 1, n))
================================================================================
