------------------------------- MODULE MCSwitch -------------------------------
(* Model checking Switch: a directory reached through links, two workers.   *)
EXTENDS Switch

CONSTANTS me, other

File == [kind |-> "file", search |-> FALSE, abs |-> FALSE, comps |-> << >>]
Closed == [File EXCEPT !.kind = "dir"]
Dir == [Closed EXCEPT !.search = TRUE]
Link(a, c) == [kind |-> "link", search |-> FALSE, abs |-> a, comps |-> c]

Kinds == {File, Closed, Dir, Link(TRUE, <<"b">>), Link(FALSE, <<"b">>),
          Link(FALSE, <<"..", "b", "">>), Link(TRUE, <<"a", ".", "b">>),
          Link(TRUE, <<"b", "..", "a">>), Link(FALSE, <<"..", "..", "b">>)}

\* Files at /a, /b, /a/b and /b/b, each in a directory.
Places == {<<"a">>, <<"b">>, <<"a", "b">>, <<"b", "b">>}
SomeTrees == {[p \in {<< >>} \cup DOMAIN t |-> IF p = << >> THEN Dir ELSE t[p]] :
                t \in {t \in UNION {[d -> Kinds] : d \in SUBSET Places} :
                         \A p \in DOMAIN t : Len(p) = 2 =>
                           /\ Up(p) \in DOMAIN t /\ t[Up(p)].kind = "dir"}}

Names == {[abs |-> TRUE, comps |-> <<"a", "b">>], [abs |-> TRUE, comps |-> <<"a", "", "b">>],
          [abs |-> FALSE, comps |-> <<"a">>], [abs |-> FALSE, comps |-> <<"a", "">>]}
AtB == <<"b">>
Trees == {t \in SomeTrees : AtB \in DOMAIN t /\ t[AtB] = Dir}

TwoWorkers == {1, 2}
Sockets == {2, 5}
NumportsSet == {0, 3}
ThreadsSet == {-1, 0, 2}
===============================================================================
