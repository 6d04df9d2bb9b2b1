----------------------------- MODULE AddressTable -----------------------------
(***************************************************************************)
(* What a switch learns about each address, as the one caller of the MAC   *)
(* table sees it: nothing, a port it is resolved to for TTL seconds after  *)
(* it was learned, or that it lapsed.  Whether an insertion takes effect   *)
(* is left open, here as in the code: a lapsed address may be learned      *)
(* again or stay lapsed.                                                   *)
(***************************************************************************)
EXTENDS Integers

CONSTANTS Key, Port, NoPort, TTL

VARIABLES now,    \* time(NULL)
          table,  \* what is known of each address
          lookup, \* the lookup under way, since it read the clock
          answer  \* result of the last lookup

Unknown == [state |-> "unknown"]
Lapsed == [state |-> "lapsed"]
Learned(p, t) == [state |-> "learned", port |-> p, time |-> t]

NoLookup == [state |-> "none"]
Asked(k, t) == [state |-> "asked", key |-> k, since |-> t]

vars == <<now, table, lookup, answer>>

Init == /\ now = 0 /\ table = [k \in Key |-> Unknown]
        /\ lookup = NoLookup /\ answer = NoPort

Tick == now' = now + 1 /\ UNCHANGED <<table, lookup, answer>>

\* The time of an insertion is read before the address can be found.
Insert(k, p) == /\ lookup = NoLookup
                /\ \E t \in 0 .. now : table' = [table EXCEPT ![k] = Learned(p, t)]
                /\ UNCHANGED <<now, lookup, answer>>

\* A new question: the answer to the last one is gone.
Call == lookup = NoLookup /\ answer' = NoPort /\ UNCHANGED <<now, table, lookup>>

Ask(k) == /\ lookup = NoLookup
          /\ lookup' = Asked(k, now)
          /\ UNCHANGED <<now, table, answer>>

Answered(p) == lookup' = NoLookup /\ answer' = p /\ UNCHANGED now

\* How old the address asked for was when the lookup read the clock.
Age(k) == lookup.since - table[k].time

Resolve(k) == /\ lookup.state = "asked" /\ lookup.key = k
              /\ table[k].state = "learned" /\ Age(k) <= TTL
              /\ Answered(table[k].port)
              /\ UNCHANGED table

Miss(k) == /\ lookup.state = "asked" /\ lookup.key = k
           /\ table[k].state # "learned"
           /\ Answered(NoPort)
           /\ UNCHANGED table

Lapse(k) == /\ lookup.state = "asked" /\ lookup.key = k
            /\ table[k].state = "learned" /\ Age(k) > TTL
            /\ table' = [table EXCEPT ![k] = Lapsed]
            /\ Answered(NoPort)

Next == \/ Tick \/ Call
        \/ \E k \in Key : \/ Ask(k) \/ Resolve(k) \/ Miss(k) \/ Lapse(k)
                          \/ \E p \in Port : Insert(k, p)

Spec == Init /\ [][Next]_vars
===============================================================================
