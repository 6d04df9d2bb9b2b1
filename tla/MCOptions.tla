------------------------------- MODULE MCOptions -------------------------------
(* Model checking Options: short texts of every shape, and command lines of  *)
(* up to three options over a few meaningful files.                          *)
EXTENDS Options, JsonText

P(k) == Mark(k)
S(s) == [P("str") EXCEPT !.s = s]
N(n) == [P("num") EXCEPT !.n = n]
U(u) == [P("str") EXCEPT !.u = u]
End == <<P("end")>>

Tokens == {P(k) : k \in {"[", "]", "{", "}", ",", ":", "true", "open", "bad"}}
          \cup {S("ports"), N(50)}
UpTo(n, set) == UNION {[1 .. m -> set] : m \in 0 .. n}
Inner == {P(k) : k \in {"[", "]", "{", "}", ","}} \cup {S("ports"), N(50)}

Pieces == {BadHex, Plain, Newline, BadEscape, 127, 128, 2047, 2048, 55295, 55296, 56319,
           56320, 57343, 57344, 65535}

Member1 == <<P("{"), S("ports"), P(":")>>
Texts == {t \o End : t \in
            UpTo(3, Tokens)
            \cup {Member1 \o t : t \in UpTo(3, Inner)}
            \cup {Member1 \o <<N(24), P(",")>> \o t : t \in UpTo(2, Inner)}
            \cup {<<P("["), P("["), N(1), P("]"), P(",")>> \o t : t \in UpTo(3, Inner)}
            \cup {<<P("["), U(u), P("]")>> : u \in UpTo(2, Pieces)}}

File(members) == <<P("{")>> \o members \o <<P("}")>> \o End
Pair(s, v) == <<S(s), P(":"), v>>
And == <<P(",")>>
Files == {File(Pair("ports", N(50)) \o And \o Pair("threads", N(12849))),
          File(Pair("modules", P("null")) \o And \o Pair("PORTS", N(57)) \o And
               \o Pair("ports", N(51))),
          File(Pair("Ports", S("ports")) \o And \o Pair("ports", N(24))),
          File(<<[S("ports") EXCEPT !.u = <<0>>], P(":"), N(13)>> \o And \o Pair("x", N(50))),
          File(<<[S("ports") EXCEPT !.u = <<383>>], P(":"), N(52)>> \o And
               \o <<[S("port") EXCEPT !.u = <<83, BadHex, Plain>>], P(":"), N(49)>>),
          <<P("{")>> \o Pair("x", N(50)) \o <<P("}")>> \o File(Pair("ports", N(51))),
          File(Pair("x", P("{")) \o Pair("ports", N(50)) \o <<P("}")>> \o And
               \o Pair("threads", N(-12849)) \o And \o Pair("ports", N(3486509)))}

Opt(opt, form, arg, n) == [opt |-> opt, form |-> form, arg |-> arg, n |-> n, file |-> << >>]
With(t, form) == [Opt("c", form, TRUE, 0) EXCEPT !.file = t]
Opts == {Opt("n", "long", TRUE, 4), Opt("n", "short", TRUE, 5), Opt("n", "long", FALSE, 0),
         Opt("t", "long", TRUE, 2), Opt("m", "short", TRUE, 0), Opt("h", "short", FALSE, 0),
         Opt("h", "long", FALSE, 0), Opt("x", "long", FALSE, 0), Opt("c", "long", TRUE, 0)}
        \cup {With(t, f) : t \in Files, f \in {"long"}}
Some == {Opt("n", "long", TRUE, 4), Opt("m", "short", TRUE, 0)} \cup {With(t, "short") : t \in Files}

CommandLines == {<<With(t, "long")>> : t \in Texts} \cup UpTo(2, Opts) \cup [1 .. 3 -> Some]

Spelling == [s \in {"", "port", "ports", "PORTS", "Ports", "threads", "modules", "x"} |->
               CASE s = "" -> << >>
                 [] s = "x" -> <<120>>
                 [] s = "port" -> <<112, 111, 114, 116>>
                 [] s = "ports" -> <<112, 111, 114, 116, 115>>
                 [] s = "Ports" -> <<80, 111, 114, 116, 115>>
                 [] s = "PORTS" -> <<80, 79, 82, 84, 83>>
                 [] s = "threads" -> <<116, 104, 114, 101, 97, 100, 115>>
                 [] s = "modules" -> <<109, 111, 100, 117, 108, 101, 115>>]
OneFile == {<<With(t, "long")>> : t \in Files}
===============================================================================
