------------------------------ MODULE JsonString ------------------------------
(***************************************************************************)
(* What parse_string of the vendored parser (src/config/cJSON.c) makes of  *)
(* the characters between two quotes: escapes are undone and \u literals,  *)
(* which spell UTF-16, become UTF-8.                                       *)
(*                                                                         *)
(* A string is a sequence of pieces: a number stands for the literal \u    *)
(* with that code, the four constants for the other things it may hold.    *)
(***************************************************************************)
EXTENDS Integers, Sequences

BadHex == -1     \* \u and four characters that are not all hexadecimal digits
Plain == -2      \* an ordinary character, "x"
Newline == -3    \* \n; \b, \t, \" and their like are treated alike
BadEscape == -4  \* another character after a backslash, or \u cut short

IsLiteral(p) == p >= BadHex

\* What is no number reads as zero.
parse_hex4(p) == IF p = BadHex THEN 0 ELSE p

High(c) == 55296 <= c /\ c < 56320   \* 0xD800 .. 0xDBFF
Low(c) == 56320 <= c /\ c < 57344    \* 0xDC00 .. 0xDFFF

\* How many pieces the escape or character at u[i] takes; 0 when it is bad.
Taken(u, i) ==
  CASE u[i] = BadEscape \/ Low(parse_hex4(u[i])) -> 0
    [] High(parse_hex4(u[i])) ->
         IF i < Len(u) /\ IsLiteral(u[i + 1]) /\ Low(parse_hex4(u[i + 1])) THEN 2 ELSE 0
    [] OTHER -> 1

\* The code point it stands for.
Codepoint(u, i) ==
  CASE u[i] = Plain -> 120
    [] u[i] = Newline -> 10
    [] Taken(u, i) = 2 -> 65536 + (u[i] % 1024) * 1024 + (u[i + 1] % 1024)
    [] OTHER -> parse_hex4(u[i])

\* Mutation of Encode: the boundary of two bytes is taken as one of three.
EncodeWide(c) ==
  LET continued(n) == 128 + ((c \div n) % 64)
  IN CASE c < 128 -> <<c>>
       [] 128 <= c /\ c < 2047 -> <<192 + c \div 64, continued(1)>>
       [] 2047 <= c /\ c < 65536 -> <<224 + c \div 4096, continued(64), continued(1)>>
       [] OTHER -> <<240 + c \div 262144, continued(4096), continued(64), continued(1)>>

\* Its bytes: utf8_length of them, six bits each after the first.
Encode(c) ==
  LET continued(n) == 128 + ((c \div n) % 64)
  IN CASE c < 128 -> <<c>>
       [] 128 <= c /\ c < 2048 -> <<192 + c \div 64, continued(1)>>
       [] 2048 <= c /\ c < 65536 -> <<224 + c \div 4096, continued(64), continued(1)>>
       [] OTHER -> <<240 + c \div 262144, continued(4096), continued(64), continued(1)>>

\* The loop of parse_string, at i what it does with the pieces from u[i] on: the bytes
\* it puts out, and whether it gets to the end; it stops at an escape that is bad.
Unescape(u) ==
  LET read[i \in 1 .. Len(u) + 1] ==
        IF i > Len(u) THEN [good |-> TRUE, bytes |-> << >>]
        ELSE IF Taken(u, i) = 0 THEN [good |-> FALSE, bytes |-> << >>]
        ELSE [good |-> read[i + Taken(u, i)].good,
              bytes |-> Encode(Codepoint(u, i)) \o read[i + Taken(u, i)].bytes]
  IN read

WellFormed(u) == Unescape(u)[1].good
Unescaped(u) == Unescape(u)[1].bytes

\* The bytes allocated for the output beyond those of the ordinary characters that
\* are not pieces: the literal from its opening quote on, less the backslashes, and
\* the terminating zero.
Width(p) == IF p = Plain THEN 1 ELSE IF IsLiteral(p) THEN 6 ELSE 2
Backslashes(p) == IF p = Plain THEN 0 ELSE 1
Room(u) ==
  LET room[i \in 1 .. Len(u) + 1] ==
        IF i > Len(u) THEN 2 ELSE Width(u[i]) - Backslashes(u[i]) + room[i + 1]
  IN room
Allocated(u) == Room(u)[1]

-------------------------------------------------------------------------------
\* The UTF-16 text a string of JSON spells.
Spelt(u) == [i \in DOMAIN u |-> CASE u[i] = Plain -> 120 [] u[i] = Newline -> 10
                                  [] OTHER -> u[i]]

\* A string with \u0000 where it has a \u without four digits.
Repaired(u) == [i \in DOMAIN u |-> IF u[i] = BadHex THEN 0 ELSE u[i]]
===============================================================================
