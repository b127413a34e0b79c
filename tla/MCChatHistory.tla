--------------------------- MODULE MCChatHistory ---------------------------
(***************************************************************************)
(* Instances of ChatHistory for TLC: members with a history, and one that  *)
(* comes late.  The chat was open to all when they came, so that what they *)
(* have begins with the ninth message: 9 and 10 are the first numbers that *)
(* sort() puts the wrong way round.  In Overlapping c2 came after the      *)
(* first message; in Returning c3 is back, and has missed the last.        *)
(***************************************************************************)
EXTENDS ChatHistory

CONSTANTS c1, c2, c3

m(n) == [sequence |-> n, timems |-> n, clientid |-> c1]

Overlapping == [c \in Client |-> CASE c = c1 -> <<m(9), m(10)>>
                                   [] c = c2 -> <<m(10)>>
                                   [] c = c3 -> <<>>]
Returning   == [c \in Client |-> IF c = c3 THEN <<m(9), m(10)>>
                                            ELSE <<m(9), m(10), m(11)>>]
One         == [c \in Client |-> IF c = c3 THEN <<>> ELSE <<m(1)>>]
=============================================================================
