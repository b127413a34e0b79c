--------------------------- MODULE MCChatListener ---------------------------
(***************************************************************************)
(* Instances of ChatListener for TLC.                                      *)
(***************************************************************************)
EXTENDS ChatListener, TLC

CONSTANTS c1, c2, c3, p1, p2

\* Each channel with a hash code of its own; the theorems cover equal ones too.
DistinctCodes == [c \in Channel |-> CASE c = c1 -> 1 [] c = c2 -> 2 [] c = c3 -> 3]

\* Bounds: nothing is explored beyond errors of a second channel; beyond a
\* HashMap that misbehaved, which excuses what these runs check; or beyond errors
\* and losses of a second channel.
ErrorsOfOne == Cardinality({c \in Channel : errorCount[c] > 0}) <= 1
Undamaged   == ~damaged
OneInTrouble ==
    /\ Undamaged
    /\ Cardinality({c \in Channel : conn[c] \in {"broken", "closed"} \/ errorCount[c] > 0}) <= 1

ChannelsAlike  == Permutations(Channel)
PasswordsAlike == Permutations(Password)
Alike == ChannelsAlike \cup PasswordsAlike
=============================================================================
