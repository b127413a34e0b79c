-------------------------- MODULE MCChatPathRouter --------------------------
(***************************************************************************)
(* An instance of ChatPathRouter for TLC: two requests for one chat, one   *)
(* for another and one for a file.                                         *)
(***************************************************************************)
EXTENDS ChatPathRouter, TLC

CONSTANTS r1, r2, r3, r4, here, there

SomePaths == [r \in Request |-> IF r = r3 THEN there ELSE here]
=============================================================================
