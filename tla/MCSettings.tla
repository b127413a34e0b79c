----------------------------- MODULE MCSettings -----------------------------
(***************************************************************************)
(* An instance of Settings for TLC: tabs are interchangeable.              *)
(***************************************************************************)
EXTENDS Settings, TLC

CONSTANTS t1, t2, here, there, p1

Tabs == Permutations({t1, t2})
=============================================================================
