---------------------------- MODULE MCChatClient ----------------------------
(***************************************************************************)
(* Instances of ChatClient for TLC.                                        *)
(***************************************************************************)
EXTENDS ChatClient, TLC

CONSTANTS w1, w2, p1

=============================================================================
