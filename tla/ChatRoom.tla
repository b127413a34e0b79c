------------------------------ MODULE ChatRoom ------------------------------
(***************************************************************************)
(* What one chat of the server promises, whatever threads run its          *)
(* listener: a frame passes only between members that were cleared, a      *)
(* member is cleared when it comes while the chat has no key or when it    *)
(* offers the key, the key is only ever the offer of somebody who came     *)
(* while there was none, and one member's frames reach each other member   *)
(* in the order they were sent, each at most once.                         *)
(* ChatListener.tla is shown to implement this module.                     *)
(***************************************************************************)
EXTENDS Naturals

CONSTANTS Member,   \* whoever may speak in the chat
          Key,      \* the keys a member can offer
          NoKey,    \* stands for the absence of one
          FrameId   \* the numbers of the frames, in the order they came in

VARIABLES
    key,         \* the chat's key
    cleared,     \* the members that have been let in
    offer,       \* what each member offers at the moment
    contenders,  \* members that saw no key and are about to set theirs
    delivered    \* delivered[c][d]: the last frame of c that reached d

vars == <<key, cleared, offer, contenders, delivered>>

TypeOK ==
    /\ key \in Key \cup {NoKey}
    /\ cleared \subseteq Member
    /\ offer \in [Member -> Key \cup {NoKey}]
    /\ contenders \subseteq Member
    /\ delivered \in [Member -> [Member -> FrameId \cup {0}]]

Init ==
    /\ key = NoKey
    /\ cleared = {}
    /\ offer = [c \in Member |-> NoKey]
    /\ contenders = {}
    /\ delivered = [c \in Member |-> [d \in Member |-> 0]]

-----------------------------------------------------------------------------

\* c comes while the chat is open to all; with a key in hand it contends to
\* close it.
Enter(c, k) ==
    /\ key = NoKey
    /\ offer[c] = NoKey
    /\ offer' = [offer EXCEPT ![c] = k]
    /\ cleared' = cleared \cup {c}
    /\ contenders' = IF k = NoKey THEN contenders ELSE contenders \cup {c}
    /\ UNCHANGED <<key, delivered>>

\* c offers a key to a chat that has one.
Knock(c, k) ==
    /\ key # NoKey
    /\ offer[c] = NoKey
    /\ offer' = [offer EXCEPT ![c] = k]
    /\ UNCHANGED <<key, cleared, contenders, delivered>>

\* A contender's offer becomes the key.
Protect(c) ==
    /\ c \in contenders
    /\ key' = offer[c]
    /\ contenders' = contenders \ {c}
    /\ UNCHANGED <<cleared, offer, delivered>>

\* The offer is right.
Unlock(c) ==
    /\ key # NoKey
    /\ offer[c] = key
    /\ cleared' = cleared \cup {c}
    /\ UNCHANGED <<key, offer, contenders, delivered>>

\* c's offer has been dealt with.
Withdraw(c) ==
    /\ c \notin contenders
    /\ offer' = [offer EXCEPT ![c] = NoKey]
    /\ UNCHANGED <<key, cleared, contenders, delivered>>

Deliver(c, d, n) ==
    /\ c # d
    /\ {c, d} \subseteq cleared
    /\ n > delivered[c][d]
    /\ delivered' = [delivered EXCEPT ![c][d] = n]
    /\ UNCHANGED <<key, cleared, offer, contenders>>

Next ==
    \E c \in Member :
        \/ \E k \in Key \cup {NoKey} : Enter(c, k) \/ Knock(c, k)
        \/ Protect(c)
        \/ Unlock(c)
        \/ Withdraw(c)
        \/ \E d \in Member, n \in FrameId : Deliver(c, d, n)

Spec == Init /\ [][Next]_vars
=============================================================================
