-------------------- MODULE ChatListenerMembership_proofs --------------------
(***************************************************************************)
(* More about ChatListener: who is in the two registers while the HashMap  *)
(* behaves.  It builds on the type and the listing invariants of           *)
(* ChatListener_proofs.                                                    *)
(***************************************************************************)
EXTENDS ChatListener_proofs

MembershipInv == RegisteredInv /\ GoneInv

\* A session whose callback handles a frame is not closed.
LEMMA HandlingIsLive ==
    ASSUME GoneInv, NEW c \in Channel, pc[c] \notin {"idle", "remove", "unlist"}
    PROVE  conn[c] # "closed"
BY DEF GoneInv, Closing

\* close() closes no connection by itself: that is for onClose.
LEMMA CloseOnlyBreaks ==
    ASSUME TypeOK, NEW c \in Channel, NEW d \in Channel,
           NEW o \in ErrorOutcomes(c, d), NEW closes \in BOOLEAN,
           CountError(c, d, o, closes)
    PROVE  /\ \A x \in Channel : conn'[x] = "closed" <=> conn[x] = "closed"
           /\ damaged => damaged'
<1>1. \A x \in Channel : conn'[x] = "closed" <=> conn[x] = "closed"
  BY DEF TypeOK, CountError, CloseIf
<1>2. damaged => damaged'
  BY Zenon DEF CountError
<1>3. QED
  BY <1>1, <1>2

\* A step that moves no callback and touches no register keeps the invariant.
LEMMA MembershipIdles ==
    ASSUME MembershipInv,
           UNCHANGED <<channels, channelMap, holder, pc, answer, damaged>>,
           \A x \in Channel : conn'[x] = "closed" <=> conn[x] = "closed"
    PROVE  MembershipInv'
BY DEF MembershipInv, RegisteredInv, GoneInv, ClosedAreGone, HashesDiffer

\* A callback at work that goes on to l, leaving the registers alone, keeps the
\* invariant, if it goes on to a good answer only for a registered session.
LEMMA MembershipRests ==
    ASSUME TypeOK, MembershipInv, NEW c \in Channel, NEW l,
           UNCHANGED <<channels, channelMap, holder>>,
           pc' = [pc EXCEPT ![c] = l], pc[c] \notin {"put", "remove", "unlist"},
           l # "unlist", conn[c] # "closed",
           \A x \in Channel : conn'[x] = "closed" <=> conn[x] = "closed",
           \A x \in Channel \ {c} : answer'[x] = answer[x],
           damaged => damaged',
           ~damaged' /\ l = "reply" /\ answer'[c] # "wrong" => c \in channelMap
    PROVE  MembershipInv'
<1>1. /\ pc'[c] = l
      /\ \A x \in Channel \ {c} : pc'[x] = pc[x]
  BY DEF TypeOK
<1>2. RegisteredInv'
  BY <1>1 DEF MembershipInv, RegisteredInv
<1>3. \A x \in Channel : conn'[x] = "closed" => pc'[x] \in {"idle"} \cup Closing
  BY <1>1 DEF MembershipInv, GoneInv
<1>4. GoneInv'
  BY <1>1, <1>3 DEF MembershipInv, GoneInv, ClosedAreGone, HashesDiffer
<1>5. QED
  BY <1>2, <1>4 DEF MembershipInv

\* addChannel, the answers and onClose keep the two registers in step.
LEMMA MembershipStep ==
    TypeOK /\ ListedInv /\ MembershipInv /\ [Next]_vars => MembershipInv'
<1> SUFFICES ASSUME TypeOK, ListedInv, MembershipInv, [Next]_vars PROVE MembershipInv'
  OBVIOUS
<1> USE DEF shared, callback, history
<1>a. GoneInv /\ RegisteredInv
  BY DEF MembershipInv
<1>1. ASSUME NEW c \in Channel, Connect(c) PROVE MembershipInv'
  <2>1. \A x \in Channel : conn'[x] = "closed" <=> conn[x] = "closed"
    BY <1>1 DEF Connect, TypeOK
  <2>2. QED
    BY <1>1, <2>1, MembershipIdles DEF Connect
<1>2. ASSUME NEW c \in Channel, Break(c) PROVE MembershipInv'
  <2>1. \A x \in Channel : conn'[x] = "closed" <=> conn[x] = "closed"
    BY <1>2 DEF Break, TypeOK
  <2>2. QED
    BY <1>2, <2>1, MembershipIdles DEF Break
<1>3. ASSUME NEW c \in Channel, OnError(c) PROVE MembershipInv'
  BY <1>3, MembershipRests DEF OnError, Goto
<1>4. ASSUME NEW c \in Channel, NEW f \in Frame, OnFrame(c, f) PROVE MembershipInv'
  <2>1. pc' = [pc EXCEPT ![c] = pc'[c]] /\ pc'[c] \notin {"reply", "unlist"}
    BY <1>4 DEF OnFrame, PasswordBranch, TypeOK
  <2>2. UNCHANGED <<channels, channelMap, holder, conn, answer, damaged>>
    BY <1>4 DEF OnFrame
  <2>3. pc[c] = "idle" /\ conn[c] # "closed"
    BY <1>4 DEF OnFrame
  <2>4. QED
    BY <2>1, <2>2, <2>3, MembershipRests
<1>5. ASSUME NEW c \in Channel, OnClose(c) PROVE MembershipInv'
  <2>1. UNCHANGED <<channels, channelMap, holder, answer, damaged>> /\ pc[c] = "idle"
    BY <1>5 DEF OnClose
  <2>2. pc' = [pc EXCEPT ![c] = "remove"] /\ conn' = [conn EXCEPT ![c] = "closed"]
    BY <1>5 DEF OnClose, Goto
  <2>3. RegisteredInv'
    BY <1>a, <2>1, <2>2 DEF TypeOK, RegisteredInv
  <2>4. GoneInv'
    BY <1>a, <2>1, <2>2 DEF TypeOK, GoneInv, ClosedAreGone, HashesDiffer, Closing
  <2>5. QED
    BY <2>3, <2>4 DEF MembershipInv
<1>6. ASSUME NEW c \in Channel, SetPassword(c) PROVE MembershipInv'
  <2>1. conn[c] # "closed"
    BY <1>6, <1>a, HandlingIsLive DEF SetPassword
  <2>2. \A x \in Channel \ {c} : answer'[x] = answer[x]
    BY <1>6 DEF SetPassword, TypeOK
  <2>3. QED
    BY <1>6, <2>1, <2>2, MembershipRests DEF SetPassword, Goto
<1>7. ASSUME NEW c \in Channel, Compare(c) PROVE MembershipInv'
  <2>1. conn[c] # "closed" /\ pc[c] = "compare"
    BY <1>7, <1>a, HandlingIsLive DEF Compare
  <2>2. \/ Goto(c, "contains") /\ answer' = [answer EXCEPT ![c] = "ok"]
        \/ Goto(c, "reply") /\ answer' = [answer EXCEPT ![c] = "wrong"]
    BY <1>7 DEF Compare
  <2>3. UNCHANGED <<channels, channelMap, holder, conn, damaged>>
    BY <1>7 DEF Compare
  <2>4. CASE Goto(c, "contains") /\ answer' = [answer EXCEPT ![c] = "ok"]
    <3>1. \A x \in Channel \ {c} : answer'[x] = answer[x]
      BY <2>4 DEF TypeOK
    <3>2. QED
      BY <2>1, <2>3, <2>4, <3>1, MembershipRests DEF Goto
  <2>5. CASE Goto(c, "reply") /\ answer' = [answer EXCEPT ![c] = "wrong"]
    <3>1. answer'[c] = "wrong" /\ \A x \in Channel \ {c} : answer'[x] = answer[x]
      BY <2>5 DEF TypeOK
    <3>2. QED
      BY <2>1, <2>3, <2>5, <3>1, MembershipRests DEF Goto
  <2>6. QED
    BY <2>2, <2>4, <2>5
<1>8. ASSUME NEW c \in Channel, Gate(c) PROVE MembershipInv'
  <2>1. conn[c] # "closed" /\ pc[c] = "gate"
    BY <1>8, <1>a, HandlingIsLive DEF Gate
  <2>2. PICK found \in Lookup(c) :
            /\ Goto(c, AfterGate(found))
            /\ answer' = [answer EXCEPT ![c] = IF found THEN @ ELSE "wrong"]
            /\ damaged' = (damaged \/ found # (c \in channelMap))
    BY <1>8 DEF Gate
  <2>3. UNCHANGED <<channels, channelMap, holder, conn>>
    BY <1>8 DEF Gate
  <2>4. damaged => damaged'
    BY <2>2, Zenon
  <2>5. pc' = [pc EXCEPT ![c] = AfterGate(found)]
    BY <2>2 DEF Goto
  <2>6. AfterGate(found) = "reply" => answer'[c] = "wrong"
    BY <2>2 DEF AfterGate, TypeOK
  <2>7. \A x \in Channel \ {c} : answer'[x] = answer[x]
    BY <2>2 DEF TypeOK
  <2>8. AfterGate(found) # "unlist"
    BY DEF AfterGate
  <2>9. QED
    BY <2>1, <2>3, <2>4, <2>5, <2>6, <2>7, <2>8, MembershipRests
<1>9. ASSUME NEW c \in Channel, AddContains(c) PROVE MembershipInv'
  <2>1. conn[c] # "closed" /\ pc[c] = "contains"
    BY <1>9, <1>a, HandlingIsLive DEF AddContains
  <2>2. PICK found \in Lookup(c) :
            /\ Goto(c, IF found THEN AfterAdd(c) ELSE "list")
            /\ damaged' = (damaged \/ found # (c \in channelMap))
    BY <1>9 DEF AddContains
  <2>3. UNCHANGED <<channels, channelMap, holder, conn, answer>>
    BY <1>9 DEF AddContains
  <2>4. damaged => damaged'
    BY <2>2, Zenon
  <2>5. DEFINE l == IF found THEN AfterAdd(c) ELSE "list"
  <2>6. l = "reply" => c \in channelMap
    BY <2>2, LookupFinds
  <2>7. pc' = [pc EXCEPT ![c] = l] /\ l # "unlist"
    BY <2>2 DEF Goto, AfterAdd
  <2>8. QED
    <3> HIDE DEF l
    <3> QED
      BY <2>1, <2>3, <2>4, <2>6, <2>7, MembershipRests
<1>10. ASSUME NEW c \in Channel, AddListed(c) PROVE MembershipInv'
  <2>1. conn[c] # "closed" /\ pc[c] = "list"
    BY <1>10, <1>a, HandlingIsLive DEF AddListed
  <2>2. UNCHANGED <<channelMap, holder, conn, answer, damaged>>
    BY <1>10 DEF AddListed
  <2>3. pc' = [pc EXCEPT ![c] = "put"] /\ channels' \subseteq channels \cup {c}
    BY <1>10 DEF AddListed, Goto, Listed
  <2>4. RegisteredInv'
    BY <1>a, <2>1, <2>2, <2>3 DEF TypeOK, RegisteredInv
  <2>5. GoneInv'
    BY <1>a, <2>1, <2>2, <2>3 DEF TypeOK, GoneInv, ClosedAreGone, HashesDiffer
  <2>6. QED
    BY <2>4, <2>5 DEF MembershipInv
<1>11. ASSUME NEW c \in Channel, MapPutEnd(c) PROVE MembershipInv'
  <2>1. conn[c] # "closed" /\ pc[c] = "put"
    BY <1>11, <1>a, HandlingIsLive DEF MapPutEnd
  <2>2. UNCHANGED <<channels, holder, conn, answer>>
    BY <1>11 DEF MapPutEnd
  <2>3. ~damaged' => ~damaged /\ channelMap' = channelMap \cup {c}
    BY <1>11, Zenon DEF MapPutEnd, Put
  <2>4. pc' = [pc EXCEPT ![c] = AfterAdd(c)] /\ AfterAdd(c) \in {"reply", "relayStart"}
    BY <1>11 DEF MapPutEnd, Goto, AfterAdd
  <2>5. /\ pc'[c] \in {"reply", "relayStart"}
        /\ \A x \in Channel \ {c} : pc'[x] = pc[x]
    BY <2>4 DEF TypeOK
  <2>6. RegisteredInv'
    BY <1>a, <2>2, <2>3, <2>5 DEF RegisteredInv
  <2>7. GoneInv'
    <3>1. \A x \in Channel : conn'[x] = "closed" => pc'[x] \in {"idle"} \cup Closing
      BY <1>a, <2>1, <2>2, <2>5 DEF GoneInv
    <3>2. QED
      BY <1>a, <2>1, <2>2, <2>3, <2>5, <3>1 DEF GoneInv, ClosedAreGone, HashesDiffer
  <2>8. QED
    BY <2>6, <2>7 DEF MembershipInv
<1>12. ASSUME NEW c \in Channel, RelayStart(c) PROVE MembershipInv'
  <2>1. conn[c] # "closed" /\ pc[c] = "relayStart"
    BY <1>12, <1>a, HandlingIsLive DEF RelayStart
  <2>2. UNCHANGED <<channels, channelMap, holder, conn, damaged>>
    BY <1>12 DEF RelayStart
  <2>3. CASE Goto(c, "relay") /\ UNCHANGED answer
    BY <2>1, <2>2, <2>3, MembershipRests DEF Goto
  <2>4. CASE Return(c)
    <3>1. \A x \in Channel \ {c} : answer'[x] = answer[x]
      BY <2>4 DEF Return, TypeOK
    <3>2. QED
      BY <2>1, <2>2, <2>4, <3>1, MembershipRests DEF Return
  <2>5. QED
    BY <1>12, <2>3, <2>4 DEF RelayStart
<1>13. ASSUME NEW c \in Channel, RelayEnd(c) PROVE MembershipInv'
  <2>1. conn[c] # "closed" /\ pc[c] = "relay"
    BY <1>13, <1>a, HandlingIsLive DEF RelayEnd
  <2>2. \A x \in Channel \ {c} : answer'[x] = answer[x]
    BY <1>13 DEF RelayEnd, Return, TypeOK
  <2>3. QED
    BY <1>13, <2>1, <2>2, MembershipRests DEF RelayEnd, Return
<1>14. ASSUME NEW c \in Channel, NEW d \in Channel, RelaySend(c, d) PROVE MembershipInv'
  BY <1>14, MembershipIdles DEF RelaySend
<1>15. ASSUME NEW c \in Channel, NEW d \in Channel, RelayFail(c, d) PROVE MembershipInv'
  <2>1. conn[c] # "closed" /\ pc[c] = "relay"
    BY <1>15, <1>a, HandlingIsLive DEF RelayFail
  <2>2. PICK o \in ErrorOutcomes(c, d) :
            /\ CountError(c, d, o, FALSE)
            /\ Goto(c, IF o[2] = 0 THEN "throw" ELSE "relay")
    BY <1>15 DEF RelayFail
  <2>3. Goto(c, "throw") \/ Goto(c, "relay")
    BY <2>2
  <2>4. /\ \A x \in Channel : conn'[x] = "closed" <=> conn[x] = "closed"
        /\ damaged => damaged'
    BY <2>2, CloseOnlyBreaks
  <2>5. UNCHANGED <<channels, channelMap, holder, answer>>
    BY <1>15 DEF RelayFail
  <2>6. QED
    BY <2>1, <2>3, <2>4, <2>5, MembershipRests DEF Goto
<1>16. ASSUME NEW c \in Channel, NEW d \in Channel, RelaySkip(c, d) PROVE MembershipInv'
  BY <1>16, MembershipIdles DEF RelaySkip
<1>17. ASSUME NEW c \in Channel, Reply(c) PROVE MembershipInv'
  <2>1. conn[c] # "closed" /\ pc[c] = "reply"
    BY <1>17, <1>a, HandlingIsLive DEF Reply
  <2>2. UNCHANGED <<channels, channelMap, conn, damaged>>
    BY <1>17 DEF Reply
  <2>3. /\ pc' = [pc EXCEPT ![c] = "idle"]
        /\ answer' = [answer EXCEPT ![c] = "none"]
    BY <1>17 DEF Reply, Return
  <2>4. /\ answer[c] = "wrong" => holder'[c] = NoPassword
        /\ \A x \in Channel \ {c} : holder'[x] = holder[x]
    BY <1>17 DEF Reply, TypeOK
  <2>5. RegisteredInv'
    BY <1>a, <2>1, <2>2, <2>3, <2>4 DEF TypeOK, RegisteredInv
  <2>6. GoneInv'
    BY <1>a, <2>1, <2>2, <2>3 DEF TypeOK, GoneInv, ClosedAreGone, HashesDiffer
  <2>7. QED
    BY <2>5, <2>6 DEF MembershipInv
<1>18. ASSUME NEW c \in Channel, ReplyFail(c) PROVE MembershipInv'
  <2>1. conn[c] # "closed" /\ pc[c] = "reply"
    BY <1>18, <1>a, HandlingIsLive DEF ReplyFail
  <2>2. PICK o \in ErrorOutcomes(c, c) :
            /\ CountError(c, c, o, FALSE)
            /\ IF o[2] = 0 THEN Goto(c, "throw") /\ UNCHANGED <<answer, todo>>
                           ELSE Return(c)
    BY <1>18 DEF ReplyFail
  <2>3. /\ \A x \in Channel : conn'[x] = "closed" <=> conn[x] = "closed"
        /\ damaged => damaged'
    BY <2>2, CloseOnlyBreaks
  <2>4. UNCHANGED <<channels, channelMap, holder>>
    BY <1>18 DEF ReplyFail
  <2>5. CASE Goto(c, "throw") /\ UNCHANGED answer
    BY <2>1, <2>3, <2>4, <2>5, MembershipRests DEF Goto
  <2>6. CASE Return(c)
    <3>1. \A x \in Channel \ {c} : answer'[x] = answer[x]
      BY <2>6 DEF Return, TypeOK
    <3>2. QED
      BY <2>1, <2>3, <2>4, <2>6, <3>1, MembershipRests DEF Return
  <2>7. QED
    BY <2>2, <2>5, <2>6
<1>19. ASSUME NEW c \in Channel, Throw(c) PROVE MembershipInv'
  <2>1. conn[c] # "closed" /\ pc[c] = "throw"
    BY <1>19, <1>a, HandlingIsLive DEF Throw
  <2>2. PICK o \in ErrorOutcomes(c, c), closes \in BOOLEAN : CountError(c, c, o, closes)
    BY <1>19 DEF Throw
  <2>3. /\ \A x \in Channel : conn'[x] = "closed" <=> conn[x] = "closed"
        /\ damaged => damaged'
    BY <2>2, CloseOnlyBreaks
  <2>4. UNCHANGED <<channels, channelMap, holder>> /\ Return(c)
    BY <1>19 DEF Throw
  <2>5. \A x \in Channel \ {c} : answer'[x] = answer[x]
    BY <2>4 DEF Return, TypeOK
  <2>6. QED
    BY <2>1, <2>3, <2>4, <2>5, MembershipRests DEF Return
<1>20. ASSUME NEW c \in Channel, RemoveEnd(c) PROVE MembershipInv'
  <2>1. conn[c] = "closed" /\ pc[c] = "remove"
    BY <1>20 DEF RemoveEnd, ListedInv, Closing
  <2>2. UNCHANGED <<channels, holder, conn, answer>>
    BY <1>20 DEF RemoveEnd
  <2>3. PICK found \in {c \in channelMap} \cup {FALSE : e \in {c} \cap torn} :
            /\ Goto(c, AfterRemove(found))
            /\ damaged' = \/ damaged
                          \/ channelMap' # channelMap \ {c}
                          \/ found # (c \in channelMap)
    BY <1>20 DEF RemoveEnd
  <2>4. ~damaged' => /\ ~damaged
                     /\ channelMap' = channelMap \ {c}
                     /\ found = (c \in channelMap)
    BY <2>3, Zenon
  <2>5. /\ pc'[c] = AfterRemove(found)
        /\ \A x \in Channel \ {c} : pc'[x] = pc[x]
    BY <2>3 DEF Goto, TypeOK
  <2>6. AfterRemove(found) \in {"idle", "unlist"}
    BY DEF AfterRemove
  <2>7. RegisteredInv'
    BY <1>a, <2>1, <2>2, <2>4, <2>5, <2>6 DEF RegisteredInv
  <2>8. \A x \in Channel : conn'[x] = "closed" => pc'[x] \in {"idle"} \cup Closing
    BY <1>a, <2>2, <2>5, <2>6 DEF GoneInv, Closing
  <2>9. ASSUME ~damaged', HashesDiffer
        PROVE  /\ c \notin channelMap'
               /\ c \in channels' => pc'[c] = "unlist"
    <3>1. channelMap' = channelMap \ {c} /\ ~damaged
      BY <2>4, <2>9
    <3>2. c \in channels => c \in channelMap
      BY <1>a, <2>1, <2>9, <3>1 DEF GoneInv
    <3>3. c \in channelMap => AfterRemove(found) = "unlist"
      BY <2>4, <2>9 DEF AfterRemove
    <3>4. QED
      BY <2>2, <2>5, <3>1, <3>2, <3>3
  <2>10. GoneInv'
    <3>1. ASSUME ~damaged', HashesDiffer, NEW x \in Channel
          PROVE  /\ conn'[x] = "closed" /\ pc'[x] = "idle" => x \notin channelMap' \cup channels'
                 /\ pc'[x] = "unlist" => x \notin channelMap'
                 /\ x \in channels' => x \in channelMap' \/ pc'[x] \in {"put", "unlist"}
      <4>1. CASE x = c
        BY <2>5, <2>6, <2>9, <3>1, <4>1
      <4>2. CASE x # c
        BY <1>a, <2>2, <2>4, <2>5, <3>1, <4>2 DEF GoneInv, ClosedAreGone
      <4>3. QED
        BY <4>1, <4>2
    <3>2. QED
      BY <2>8, <3>1 DEF GoneInv, ClosedAreGone, HashesDiffer
  <2>11. QED
    BY <2>7, <2>10 DEF MembershipInv
<1>21. ASSUME NEW c \in Channel, Unlist(c) PROVE MembershipInv'
  <2>1. UNCHANGED <<channelMap, holder, conn, answer, damaged>> /\ pc[c] = "unlist"
    BY <1>21 DEF Unlist
  <2>2. pc' = [pc EXCEPT ![c] = "idle"]
    BY <1>21 DEF Unlist, Goto
  <2>3. channels' \subseteq channels /\ c \notin channels'
    BY <1>21 DEF Unlist
  <2>4. RegisteredInv'
    BY <1>a, <2>1, <2>2 DEF TypeOK, RegisteredInv
  <2>5. GoneInv'
    BY <1>a, <2>1, <2>2, <2>3 DEF TypeOK, GoneInv, ClosedAreGone, HashesDiffer
  <2>6. QED
    BY <2>4, <2>5 DEF MembershipInv
<1>22. CASE UNCHANGED vars
  BY <1>22, MembershipIdles DEF vars
<1>23. QED
  BY <1>1, <1>2, <1>3, <1>4, <1>5, <1>6, <1>7, <1>8, <1>9, <1>10, <1>11, <1>12,
     <1>13, <1>14, <1>15, <1>16, <1>17, <1>18, <1>19, <1>20, <1>21, <1>22
     DEF Next, Step

\* Registration as the listing proof has it, and as this one does, both hold.
LEMMA MembershipHolds == Spec => [](ListedInv /\ MembershipInv)
<1>1. Init => ListedInv
  BY DEF Init, ListedInv, MembersAreListed, Closing
<1>2. Init => MembershipInv
  BY DEF Init, MembershipInv, RegisteredInv, GoneInv, ClosedAreGone
<1>3. QED
  BY <1>1, <1>2, ListedStep, MembershipStep, TypeCorrect, PTL DEF Spec

\* A client that was told its password is right can speak until its session
\* closes, whatever the hash codes, unless two threads hit a HashMap at once.
THEOREM ToldMembersAlwaysRegistered == Spec => []ToldMembersAreRegistered
<1>1. MembershipInv => ToldMembersAreRegistered
  BY DEF MembershipInv, RegisteredInv, ToldMembersAreRegistered
<1>2. QED
  BY <1>1, MembershipHolds, PTL

\* Once onClose is over, neither register keeps the session, unless two threads
\* hit a HashMap at once or two hash codes are equal.
THEOREM ClosedAlwaysGone == Spec => []ClosedAreGone
<1>1. MembershipInv => ClosedAreGone
  BY DEF MembershipInv, GoneInv, ClosedAreGone
<1>2. QED
  BY <1>1, MembershipHolds, PTL
=============================================================================
