----------------------- MODULE ChatListenerRelay_proofs -----------------------
(***************************************************************************)
(* More about ChatListener: the relay misses nobody.  It builds on the     *)
(* listing and the membership invariants: what is closed stays closed and  *)
(* is not listed again.                                                    *)
(***************************************************************************)
EXTENDS ChatListenerMembership_proofs

\* A get that finds nothing after a merge is one that another thread disturbed.
LEMMA NullIsDamage ==
    ASSUME TypeOK, NEW c \in Channel, NEW d \in Channel,
           NEW o \in ErrorOutcomes(c, d), NEW closes \in BOOLEAN,
           CountError(c, d, o, closes), o[2] = 0
    PROVE  damaged'
<1>1. Increment(errorCount[d]) # 0
  BY DEF TypeOK, Increment, EjectAfter
<1>2. o # <<Increment(errorCount[d]), Increment(errorCount[d])>>
  BY <1>1
<1> QED BY <1>2 DEF CountError

\* A step that moves no callback and sends nothing keeps the invariant.
LEMMA RelayIdles ==
    ASSUME TypeOK, RelayInv, UNCHANGED <<channels, pc, frame, id, todo, damaged, delivered, due>>,
           \A x \in Channel : conn[x] = "closed" => conn'[x] = "closed"
    PROVE  RelayInv'
<1>1. \A x \in Channel : due[x] \subseteq Channel
  BY DEF TypeOK
<1> QED BY <1>1 DEF RelayInv, HashesDiffer

\* A callback that goes on, but not to a relay, keeps the invariant, if a text
\* brings it to an exception only after damage.
LEMMA RelayRests ==
    ASSUME TypeOK, RelayInv, NEW c \in Channel, UNCHANGED <<channels, delivered>>,
           \A x \in Channel \ {c} : /\ pc'[x] = pc[x] /\ frame'[x] = frame[x]
                                    /\ id'[x] = id[x] /\ todo'[x] = todo[x]
                                    /\ due'[x] = due[x],
           \A x \in Channel : conn[x] = "closed" => conn'[x] = "closed",
           damaged => damaged', pc'[c] # "relay",
           pc'[c] = "throw" /\ frame'[c].kind = "text" => damaged'
    PROVE  RelayInv'
<1>1. \A x \in Channel : due[x] \subseteq Channel
  BY DEF TypeOK
<1> QED BY <1>1 DEF RelayInv, HashesDiffer

\* Callbacks that return or go on leave those of other sessions alone.
LEMMA OthersRest ==
    ASSUME TypeOK, NEW c \in Channel, NEW l,
           (Goto(c, l) /\ UNCHANGED todo) \/ Return(c)
    PROVE  /\ \A x \in Channel \ {c} : /\ pc'[x] = pc[x] /\ frame'[x] = frame[x]
                                       /\ id'[x] = id[x] /\ todo'[x] = todo[x]
           /\ \/ pc'[c] = l /\ frame'[c] = frame[c]
              \/ pc'[c] = "idle"
BY DEF TypeOK, Goto, Return

LEMMA RelayStep ==
    TypeOK /\ OfferInv /\ ListedInv /\ MembershipInv /\ RelayInv /\ [Next]_vars => RelayInv'
<1> SUFFICES ASSUME TypeOK, OfferInv, ListedInv, MembershipInv, RelayInv, [Next]_vars
             PROVE  RelayInv'
  OBVIOUS
<1> USE DEF shared, callback, history
<1>1. ASSUME NEW c \in Channel, Connect(c) PROVE RelayInv'
  BY <1>1, RelayIdles DEF Connect, TypeOK
<1>2. ASSUME NEW c \in Channel, Break(c) PROVE RelayInv'
  BY <1>2, RelayIdles DEF Break, TypeOK
<1>3. ASSUME NEW c \in Channel, OnError(c) PROVE RelayInv'
  <2>1. frame[c] = NoFrame
    BY <1>3 DEF OnError, OfferInv
  <2> QED BY <1>3, <2>1, OthersRest, RelayRests DEF OnError, NoFrame
<1>4. ASSUME NEW c \in Channel, NEW f \in Frame, OnFrame(c, f) PROVE RelayInv'
  <2>1. \A x \in Channel \ {c} : /\ pc'[x] = pc[x] /\ frame'[x] = frame[x]
                                 /\ id'[x] = id[x]
    BY <1>4 DEF OnFrame, TypeOK
  <2>2. frame'[c] = f /\ pc'[c] # "relay" /\ (pc'[c] = "throw" => f.kind = "odd")
    BY <1>4 DEF OnFrame, PasswordBranch, TypeOK
  <2>3. UNCHANGED <<channels, conn, todo, damaged, delivered, due>>
    BY <1>4 DEF OnFrame
  <2> QED BY <2>1, <2>2, <2>3, RelayRests
<1>5. ASSUME NEW c \in Channel, OnClose(c) PROVE RelayInv'
  <2>1. Goto(c, "remove") /\ conn' = [conn EXCEPT ![c] = "closed"]
    BY <1>5 DEF OnClose
  <2>2. UNCHANGED <<channels, todo, damaged, delivered, due>>
    BY <1>5 DEF OnClose
  <2>3. \A x \in Channel : conn[x] = "closed" => conn'[x] = "closed"
    BY <2>1 DEF TypeOK
  <2>4. pc'[c] = "remove"
    BY <2>1 DEF Goto, TypeOK
  <2> QED BY <2>1, <2>2, <2>3, <2>4, OthersRest, RelayRests
<1>6. ASSUME NEW c \in Channel, SetPassword(c) PROVE RelayInv'
  BY <1>6, OthersRest, RelayRests DEF SetPassword
<1>7. ASSUME NEW c \in Channel, Compare(c) PROVE RelayInv'
  <2>1. Goto(c, "contains") \/ Goto(c, "reply")
    BY <1>7 DEF Compare
  <2>2. UNCHANGED <<channels, conn, todo, damaged, delivered, due>>
    BY <1>7 DEF Compare
  <2> QED BY <2>1, <2>2, OthersRest, RelayRests
<1>8. ASSUME NEW c \in Channel, Gate(c) PROVE RelayInv'
  <2>1. \E found \in Lookup(c) : Goto(c, AfterGate(found)) /\ (damaged => damaged')
    BY <1>8 DEF Gate
  <2>2. Goto(c, "relayStart") \/ Goto(c, "reply")
    BY <2>1 DEF AfterGate
  <2>3. UNCHANGED <<channels, conn, todo, delivered, due>>
    BY <1>8 DEF Gate
  <2> QED BY <2>1, <2>2, <2>3, OthersRest, RelayRests
<1>9. ASSUME NEW c \in Channel, AddContains(c) PROVE RelayInv'
  <2>1. \E found \in Lookup(c) : /\ Goto(c, IF found THEN AfterAdd(c) ELSE "list")
                                 /\ damaged => damaged'
    BY <1>9 DEF AddContains
  <2>2. Goto(c, "reply") \/ Goto(c, "relayStart") \/ Goto(c, "list")
    BY <2>1 DEF AfterAdd
  <2>3. UNCHANGED <<channels, conn, todo, delivered, due>>
    BY <1>9 DEF AddContains
  <2> QED BY <2>1, <2>2, <2>3, OthersRest, RelayRests
<1>10. ASSUME NEW c \in Channel, AddListed(c) PROVE RelayInv'
  <2>1. conn[c] # "closed"
    BY <1>10, HandlingIsLive DEF AddListed, MembershipInv
  <2>2. /\ channels \subseteq channels' /\ channels' \subseteq channels \cup {c}
        /\ \A x \in Channel : todo[x] \subseteq todo'[x]
    BY <1>10 DEF AddListed, Listed
  <2>3. UNCHANGED <<conn, frame, id, damaged, delivered, due>>
    BY <1>10 DEF AddListed, Goto
  <2>4. pc'[c] = "put" /\ \A x \in Channel \ {c} : pc'[x] = pc[x]
    BY <1>10 DEF AddListed, Goto, TypeOK
  <2>5. ASSUME NEW x \in Channel, HashesDiffer, pc'[x] = "relay", NEW d \in due[x]
        PROVE  IF d \in channels' THEN d \in todo'[x] \/ delivered[x][d] = id[x]
                                  ELSE conn[d] = "closed"
    <3>1. pc[x] = "relay"
      BY <2>4, <2>5
    <3>2. IF d \in channels THEN d \in todo[x] \/ delivered[x][d] = id[x]
                            ELSE conn[d] = "closed"
      BY <2>5, <3>1 DEF RelayInv
    <3> QED BY <2>1, <2>2, <3>2
  <2>6. \A x \in Channel : pc'[x] = "throw" /\ frame[x].kind = "text" => damaged
    BY <2>4 DEF RelayInv
  <2>7. HashesDiffer' = HashesDiffer
    BY DEF HashesDiffer
  <2> QED BY <2>3, <2>5, <2>6, <2>7 DEF RelayInv
<1>11. ASSUME NEW c \in Channel, MapPutEnd(c) PROVE RelayInv'
  <2>1. Goto(c, "reply") \/ Goto(c, "relayStart")
    BY <1>11 DEF MapPutEnd, AfterAdd
  <2>2. UNCHANGED <<channels, conn, todo, delivered, due>> /\ (damaged => damaged')
    BY <1>11 DEF MapPutEnd
  <2> QED BY <2>1, <2>2, OthersRest, RelayRests
<1>12. ASSUME NEW c \in Channel, RelayStart(c) PROVE RelayInv'
  <2>1. UNCHANGED <<channels, conn, damaged, delivered>>
    BY <1>12 DEF RelayStart
  <2>2. CASE frame[c].kind = "text"
    <3>1. /\ Goto(c, "relay")
          /\ todo' = [todo EXCEPT ![c] = channels \ {c}]
          /\ due' = [due EXCEPT ![c] = channels \ {c}]
      BY <1>12, <2>2 DEF RelayStart, Receivers
    <3>2. /\ due'[c] = channels \ {c} /\ todo'[c] = channels \ {c} /\ pc'[c] = "relay"
          /\ frame' = frame /\ id' = id
          /\ \A x \in Channel \ {c} :
                pc'[x] = pc[x] /\ todo'[x] = todo[x] /\ due'[x] = due[x]
      BY <3>1 DEF Goto, TypeOK
    <3> QED BY <2>1, <3>2 DEF RelayInv, HashesDiffer
  <2>3. CASE frame[c].kind # "text"
    <3>1. Return(c) /\ UNCHANGED due
      BY <1>12, <2>3 DEF RelayStart
    <3>2. pc'[c] = "idle"
      BY <3>1 DEF Return, TypeOK
    <3> QED BY <2>1, <3>1, <3>2, OthersRest, RelayRests
  <2> QED BY <2>2, <2>3
<1>13. ASSUME NEW c \in Channel, RelayEnd(c) PROVE RelayInv'
  <2>1. Return(c) /\ UNCHANGED <<channels, conn, damaged, delivered>>
    BY <1>13 DEF RelayEnd
  <2>2. \A x \in Channel \ {c} : due'[x] = due[x]
    BY <1>13 DEF RelayEnd, TypeOK
  <2>3. pc'[c] = "idle"
    BY <2>1 DEF Return, TypeOK
  <2> QED BY <2>1, <2>2, <2>3, OthersRest, RelayRests
<1>14. ASSUME NEW c \in Channel, NEW d \in Channel, RelaySend(c, d) PROVE RelayInv'
  <2>1. UNCHANGED <<channels, conn, pc, frame, id, damaged, due>>
    BY <1>14 DEF RelaySend
  <2>2. /\ delivered'[c][d] = id[c] /\ todo'[c] = todo[c] \ {d}
        /\ \A x \in Channel \ {d} : delivered'[c][x] = delivered[c][x]
        /\ \A x \in Channel \ {c} : delivered'[x] = delivered[x] /\ todo'[x] = todo[x]
    BY <1>14 DEF RelaySend, TypeOK
  <2>3. \A x \in Channel : due[x] \subseteq Channel
    BY DEF TypeOK
  <2> QED BY <2>1, <2>2, <2>3 DEF RelayInv, HashesDiffer
<1>15. ASSUME NEW c \in Channel, NEW d \in Channel, RelayFail(c, d) PROVE RelayInv'
  <2>1. PICK o \in ErrorOutcomes(c, d) :
            /\ CountError(c, d, o, FALSE)
            /\ todo' = [todo EXCEPT ![c] = Left(c, d, o)]
            /\ Goto(c, IF o[2] = 0 THEN "throw" ELSE "relay")
    BY <1>15 DEF RelayFail
  <2>2. /\ \A x \in Channel : conn[x] = "closed" => conn'[x] = "closed"
        /\ damaged => damaged'
    BY <2>1, CloseOnlyBreaks
  <2>3. /\ UNCHANGED <<channels, frame, id, delivered>>
        /\ due'[c] = due[c] \ {d} /\ pc[c] = "relay"
        /\ \A x \in Channel \ {c} :
              due'[x] = due[x] /\ todo'[x] = todo[x] /\ pc'[x] = pc[x]
        /\ \A x \in Channel : due[x] \subseteq Channel
    BY <1>15, <2>1 DEF RelayFail, Goto, TypeOK
  <2>4. CASE o[2] = 0
    <3>1. damaged' /\ pc'[c] = "throw"
      BY <2>1, <2>4, NullIsDamage DEF Goto, TypeOK
    <3> QED BY <2>2, <2>3, <3>1 DEF RelayInv, HashesDiffer
  <2>5. CASE o[2] # 0
    <3>1. todo'[c] = todo[c] \ {d} /\ pc'[c] = "relay"
      BY <2>1, <2>5 DEF Left, Goto, TypeOK
    <3> QED BY <2>2, <2>3, <3>1 DEF RelayInv, HashesDiffer
  <2> QED BY <2>4, <2>5
<1>16. ASSUME NEW c \in Channel, NEW d \in Channel, RelaySkip(c, d) PROVE RelayInv'
  <2>1. UNCHANGED <<channels, conn, pc, frame, id, damaged, delivered, due>>
    BY <1>16 DEF RelaySkip
  <2>2. /\ todo'[c] = todo[c] \ {d} /\ d \notin channels
        /\ \A x \in Channel \ {c} : todo'[x] = todo[x]
    BY <1>16 DEF RelaySkip, TypeOK
  <2> QED BY <2>1, <2>2 DEF RelayInv, HashesDiffer
<1>17. ASSUME NEW c \in Channel, Reply(c) PROVE RelayInv'
  <2>1. Return(c) /\ UNCHANGED <<channels, conn, damaged, delivered, due>>
    BY <1>17 DEF Reply
  <2>2. pc'[c] = "idle"
    BY <2>1 DEF Return, TypeOK
  <2> QED BY <2>1, <2>2, OthersRest, RelayRests
<1>18. ASSUME NEW c \in Channel, ReplyFail(c) PROVE RelayInv'
  <2>1. PICK o \in ErrorOutcomes(c, c) :
            /\ CountError(c, c, o, FALSE)
            /\ IF o[2] = 0 THEN Goto(c, "throw") /\ UNCHANGED <<answer, todo>>
                           ELSE Return(c)
    BY <1>18 DEF ReplyFail
  <2>2. /\ \A x \in Channel : conn[x] = "closed" => conn'[x] = "closed"
        /\ damaged => damaged'
    BY <2>1, CloseOnlyBreaks
  <2>3. UNCHANGED <<channels, delivered, due>>
    BY <1>18 DEF ReplyFail
  <2>4. CASE o[2] = 0
    <3>1. damaged' /\ pc'[c] = "throw"
      BY <2>1, <2>4, NullIsDamage DEF Goto, TypeOK
    <3> QED BY <2>1, <2>2, <2>3, <2>4, <3>1, OthersRest, RelayRests
  <2>5. CASE o[2] # 0
    <3>1. Return(c) /\ pc'[c] = "idle"
      BY <2>1, <2>5 DEF Return, TypeOK
    <3> QED BY <2>2, <2>3, <3>1, OthersRest, RelayRests
  <2> QED BY <2>4, <2>5
<1>19. ASSUME NEW c \in Channel, Throw(c) PROVE RelayInv'
  <2>1. PICK o \in ErrorOutcomes(c, c), closes \in BOOLEAN : CountError(c, c, o, closes)
    BY <1>19 DEF Throw
  <2>2. /\ \A x \in Channel : conn[x] = "closed" => conn'[x] = "closed"
        /\ damaged => damaged'
    BY <2>1, CloseOnlyBreaks
  <2>3. /\ Return(c) /\ UNCHANGED <<channels, delivered>>
        /\ \A x \in Channel \ {c} : due'[x] = due[x]
    BY <1>19 DEF Throw, TypeOK
  <2>4. pc'[c] = "idle"
    BY <2>3 DEF Return, TypeOK
  <2> QED BY <2>2, <2>3, <2>4, OthersRest, RelayRests
<1>20. ASSUME NEW c \in Channel, RemoveEnd(c) PROVE RelayInv'
  <2>1. \E l \in {"idle", "unlist"} : Goto(c, l)
    BY <1>20 DEF RemoveEnd, AfterRemove
  <2>2. UNCHANGED <<channels, conn, todo, delivered, due>> /\ (damaged => damaged')
    BY <1>20 DEF RemoveEnd
  <2> QED BY <2>1, <2>2, OthersRest, RelayRests
<1>21. ASSUME NEW c \in Channel, Unlist(c) PROVE RelayInv'
  <2>1. /\ UNCHANGED <<conn, frame, id, todo, damaged, delivered, due>>
        /\ pc'[c] = "idle" /\ \A x \in Channel \ {c} : pc'[x] = pc[x]
    BY <1>21 DEF Unlist, Goto, TypeOK
  <2>2. channels' = {d \in channels : HashCode[d] # HashCode[c]} /\ conn[c] = "closed"
    BY <1>21 DEF Unlist, ListedInv, Closing
  <2>3. HashesDiffer => channels' = channels \ {c}
    BY <2>2 DEF HashesDiffer, TypeOK
  <2>4. HashesDiffer' = HashesDiffer
    BY DEF HashesDiffer
  <2> QED BY <2>1, <2>2, <2>3, <2>4 DEF RelayInv
<1>22. CASE UNCHANGED vars
  BY <1>22, RelayIdles DEF vars
<1> QED
  BY <1>1, <1>2, <1>3, <1>4, <1>5, <1>6, <1>7, <1>8, <1>9, <1>10, <1>11, <1>12,
     <1>13, <1>14, <1>15, <1>16, <1>17, <1>18, <1>19, <1>20, <1>21, <1>22
     DEF Next, Step

\* Whoever was listed when a text's relay began, and still is, is sent it, for
\* any number of sessions that fail, come and go meanwhile, if hash codes differ;
\* and only a HashMap that two threads hit at once makes the relay throw.
THEOREM RelayNeverMisses == Spec => []RelayMissesNobody
<1>1. Init => RelayInv /\ OfferInv
  BY DEF Init, RelayInv, OfferInv
<1>2. RelayInv => RelayMissesNobody
  BY DEF RelayInv, RelayMissesNobody
<1> QED
  BY <1>1, <1>2, OfferStep, RelayStep, MembershipHolds, TypeCorrect, PTL DEF Spec
=============================================================================
