------------------------ MODULE ChatListener_proofs ------------------------
(***************************************************************************)
(* Proofs about ChatListener, for any channels, passwords, hash codes and  *)
(* number of frames.                                                       *)
(***************************************************************************)
EXTENDS ChatListener, TLAPS

\* What the error counter can become is a count.
LEMMA ErrorOutcomesType ==
    ASSUME TypeOK, NEW c \in Channel, NEW d \in Channel, NEW o \in ErrorOutcomes(c, d)
    PROVE  o[1] \in 0..EjectAfter
BY DEF TypeOK, ErrorOutcomes, Increment, EjectAfter

\* countError keeps the types of what it assigns.
LEMMA CountErrorType ==
    ASSUME TypeOK, NEW c \in Channel, NEW d \in Channel, NEW o \in ErrorOutcomes(c, d),
           NEW closes \in BOOLEAN, CountError(c, d, o, closes)
    PROVE  /\ errorCount' \in [Channel -> 0..EjectAfter]
           /\ conn' \in [Channel -> {"new", "open", "broken", "closed"}]
           /\ damaged' \in BOOLEAN
<1>1. o[1] \in 0..EjectAfter
  BY ErrorOutcomesType
<1>2. QED
  BY <1>1 DEF TypeOK, CountError, CloseIf

\* The variables keep their types through every action of the listener.
LEMMA TypeStep == TypeOK /\ [Next]_vars => TypeOK'
<1> SUFFICES ASSUME TypeOK, [Next]_vars PROVE TypeOK'
  OBVIOUS
<1> USE DEF shared, callback, history
<1>1. ASSUME NEW c \in Channel, Connect(c) PROVE TypeOK'
  BY <1>1 DEF TypeOK, Connect
<1>2. ASSUME NEW c \in Channel, Break(c) PROVE TypeOK'
  BY <1>2 DEF TypeOK, Break
<1>3. ASSUME NEW c \in Channel, OnError(c) PROVE TypeOK'
  BY <1>3 DEF TypeOK, OnError, Goto, Handling
<1>4. ASSUME NEW c \in Channel, NEW f \in Frame, OnFrame(c, f) PROVE TypeOK'
  BY <1>4, MaxFramesType DEF TypeOK, OnFrame, Handling, PasswordBranch
<1>5. ASSUME NEW c \in Channel, OnClose(c) PROVE TypeOK'
  BY <1>5 DEF TypeOK, OnClose, Goto, Closing, BeginWrite, MapWriters
<1>6. ASSUME NEW c \in Channel, SetPassword(c) PROVE TypeOK'
  BY <1>6 DEF TypeOK, SetPassword, Goto, Handling, SentPw, Frame, NoFrame
<1>7. ASSUME NEW c \in Channel, Compare(c) PROVE TypeOK'
  <2>1. UNCHANGED <<shared, conn, todo, torn, damaged, clock, delivered, holder, due>>
    BY <1>7 DEF Compare
  <2>2. CASE password = SentPw(c)
    <3>1. /\ Goto(c, "contains")
          /\ answer' = [answer EXCEPT ![c] = "ok"]
          /\ cleared' = cleared \cup {c}
      BY <1>7, <2>2 DEF Compare
    <3>2. QED
      BY <2>1, <3>1 DEF TypeOK, Goto, Handling
  <2>3. CASE password # SentPw(c)
    <3>1. /\ Goto(c, "reply")
          /\ answer' = [answer EXCEPT ![c] = "wrong"]
          /\ UNCHANGED cleared
      BY <1>7, <2>3 DEF Compare
    <3>2. QED
      BY <2>1, <3>1 DEF TypeOK, Goto, Handling
  <2>4. QED
    BY <2>2, <2>3
<1>8. ASSUME NEW c \in Channel, Gate(c) PROVE TypeOK'
  BY <1>8 DEF TypeOK, Gate, Goto, Handling, AfterGate
<1>9. ASSUME NEW c \in Channel, AddContains(c) PROVE TypeOK'
  BY <1>9 DEF TypeOK, AddContains, Goto, Handling, AfterAdd
<1>10. ASSUME NEW c \in Channel, AddListed(c) PROVE TypeOK'
  <2>1. channels' \subseteq Channel
    BY <1>10 DEF TypeOK, AddListed, Listed
  <2>2. todo' \in [Channel -> SUBSET Channel]
    BY <1>10, <2>1 DEF TypeOK, AddListed
  <2>3. QED
    BY <1>10, <2>1, <2>2 DEF TypeOK, AddListed, Goto, Handling, BeginWrite, MapWriters
<1>11. ASSUME NEW c \in Channel, MapPutEnd(c) PROVE TypeOK'
  BY <1>11 DEF TypeOK, MapPutEnd, WriteOutcomes, Put, Goto, Handling, AfterAdd
<1>12. ASSUME NEW c \in Channel, RelayStart(c) PROVE TypeOK'
  <2>1. UNCHANGED <<shared, conn, torn, damaged, clock, cleared, delivered, holder>>
    BY <1>12 DEF RelayStart
  <2>2. CASE frame[c].kind = "text"
    <3>1. /\ Goto(c, "relay")
          /\ todo' = [todo EXCEPT ![c] = channels \ {c}]
          /\ due' = [due EXCEPT ![c] = channels \ {c}]
          /\ UNCHANGED answer
      BY <1>12, <2>2 DEF RelayStart, Receivers
    <3>2. QED
      BY <2>1, <3>1 DEF TypeOK, Goto, Handling
  <2>3. CASE frame[c].kind # "text"
    <3>1. Return(c) /\ UNCHANGED due
      BY <1>12, <2>3 DEF RelayStart
    <3>2. QED
      BY <2>1, <3>1, MaxFramesType DEF TypeOK, Return
  <2>4. QED
    BY <2>2, <2>3
<1>13. ASSUME NEW c \in Channel, RelayEnd(c) PROVE TypeOK'
  BY <1>13, MaxFramesType DEF TypeOK, RelayEnd, Return
<1>14. ASSUME NEW c \in Channel, NEW d \in Channel, RelaySend(c, d) PROVE TypeOK'
  BY <1>14 DEF TypeOK, RelaySend
<1>15. ASSUME NEW c \in Channel, NEW d \in Channel, RelayFail(c, d) PROVE TypeOK'
  <2>1. PICK o \in ErrorOutcomes(c, d) :
            /\ CountError(c, d, o, FALSE)
            /\ todo' = [todo EXCEPT ![c] = Left(c, d, o)]
            /\ Goto(c, IF o[2] = 0 THEN "throw" ELSE "relay")
    BY <1>15 DEF RelayFail
  <2>2. QED
    BY <1>15, <2>1, CountErrorType DEF TypeOK, RelayFail, Left, Goto, Handling
<1>16. ASSUME NEW c \in Channel, NEW d \in Channel, RelaySkip(c, d) PROVE TypeOK'
  BY <1>16 DEF TypeOK, RelaySkip
<1>17. ASSUME NEW c \in Channel, Reply(c) PROVE TypeOK'
  BY <1>17, MaxFramesType DEF TypeOK, Reply, Return, Frame, NoFrame
<1>18. ASSUME NEW c \in Channel, ReplyFail(c) PROVE TypeOK'
  <2>1. PICK o \in ErrorOutcomes(c, c) :
            /\ CountError(c, c, o, FALSE)
            /\ IF o[2] = 0 THEN Goto(c, "throw") /\ UNCHANGED <<answer, todo>>
                           ELSE Return(c)
    BY <1>18 DEF ReplyFail
  <2>2. /\ errorCount' \in [Channel -> 0..EjectAfter]
        /\ conn' \in [Channel -> {"new", "open", "broken", "closed"}]
        /\ damaged' \in BOOLEAN
    BY <2>1, CountErrorType
  <2>3. UNCHANGED <<password, channels, channelMap, torn, clock, history>>
    BY <1>18 DEF ReplyFail
  <2>4. CASE o[2] = 0
    BY <2>1, <2>2, <2>3, <2>4 DEF TypeOK, Goto, Handling
  <2>5. CASE o[2] # 0
    <3>1. Return(c)
      BY <2>1, <2>5
    <3>2. QED
      BY <2>2, <2>3, <3>1, MaxFramesType DEF TypeOK, Return
  <2>6. QED
    BY <2>4, <2>5
<1>19. ASSUME NEW c \in Channel, Throw(c) PROVE TypeOK'
  <2>1. PICK o \in ErrorOutcomes(c, c), closes \in BOOLEAN : CountError(c, c, o, closes)
    BY <1>19 DEF Throw
  <2>2. QED
    BY <1>19, <2>1, CountErrorType, MaxFramesType DEF TypeOK, Throw, Return
<1>20. ASSUME NEW c \in Channel, RemoveEnd(c) PROVE TypeOK'
  BY <1>20 DEF TypeOK, RemoveEnd, WriteOutcomes, Goto, Closing, AfterRemove
<1>21. ASSUME NEW c \in Channel, Unlist(c) PROVE TypeOK'
  BY <1>21 DEF TypeOK, Unlist, Goto
<1>22. CASE UNCHANGED vars
  BY <1>22 DEF TypeOK, vars
<1>23. QED
  BY <1>1, <1>2, <1>3, <1>4, <1>5, <1>6, <1>7, <1>8, <1>9, <1>10, <1>11, <1>12,
     <1>13, <1>14, <1>15, <1>16, <1>17, <1>18, <1>19, <1>20, <1>21, <1>22
     DEF Next, Step

\* Every variable of the listener keeps the type its Java declaration gives it.
THEOREM TypeCorrect == Spec => []TypeOK
<1>1. Init => TypeOK
  <2> SUFFICES ASSUME Init PROVE TypeOK
    OBVIOUS
  <2>1. 0 \in 0..EjectAfter /\ 0 \in 0..MaxFrames
    BY MaxFramesType DEF EjectAfter
  <2>2. /\ password \in Password \cup {NoPassword}
        /\ frame \in [Channel -> Frame \cup {NoFrame}]
        /\ holder \in [Channel -> Password \cup {NoPassword}]
    BY DEF Init
  <2>3. /\ errorCount \in [Channel -> 0..EjectAfter]
        /\ id \in [Channel -> 0..MaxFrames]
        /\ delivered \in [Channel -> [Channel -> 0..MaxFrames]]
        /\ clock \in 0..MaxFrames
    BY <2>1 DEF Init
  <2>4. QED
    BY <2>2, <2>3 DEF Init, TypeOK
<1>2. QED
  BY <1>1, TypeStep, PTL DEF Spec

-----------------------------------------------------------------------------

\* A lookup only finds what is in the map.
LEMMA LookupFinds == \A c \in Channel : TRUE \in Lookup(c) => c \in channelMap
BY DEF Lookup

\* No action lets a text pass to or from a session that was not cleared.
LEMMA ClearedStep == TypeOK /\ ClearedInv /\ [Next]_vars => ClearedInv'
<1> SUFFICES ASSUME TypeOK, ClearedInv, [Next]_vars PROVE ClearedInv'
  OBVIOUS
<1> USE DEF shared, callback, history, ClearedInv, OnlyClearedReceive
<1>1. ASSUME NEW c \in Channel, Connect(c) PROVE ClearedInv'
  BY <1>1 DEF Connect
<1>2. ASSUME NEW c \in Channel, Break(c) PROVE ClearedInv'
  BY <1>2 DEF Break
<1>3. ASSUME NEW c \in Channel, OnError(c) PROVE ClearedInv'
  BY <1>3 DEF TypeOK, OnError, Goto
<1>4. ASSUME NEW c \in Channel, NEW f \in Frame, OnFrame(c, f) PROVE ClearedInv'
  BY <1>4 DEF TypeOK, OnFrame, PasswordBranch
<1>5. ASSUME NEW c \in Channel, OnClose(c) PROVE ClearedInv'
  BY <1>5 DEF TypeOK, OnClose, Goto
<1>6. ASSUME NEW c \in Channel, SetPassword(c) PROVE ClearedInv'
  BY <1>6 DEF TypeOK, SetPassword, Goto
<1>7. ASSUME NEW c \in Channel, Compare(c) PROVE ClearedInv'
  <2>1. CASE password = SentPw(c)
    BY <1>7, <2>1 DEF TypeOK, Compare, Goto
  <2>2. CASE password # SentPw(c)
    BY <1>7, <2>2 DEF TypeOK, Compare, Goto
  <2>3. QED
    BY <2>1, <2>2
<1>8. ASSUME NEW c \in Channel, Gate(c) PROVE ClearedInv'
  <2>1. PICK found \in Lookup(c) : Goto(c, AfterGate(found))
    BY <1>8 DEF Gate
  <2>2. pc'[c] = "relayStart" => c \in cleared
    BY <2>1, LookupFinds DEF TypeOK, Goto, AfterGate
  <2>3. UNCHANGED <<shared, todo, cleared, delivered>>
    BY <1>8 DEF Gate
  <2>4. pc' = [pc EXCEPT ![c] = AfterGate(found)]
    BY <2>1 DEF Goto
  <2>5. AfterGate(found) \in {"relayStart", "reply"}
    BY DEF AfterGate
  <2>6. QED
    BY <2>2, <2>3, <2>4, <2>5 DEF TypeOK
<1>9. ASSUME NEW c \in Channel, AddContains(c) PROVE ClearedInv'
  BY <1>9 DEF TypeOK, AddContains, Goto
<1>10. ASSUME NEW c \in Channel, AddListed(c) PROVE ClearedInv'
  <2>1. channels' \subseteq cleared /\ channels' \ channels \subseteq {c}
    BY <1>10 DEF AddListed, Listed
  <2>2. \A r \in Channel : todo'[r] \subseteq cleared \ {r}
    <3>1. PICK R \in SUBSET Passing(c) :
              todo' = [r \in Channel |-> IF r \in R THEN todo[r] \cup (channels' \ channels)
                                                    ELSE todo[r]]
      BY <1>10 DEF AddListed
    <3>2. c \notin R /\ c \in cleared
      BY <1>10 DEF Passing, AddListed
    <3>3. QED
      BY <2>1, <3>1, <3>2
  <2>3. UNCHANGED <<channelMap, cleared, delivered>>
    BY <1>10 DEF AddListed
  <2>4. c \in cleared /\ pc' = [pc EXCEPT ![c] = "put"]
    BY <1>10 DEF AddListed, Goto
  <2>5. QED
    BY <2>1, <2>2, <2>3, <2>4 DEF TypeOK
<1>11. ASSUME NEW c \in Channel, MapPutEnd(c) PROVE ClearedInv'
  <2>1. channelMap' \subseteq cleared
    BY <1>11 DEF MapPutEnd, WriteOutcomes, Put
  <2>2. QED
    BY <1>11, <2>1 DEF TypeOK, MapPutEnd, Goto, AfterAdd
<1>12. ASSUME NEW c \in Channel, RelayStart(c) PROVE ClearedInv'
  <2>1. UNCHANGED <<shared, cleared, delivered>>
    BY <1>12 DEF RelayStart
  <2>2. CASE frame[c].kind = "text"
    <3>1. Goto(c, "relay") /\ todo' = [todo EXCEPT ![c] = channels \ {c}]
      BY <1>12, <2>2 DEF RelayStart, Receivers
    <3>2. QED
      BY <1>12, <2>1, <3>1 DEF TypeOK, Goto, RelayStart
  <2>3. CASE frame[c].kind # "text"
    <3>1. Return(c)
      BY <1>12, <2>3 DEF RelayStart
    <3>2. QED
      BY <2>1, <3>1 DEF TypeOK, Return
  <2>4. QED
    BY <2>2, <2>3
<1>13. ASSUME NEW c \in Channel, RelayEnd(c) PROVE ClearedInv'
  BY <1>13 DEF TypeOK, RelayEnd, Return
<1>14. ASSUME NEW c \in Channel, NEW d \in Channel, RelaySend(c, d) PROVE ClearedInv'
  <2>1. {c, d} \subseteq cleared
    BY <1>14 DEF RelaySend
  <2>2. QED
    BY <1>14, <2>1 DEF TypeOK, RelaySend
<1>15. ASSUME NEW c \in Channel, NEW d \in Channel, RelayFail(c, d) PROVE ClearedInv'
  BY <1>15 DEF TypeOK, RelayFail, Left, Goto
<1>16. ASSUME NEW c \in Channel, NEW d \in Channel, RelaySkip(c, d) PROVE ClearedInv'
  BY <1>16 DEF TypeOK, RelaySkip
<1>17. ASSUME NEW c \in Channel, Reply(c) PROVE ClearedInv'
  BY <1>17 DEF TypeOK, Reply, Return
<1>18. ASSUME NEW c \in Channel, ReplyFail(c) PROVE ClearedInv'
  <2>1. UNCHANGED <<channels, channelMap, cleared, delivered>>
    BY <1>18 DEF ReplyFail
  <2>2. \/ Goto(c, "throw") /\ UNCHANGED todo
        \/ Return(c)
    BY <1>18 DEF ReplyFail
  <2>3. CASE Goto(c, "throw") /\ UNCHANGED todo
    BY <2>1, <2>3 DEF TypeOK, Goto
  <2>4. CASE Return(c)
    BY <2>1, <2>4 DEF TypeOK, Return
  <2>5. QED
    BY <2>2, <2>3, <2>4
<1>19. ASSUME NEW c \in Channel, Throw(c) PROVE ClearedInv'
  BY <1>19 DEF TypeOK, Throw, Return
<1>20. ASSUME NEW c \in Channel, RemoveEnd(c) PROVE ClearedInv'
  <2>1. channelMap' \subseteq channelMap
    BY <1>20 DEF RemoveEnd, WriteOutcomes
  <2>2. QED
    BY <1>20, <2>1 DEF TypeOK, RemoveEnd, Goto, AfterRemove
<1>21. ASSUME NEW c \in Channel, Unlist(c) PROVE ClearedInv'
  BY <1>21 DEF TypeOK, Unlist, Goto
<1>22. CASE UNCHANGED vars
  BY <1>22 DEF vars
<1>23. QED
  BY <1>1, <1>2, <1>3, <1>4, <1>5, <1>6, <1>7, <1>8, <1>9, <1>10, <1>11, <1>12,
     <1>13, <1>14, <1>15, <1>16, <1>17, <1>18, <1>19, <1>20, <1>21, <1>22
     DEF Next, Step

\* Whatever the threads and the HashMaps do, a text passes only between sessions
\* that found no password or gave the right one.
THEOREM OnlyClearedReceiveAlways == Spec => []OnlyClearedReceive
<1>1. Init => ClearedInv
  BY DEF Init, ClearedInv, OnlyClearedReceive
<1>2. ClearedInv => OnlyClearedReceive
  BY DEF ClearedInv
<1>3. QED
  BY <1>1, <1>2, ClearedStep, TypeCorrect, PTL DEF Spec

-----------------------------------------------------------------------------

\* Frames are numbered as they come in, and no relay sends one twice.
LEMMA OrderStep == TypeOK /\ OrderInv /\ [Next]_vars => OrderInv'
<1> SUFFICES ASSUME TypeOK, OrderInv, [Next]_vars PROVE OrderInv'
  OBVIOUS
<1> USE DEF shared, callback, history, OrderInv
<1>1. ASSUME NEW c \in Channel, Connect(c) PROVE OrderInv'
  BY <1>1 DEF Connect
<1>2. ASSUME NEW c \in Channel, Break(c) PROVE OrderInv'
  BY <1>2 DEF Break
<1>3. ASSUME NEW c \in Channel, OnError(c) PROVE OrderInv'
  BY <1>3 DEF TypeOK, OnError, Goto
<1>4. ASSUME NEW c \in Channel, NEW f \in Frame, OnFrame(c, f) PROVE OrderInv'
  <2>1. \A d \in Channel : delivered[c][d] < clock + 1
    BY DEF TypeOK
  <2>2. QED
    BY <1>4, <2>1 DEF TypeOK, OnFrame, PasswordBranch
<1>5. ASSUME NEW c \in Channel, OnClose(c) PROVE OrderInv'
  BY <1>5 DEF TypeOK, OnClose, Goto
<1>6. ASSUME NEW c \in Channel, SetPassword(c) PROVE OrderInv'
  BY <1>6 DEF TypeOK, SetPassword, Goto
<1>7. ASSUME NEW c \in Channel, Compare(c) PROVE OrderInv'
  <2>1. UNCHANGED <<todo, id, clock, delivered>>
    BY <1>7 DEF Compare, Goto
  <2>2. \/ pc' = [pc EXCEPT ![c] = "contains"]
        \/ pc' = [pc EXCEPT ![c] = "reply"]
    BY <1>7 DEF Compare, Goto
  <2>3. pc[c] = "compare"
    BY <1>7 DEF Compare
  <2>4. QED
    BY <2>1, <2>2, <2>3 DEF TypeOK
<1>8. ASSUME NEW c \in Channel, Gate(c) PROVE OrderInv'
  <2>1. UNCHANGED <<todo, id, clock, delivered>>
    BY <1>8 DEF Gate, Goto
  <2>2. \/ pc' = [pc EXCEPT ![c] = "relayStart"]
        \/ pc' = [pc EXCEPT ![c] = "reply"]
    BY <1>8 DEF Gate, Goto, AfterGate
  <2>3. pc[c] = "gate"
    BY <1>8 DEF Gate
  <2>4. QED
    BY <2>1, <2>2, <2>3 DEF TypeOK
<1>9. ASSUME NEW c \in Channel, AddContains(c) PROVE OrderInv'
  BY <1>9 DEF TypeOK, AddContains, Goto, AfterAdd
<1>10. ASSUME NEW c \in Channel, AddListed(c) PROVE OrderInv'
  <2>1. UNCHANGED <<id, clock, delivered>> /\ pc[c] = "list" /\ pc' = [pc EXCEPT ![c] = "put"]
    BY <1>10 DEF AddListed, Goto
  <2>2. \A r \in Channel : \A d \in todo'[r] : pc[r] = "relay" /\ delivered[r][d] < id[r]
    <3>1. PICK R \in SUBSET Passing(c) :
              todo' = [r \in Channel |-> IF r \in R THEN todo[r] \cup (channels' \ channels)
                                                    ELSE todo[r]]
      BY <1>10 DEF AddListed
    <3>2. channels' \ channels \subseteq {c}
      BY <1>10 DEF AddListed, Listed
    <3>3. \A r \in R : pc[r] = "relay" /\ delivered[r][c] < id[r]
      BY DEF Passing
    <3>4. QED
      BY <3>1, <3>2, <3>3
  <2>3. QED
    BY <2>1, <2>2 DEF TypeOK
<1>11. ASSUME NEW c \in Channel, MapPutEnd(c) PROVE OrderInv'
  BY <1>11 DEF TypeOK, MapPutEnd, Goto, AfterAdd
<1>12. ASSUME NEW c \in Channel, RelayStart(c) PROVE OrderInv'
  <2>1. UNCHANGED <<clock, delivered>> /\ pc[c] = "relayStart"
    BY <1>12 DEF RelayStart
  <2>2. CASE frame[c].kind = "text"
    <3>1. Goto(c, "relay") /\ todo' = [todo EXCEPT ![c] = channels \ {c}]
      BY <1>12, <2>2 DEF RelayStart, Receivers
    <3>2. QED
      BY <2>1, <3>1 DEF TypeOK, Goto
  <2>3. CASE frame[c].kind # "text"
    <3>1. Return(c)
      BY <1>12, <2>3 DEF RelayStart
    <3>2. QED
      BY <2>1, <3>1 DEF TypeOK, Return
  <2>4. QED
    BY <2>2, <2>3
<1>13. ASSUME NEW c \in Channel, RelayEnd(c) PROVE OrderInv'
  BY <1>13 DEF TypeOK, RelayEnd, Return
<1>14. ASSUME NEW c \in Channel, NEW d \in Channel, RelaySend(c, d) PROVE OrderInv'
  BY <1>14 DEF TypeOK, RelaySend
<1>15. ASSUME NEW c \in Channel, NEW d \in Channel, RelayFail(c, d) PROVE OrderInv'
  <2>1. PICK o \in ErrorOutcomes(c, d) :
            /\ todo' = [todo EXCEPT ![c] = Left(c, d, o)]
            /\ Goto(c, IF o[2] = 0 THEN "throw" ELSE "relay")
    BY <1>15 DEF RelayFail
  <2>2. UNCHANGED <<clock, delivered>> /\ pc[c] = "relay"
    BY <1>15 DEF RelayFail
  <2>3. CASE o[2] = 0
    BY <2>1, <2>2, <2>3 DEF TypeOK, Left, Goto
  <2>4. CASE o[2] # 0
    BY <2>1, <2>2, <2>4 DEF TypeOK, Left, Goto
  <2>5. QED
    BY <2>3, <2>4
<1>16. ASSUME NEW c \in Channel, NEW d \in Channel, RelaySkip(c, d) PROVE OrderInv'
  BY <1>16 DEF TypeOK, RelaySkip
<1>17. ASSUME NEW c \in Channel, Reply(c) PROVE OrderInv'
  BY <1>17 DEF TypeOK, Reply, Return
<1>18. ASSUME NEW c \in Channel, ReplyFail(c) PROVE OrderInv'
  <2>1. UNCHANGED <<clock, delivered>> /\ pc[c] = "reply"
    BY <1>18 DEF ReplyFail
  <2>2. \/ Goto(c, "throw") /\ UNCHANGED todo
        \/ Return(c)
    BY <1>18 DEF ReplyFail
  <2>3. QED
    BY <2>1, <2>2 DEF TypeOK, Goto, Return
<1>19. ASSUME NEW c \in Channel, Throw(c) PROVE OrderInv'
  BY <1>19 DEF TypeOK, Throw, Return
<1>20. ASSUME NEW c \in Channel, RemoveEnd(c) PROVE OrderInv'
  BY <1>20 DEF TypeOK, RemoveEnd, Goto, AfterRemove
<1>21. ASSUME NEW c \in Channel, Unlist(c) PROVE OrderInv'
  BY <1>21 DEF TypeOK, Unlist, Goto
<1>22. CASE UNCHANGED vars
  BY <1>22 DEF vars
<1>23. QED
  BY <1>1, <1>2, <1>3, <1>4, <1>5, <1>6, <1>7, <1>8, <1>9, <1>10, <1>11, <1>12,
     <1>13, <1>14, <1>15, <1>16, <1>17, <1>18, <1>19, <1>20, <1>21, <1>22
     DEF Next, Step

\* A callback holds a password only while it handles it.
LEMMA OfferStep == TypeOK /\ OfferInv /\ [Next]_vars => OfferInv'
<1> SUFFICES ASSUME TypeOK, OfferInv, [Next]_vars PROVE OfferInv'
  OBVIOUS
<1> USE DEF shared, callback, history, OfferInv
<1>1. ASSUME NEW c \in Channel, Connect(c) PROVE OfferInv'
  BY <1>1 DEF Connect
<1>2. ASSUME NEW c \in Channel, Break(c) PROVE OfferInv'
  BY <1>2 DEF Break
<1>3. ASSUME NEW c \in Channel, OnError(c) PROVE OfferInv'
  BY <1>3 DEF TypeOK, OnError, Goto
<1>4. ASSUME NEW c \in Channel, NEW f \in Frame, OnFrame(c, f) PROVE OfferInv'
  BY <1>4 DEF TypeOK, OnFrame, PasswordBranch, Frame
<1>5. ASSUME NEW c \in Channel, OnClose(c) PROVE OfferInv'
  BY <1>5 DEF TypeOK, OnClose, Goto
<1>6. ASSUME NEW c \in Channel, SetPassword(c) PROVE OfferInv'
  <2>1. password' \in Password
    BY <1>6 DEF TypeOK, SetPassword, SentPw, Frame, NoFrame
  <2>2. QED
    BY <1>6, <2>1, NoPasswordIsNull DEF TypeOK, SetPassword, Goto
<1>7. ASSUME NEW c \in Channel, Compare(c) PROVE OfferInv'
  <2>1. UNCHANGED <<frame, password>>
    BY <1>7 DEF Compare, Goto
  <2>2. \/ pc' = [pc EXCEPT ![c] = "contains"]
        \/ pc' = [pc EXCEPT ![c] = "reply"]
    BY <1>7 DEF Compare, Goto
  <2>3. pc[c] = "compare"
    BY <1>7 DEF Compare
  <2>4. QED
    BY <2>1, <2>2, <2>3 DEF TypeOK
<1>8. ASSUME NEW c \in Channel, Gate(c) PROVE OfferInv'
  <2>1. UNCHANGED <<frame, password>>
    BY <1>8 DEF Gate, Goto
  <2>2. \/ pc' = [pc EXCEPT ![c] = "relayStart"]
        \/ pc' = [pc EXCEPT ![c] = "reply"]
    BY <1>8 DEF Gate, Goto, AfterGate
  <2>3. pc[c] = "gate"
    BY <1>8 DEF Gate
  <2>4. QED
    BY <2>1, <2>2, <2>3 DEF TypeOK
<1>9. ASSUME NEW c \in Channel, AddContains(c) PROVE OfferInv'
  BY <1>9 DEF TypeOK, AddContains, Goto, AfterAdd
<1>10. ASSUME NEW c \in Channel, AddListed(c) PROVE OfferInv'
  BY <1>10 DEF TypeOK, AddListed, Goto
<1>11. ASSUME NEW c \in Channel, MapPutEnd(c) PROVE OfferInv'
  BY <1>11 DEF TypeOK, MapPutEnd, Goto, AfterAdd
<1>12. ASSUME NEW c \in Channel, RelayStart(c) PROVE OfferInv'
  <2>1. UNCHANGED password
    BY <1>12 DEF RelayStart
  <2>2. \/ Goto(c, "relay")
        \/ Return(c)
    BY <1>12 DEF RelayStart
  <2>3. QED
    BY <2>1, <2>2 DEF TypeOK, Goto, Return
<1>13. ASSUME NEW c \in Channel, RelayEnd(c) PROVE OfferInv'
  BY <1>13 DEF TypeOK, RelayEnd, Return
<1>14. ASSUME NEW c \in Channel, NEW d \in Channel, RelaySend(c, d) PROVE OfferInv'
  BY <1>14 DEF TypeOK, RelaySend
<1>15. ASSUME NEW c \in Channel, NEW d \in Channel, RelayFail(c, d) PROVE OfferInv'
  BY <1>15 DEF TypeOK, RelayFail, Goto
<1>16. ASSUME NEW c \in Channel, NEW d \in Channel, RelaySkip(c, d) PROVE OfferInv'
  BY <1>16 DEF TypeOK, RelaySkip
<1>17. ASSUME NEW c \in Channel, Reply(c) PROVE OfferInv'
  BY <1>17 DEF TypeOK, Reply, Return
<1>18. ASSUME NEW c \in Channel, ReplyFail(c) PROVE OfferInv'
  <2>1. UNCHANGED password
    BY <1>18 DEF ReplyFail
  <2>2. Goto(c, "throw") \/ Return(c)
    BY <1>18 DEF ReplyFail
  <2>3. QED
    BY <2>1, <2>2 DEF TypeOK, Goto, Return
<1>19. ASSUME NEW c \in Channel, Throw(c) PROVE OfferInv'
  BY <1>19 DEF TypeOK, Throw, Return
<1>20. ASSUME NEW c \in Channel, RemoveEnd(c) PROVE OfferInv'
  BY <1>20 DEF TypeOK, RemoveEnd, Goto, AfterRemove
<1>21. ASSUME NEW c \in Channel, Unlist(c) PROVE OfferInv'
  BY <1>21 DEF TypeOK, Unlist, Goto
<1>22. CASE UNCHANGED vars
  BY <1>22 DEF vars
<1>23. QED
  BY <1>1, <1>2, <1>3, <1>4, <1>5, <1>6, <1>7, <1>8, <1>9, <1>10, <1>11, <1>12,
     <1>13, <1>14, <1>15, <1>16, <1>17, <1>18, <1>19, <1>20, <1>21, <1>22
     DEF Next, Step

-----------------------------------------------------------------------------

\* While c's callback does not touch what the room is made of, the room rests.
LEMMA RoomRests ==
    ASSUME TypeOK, NEW c \in Channel, UNCHANGED <<password, frame, cleared, delivered>>,
           NEW l, pc' = [pc EXCEPT ![c] = l], l # "set", pc[c] # "set"
    PROVE  UNCHANGED Room!vars
<1>1. {x \in Channel : pc'[x] = "set"} = {x \in Channel : pc[x] = "set"}
  BY DEF TypeOK
<1>2. QED
  BY <1>1 DEF Room!vars

\* A callback that returns withdraws what it offered.
LEMMA ReturnWithdraws ==
    ASSUME TypeOK, NEW c \in Channel, Return(c), pc[c] # "set",
           UNCHANGED <<password, cleared, delivered>>
    PROVE  Room!Withdraw(c)
<1>1. {x \in Channel : pc'[x] = "set"} = {x \in Channel : pc[x] = "set"}
  BY DEF TypeOK, Return
<1>2. [x \in Channel |-> frame'[x].pw]
        = [[x \in Channel |-> frame[x].pw] EXCEPT ![c] = NoPassword]
  BY DEF TypeOK, Return, NoFrame
<1>3. QED
  BY <1>1, <1>2 DEF Room!Withdraw

\* Every action of the listener is an action of the room or leaves it alone.
LEMMA RoomStep ==
    TypeOK /\ ClearedInv /\ OrderInv /\ OfferInv /\ [Next]_vars
        => [Room!Next]_(Room!vars)
<1> SUFFICES ASSUME TypeOK, ClearedInv, OrderInv, OfferInv, [Next]_vars
             PROVE  [Room!Next]_(Room!vars)
  OBVIOUS
<1> USE DEF shared, callback, history
<1>1. ASSUME NEW c \in Channel, Connect(c) PROVE UNCHANGED Room!vars
  BY <1>1 DEF Connect, Room!vars
<1>2. ASSUME NEW c \in Channel, Break(c) PROVE UNCHANGED Room!vars
  BY <1>2 DEF Break, Room!vars
<1>3. ASSUME NEW c \in Channel, OnError(c) PROVE UNCHANGED Room!vars
  BY <1>3, RoomRests DEF OnError, Goto
<1>4. ASSUME NEW c \in Channel, NEW f \in Frame, OnFrame(c, f)
      PROVE  [Room!Next]_(Room!vars)
  <2>1. f.pw \in Password \cup {NoPassword} /\ (f.kind = "password" <=> f.pw # NoPassword)
    BY DEF Frame
  <2>2. frame[c].pw = NoPassword
    BY <1>4 DEF OnFrame, OfferInv, NoFrame
  <2>3. [x \in Channel |-> frame'[x].pw]
          = [[x \in Channel |-> frame[x].pw] EXCEPT ![c] = f.pw]
    BY <1>4 DEF OnFrame, TypeOK
  <2>4. {x \in Channel : pc'[x] = "set"} =
          IF f.kind = "password" /\ password = NoPassword
          THEN {x \in Channel : pc[x] = "set"} \cup {c}
          ELSE {x \in Channel : pc[x] = "set"}
    BY <1>4 DEF OnFrame, PasswordBranch, TypeOK
  <2>5. UNCHANGED <<password, delivered>>
    BY <1>4 DEF OnFrame
  <2>6. CASE f.kind = "odd"
    <3>1. [x \in Channel |-> frame'[x].pw] = [x \in Channel |-> frame[x].pw]
      BY <2>1, <2>2, <2>3, <2>6
    <3>2. QED
      BY <1>4, <2>4, <2>5, <2>6, <3>1 DEF OnFrame, Room!vars
  <2>7. CASE f.kind # "odd" /\ password = NoPassword
    <3>1. cleared' = cleared \cup {c}
      BY <1>4, <2>7 DEF OnFrame
    <3>2. Room!Enter(c, f.pw)
      BY <2>1, <2>2, <2>3, <2>4, <2>5, <2>7, <3>1 DEF Room!Enter
    <3>3. QED
      BY <2>1, <3>2 DEF Room!Next
  <2>8. CASE f.kind # "odd" /\ password # NoPassword
    <3>1. UNCHANGED cleared
      BY <1>4, <2>8 DEF OnFrame
    <3>2. Room!Knock(c, f.pw)
      BY <2>1, <2>2, <2>3, <2>4, <2>5, <2>8, <3>1 DEF Room!Knock
    <3>3. QED
      BY <2>1, <3>2 DEF Room!Next
  <2>9. QED
    BY <2>6, <2>7, <2>8
<1>5. ASSUME NEW c \in Channel, OnClose(c) PROVE UNCHANGED Room!vars
  BY <1>5, RoomRests DEF OnClose, Goto
<1>6. ASSUME NEW c \in Channel, SetPassword(c) PROVE Room!Protect(c)
  <2>1. {x \in Channel : pc'[x] = "set"} = {x \in Channel : pc[x] = "set"} \ {c}
    BY <1>6 DEF SetPassword, Goto, TypeOK
  <2>2. UNCHANGED <<frame, cleared, delivered>> /\ password' = frame[c].pw /\ pc[c] = "set"
    BY <1>6 DEF SetPassword, SentPw, Goto
  <2>3. QED
    BY <2>1, <2>2 DEF Room!Protect
<1>7. ASSUME NEW c \in Channel, Compare(c) PROVE [Room!Next]_(Room!vars)
  <2>1. CASE password = SentPw(c)
    <3>1. Goto(c, "contains") /\ cleared' = cleared \cup {c} /\ pc[c] = "compare"
      BY <1>7, <2>1 DEF Compare
    <3>2. {x \in Channel : pc'[x] = "set"} = {x \in Channel : pc[x] = "set"}
      BY <3>1 DEF Goto, TypeOK
    <3>3. UNCHANGED <<password, frame, delivered>>
      BY <1>7 DEF Compare, Goto
    <3>4. password # NoPassword /\ frame[c].pw = password
      BY <2>1, <3>1 DEF OfferInv, SentPw
    <3>5. Room!Unlock(c)
      BY <3>1, <3>2, <3>3, <3>4 DEF Room!Unlock
    <3>6. QED
      BY <3>5 DEF Room!Next
  <2>2. CASE password # SentPw(c)
    <3>1. Goto(c, "reply") /\ UNCHANGED cleared /\ pc[c] = "compare"
      BY <1>7, <2>2 DEF Compare
    <3>2. UNCHANGED <<password, delivered>>
      BY <1>7 DEF Compare
    <3>3. QED
      BY <3>1, <3>2, RoomRests DEF Goto
  <2>3. QED
    BY <2>1, <2>2
<1>8. ASSUME NEW c \in Channel, Gate(c) PROVE UNCHANGED Room!vars
  <2>1. PICK found \in Lookup(c) : Goto(c, AfterGate(found))
    BY <1>8 DEF Gate
  <2>2. UNCHANGED <<password, cleared, delivered>> /\ pc[c] = "gate"
    BY <1>8 DEF Gate
  <2>3. AfterGate(found) # "set"
    BY DEF AfterGate
  <2>4. QED
    BY <2>1, <2>2, <2>3, RoomRests DEF Goto
<1>9. ASSUME NEW c \in Channel, AddContains(c) PROVE UNCHANGED Room!vars
  <2>1. Goto(c, AfterAdd(c)) \/ Goto(c, "list")
    BY <1>9 DEF AddContains
  <2>2. UNCHANGED <<password, cleared, delivered>> /\ pc[c] = "contains"
    BY <1>9 DEF AddContains
  <2>3. AfterAdd(c) # "set"
    BY DEF AfterAdd
  <2>4. QED
    BY <2>1, <2>2, <2>3, RoomRests DEF Goto
<1>10. ASSUME NEW c \in Channel, AddListed(c) PROVE UNCHANGED Room!vars
  BY <1>10, RoomRests DEF AddListed, Goto
<1>11. ASSUME NEW c \in Channel, MapPutEnd(c) PROVE UNCHANGED Room!vars
  <2>1. AfterAdd(c) # "set"
    BY DEF AfterAdd
  <2>2. QED
    BY <1>11, <2>1, RoomRests DEF MapPutEnd, Goto
<1>12. ASSUME NEW c \in Channel, RelayStart(c) PROVE [Room!Next]_(Room!vars)
  <2>1. UNCHANGED <<password, cleared, delivered>> /\ pc[c] = "relayStart"
    BY <1>12 DEF RelayStart
  <2>2. CASE Goto(c, "relay")
    BY <2>1, <2>2, RoomRests DEF Goto
  <2>3. CASE Return(c)
    BY <2>1, <2>3, ReturnWithdraws DEF Room!Next
  <2>4. QED
    BY <1>12, <2>2, <2>3 DEF RelayStart
<1>13. ASSUME NEW c \in Channel, RelayEnd(c) PROVE Room!Withdraw(c)
  BY <1>13, ReturnWithdraws DEF RelayEnd
<1>14. ASSUME NEW c \in Channel, NEW d \in Channel, RelaySend(c, d)
       PROVE  Room!Deliver(c, d, id[c]) /\ id[c] \in 1..MaxFrames
  <2>1. c # d /\ {c, d} \subseteq cleared
    BY <1>14 DEF RelaySend, ClearedInv
  <2>2. id[c] > delivered[c][d]
    BY <1>14 DEF RelaySend, OrderInv, TypeOK
  <2>3. id[c] \in 1..MaxFrames
    BY <2>2 DEF TypeOK
  <2>4. QED
    BY <1>14, <2>1, <2>2, <2>3 DEF RelaySend, Room!Deliver
<1>15. ASSUME NEW c \in Channel, NEW d \in Channel, RelayFail(c, d)
       PROVE  UNCHANGED Room!vars
  <2>1. Goto(c, "throw") \/ Goto(c, "relay")
    BY <1>15 DEF RelayFail
  <2>2. UNCHANGED <<password, cleared, delivered>> /\ pc[c] = "relay"
    BY <1>15 DEF RelayFail
  <2>3. QED
    BY <2>1, <2>2, RoomRests DEF Goto
<1>16. ASSUME NEW c \in Channel, NEW d \in Channel, RelaySkip(c, d)
       PROVE  UNCHANGED Room!vars
  BY <1>16 DEF RelaySkip, Room!vars
<1>17. ASSUME NEW c \in Channel, Reply(c) PROVE Room!Withdraw(c)
  BY <1>17, ReturnWithdraws DEF Reply
<1>18. ASSUME NEW c \in Channel, ReplyFail(c) PROVE [Room!Next]_(Room!vars)
  <2>1. UNCHANGED <<password, cleared, delivered>> /\ pc[c] = "reply"
    BY <1>18 DEF ReplyFail
  <2>2. CASE Goto(c, "throw")
    BY <2>1, <2>2, RoomRests DEF Goto
  <2>3. CASE Return(c)
    BY <2>1, <2>3, ReturnWithdraws DEF Room!Next
  <2>4. QED
    BY <1>18, <2>2, <2>3 DEF ReplyFail
<1>19. ASSUME NEW c \in Channel, Throw(c) PROVE Room!Withdraw(c)
  BY <1>19, ReturnWithdraws DEF Throw
<1>20. ASSUME NEW c \in Channel, RemoveEnd(c) PROVE UNCHANGED Room!vars
  <2>1. PICK found \in {c \in channelMap} \cup {FALSE : e \in {c} \cap torn} :
            Goto(c, AfterRemove(found))
    BY <1>20 DEF RemoveEnd
  <2>2. UNCHANGED <<password, cleared, delivered>> /\ pc[c] = "remove"
    BY <1>20 DEF RemoveEnd
  <2>3. AfterRemove(found) # "set"
    BY DEF AfterRemove
  <2>4. QED
    BY <2>1, <2>2, <2>3, RoomRests DEF Goto
<1>21. ASSUME NEW c \in Channel, Unlist(c) PROVE UNCHANGED Room!vars
  BY <1>21, RoomRests DEF Unlist, Goto
<1>22. CASE UNCHANGED vars
  BY <1>22 DEF vars, Room!vars
<1>23. QED
  BY <1>1, <1>2, <1>3, <1>4, <1>5, <1>6, <1>7, <1>8, <1>9, <1>10, <1>11, <1>12,
     <1>13, <1>14, <1>15, <1>16, <1>17, <1>18, <1>19, <1>20, <1>21, <1>22
     DEF Next, Step, Room!Next

\* The listener, with its races, implements the chat room: one key set only by
\* who came while there was none, frames only among the cleared, each sender's
\* frames in order and at most once.
THEOREM ListenerImplementsRoom == Spec => RoomSpec
<1>1. Init => Room!Init
  BY DEF Init, Room!Init, NoFrame
<1>2. Init => ClearedInv /\ OrderInv /\ OfferInv
  BY MaxFramesType DEF Init, ClearedInv, OnlyClearedReceive, OrderInv, OfferInv
<1>3. QED
  BY <1>1, <1>2, TypeCorrect, ClearedStep, OrderStep, OfferStep, RoomStep, PTL
     DEF Spec, RoomSpec, Room!Spec
-----------------------------------------------------------------------------

\* A callback that goes on, leaving both registers alone, keeps them in step:
\* it enters neither the put nor onClose, and no closed channel opens again.
LEMMA ListedRests ==
    ASSUME TypeOK, ListedInv, NEW c \in Channel, NEW l,
           UNCHANGED <<channels, channelMap>>, pc' = [pc EXCEPT ![c] = l],
           l \notin {"put", "remove", "unlist"},
           \A d \in Channel : conn[d] = "closed" => conn'[d] = "closed"
    PROVE  ListedInv'
BY DEF TypeOK, ListedInv, MembersAreListed, HashesDiffer, Closing

\* close() leaves a closed connection closed.
LEMMA CloseKeepsClosed ==
    ASSUME TypeOK, NEW c \in Channel, NEW d \in Channel,
           NEW o \in ErrorOutcomes(c, d), NEW closes \in BOOLEAN,
           CountError(c, d, o, closes)
    PROVE  \A x \in Channel : conn[x] = "closed" => conn'[x] = "closed"
BY DEF TypeOK, CountError, CloseIf

\* addChannel and onClose keep channelMap within channels for live sessions.
LEMMA ListedStep == TypeOK /\ ListedInv /\ [Next]_vars => ListedInv'
<1> SUFFICES ASSUME TypeOK, ListedInv, [Next]_vars PROVE ListedInv'
  OBVIOUS
<1> USE DEF shared, callback, history
<1>1. ASSUME NEW c \in Channel, Connect(c) PROVE ListedInv'
  <2>1. \A x \in Channel : conn[x] = "closed" => conn'[x] = "closed"
    BY <1>1 DEF Connect, TypeOK
  <2>2. UNCHANGED <<channels, channelMap, pc>>
    BY <1>1 DEF Connect
  <2>3. QED
    BY <2>1, <2>2 DEF TypeOK, ListedInv, MembersAreListed, HashesDiffer
<1>2. ASSUME NEW c \in Channel, Break(c) PROVE ListedInv'
  <2>1. \A x \in Channel : conn[x] = "closed" => conn'[x] = "closed"
    BY <1>2 DEF Break, TypeOK
  <2>2. UNCHANGED <<channels, channelMap, pc>>
    BY <1>2 DEF Break
  <2>3. QED
    BY <2>1, <2>2 DEF TypeOK, ListedInv, MembersAreListed, HashesDiffer
<1>3. ASSUME NEW c \in Channel, OnError(c) PROVE ListedInv'
  BY <1>3, ListedRests DEF OnError, Goto
<1>4. ASSUME NEW c \in Channel, NEW f \in Frame, OnFrame(c, f) PROVE ListedInv'
  <2>1. pc' = [pc EXCEPT ![c] = pc'[c]] /\ pc'[c] \notin {"put", "remove", "unlist"}
    BY <1>4 DEF OnFrame, PasswordBranch, TypeOK
  <2>2. QED
    BY <1>4, <2>1, ListedRests DEF OnFrame
<1>5. ASSUME NEW c \in Channel, OnClose(c) PROVE ListedInv'
  <2>1. UNCHANGED <<channels, channelMap>>
    BY <1>5 DEF OnClose
  <2>2. pc' = [pc EXCEPT ![c] = "remove"] /\ conn' = [conn EXCEPT ![c] = "closed"]
    BY <1>5 DEF OnClose, Goto
  <2>3. QED
    BY <2>1, <2>2 DEF TypeOK, ListedInv, MembersAreListed, HashesDiffer, Closing
<1>6. ASSUME NEW c \in Channel, SetPassword(c) PROVE ListedInv'
  BY <1>6, ListedRests DEF SetPassword, Goto
<1>7. ASSUME NEW c \in Channel, Compare(c) PROVE ListedInv'
  <2>1. Goto(c, "contains") \/ Goto(c, "reply")
    BY <1>7 DEF Compare
  <2>2. QED
    BY <1>7, <2>1, ListedRests DEF Compare, Goto
<1>8. ASSUME NEW c \in Channel, Gate(c) PROVE ListedInv'
  <2>1. \E found \in Lookup(c) : Goto(c, AfterGate(found))
    BY <1>8 DEF Gate
  <2>2. Goto(c, "relayStart") \/ Goto(c, "reply")
    BY <2>1 DEF AfterGate
  <2>3. QED
    BY <1>8, <2>2, ListedRests DEF Gate, Goto
<1>9. ASSUME NEW c \in Channel, AddContains(c) PROVE ListedInv'
  <2>1. Goto(c, "reply") \/ Goto(c, "relayStart") \/ Goto(c, "list")
    BY <1>9 DEF AddContains, AfterAdd
  <2>2. QED
    BY <1>9, <2>1, ListedRests DEF AddContains, Goto
<1>10. ASSUME NEW c \in Channel, AddListed(c) PROVE ListedInv'
  <2>1. UNCHANGED <<channelMap, conn>> /\ pc' = [pc EXCEPT ![c] = "put"]
    BY <1>10 DEF AddListed, Goto
  <2>2. channels' = Listed(c) /\ channels \subseteq channels'
    BY <1>10 DEF AddListed, Listed
  <2>3. HashesDiffer => c \in channels'
    BY <2>2 DEF Listed, HashesDiffer, TypeOK
  <2>4. QED
    BY <2>1, <2>2, <2>3 DEF TypeOK, ListedInv, MembersAreListed, HashesDiffer, Closing
<1>11. ASSUME NEW c \in Channel, MapPutEnd(c) PROVE ListedInv'
  <2>1. channelMap' \subseteq channelMap \cup {c} /\ UNCHANGED <<channels, conn>> /\ pc[c] = "put"
    BY <1>11 DEF MapPutEnd, WriteOutcomes, Put
  <2>2. \E l \in {"reply", "relayStart"} : pc' = [pc EXCEPT ![c] = l]
    BY <1>11 DEF MapPutEnd, Goto, AfterAdd
  <2>3. QED
    BY <2>1, <2>2 DEF TypeOK, ListedInv, MembersAreListed, HashesDiffer, Closing
<1>12. ASSUME NEW c \in Channel, RelayStart(c) PROVE ListedInv'
  <2>1. UNCHANGED <<channels, channelMap, conn>>
    BY <1>12 DEF RelayStart
  <2>2. Goto(c, "relay") \/ Return(c)
    BY <1>12 DEF RelayStart
  <2>3. QED
    BY <2>1, <2>2, ListedRests DEF Goto, Return
<1>13. ASSUME NEW c \in Channel, RelayEnd(c) PROVE ListedInv'
  BY <1>13, ListedRests DEF RelayEnd, Return
<1>14. ASSUME NEW c \in Channel, NEW d \in Channel, RelaySend(c, d) PROVE ListedInv'
  <2>1. \A x \in Channel : conn[x] = "closed" => conn'[x] = "closed"
    BY <1>14 DEF RelaySend, TypeOK
  <2>2. UNCHANGED <<channels, channelMap, pc>>
    BY <1>14 DEF RelaySend
  <2>3. QED
    BY <2>1, <2>2 DEF TypeOK, ListedInv, MembersAreListed, HashesDiffer
<1>15. ASSUME NEW c \in Channel, NEW d \in Channel, RelayFail(c, d) PROVE ListedInv'
  <2>1. \A x \in Channel : conn[x] = "closed" => conn'[x] = "closed"
    BY <1>15, CloseKeepsClosed DEF RelayFail
  <2>2. Goto(c, "throw") \/ Goto(c, "relay")
    BY <1>15 DEF RelayFail
  <2>3. UNCHANGED <<channels, channelMap>>
    BY <1>15 DEF RelayFail
  <2>4. QED
    BY <2>1, <2>2, <2>3, ListedRests DEF Goto
<1>16. ASSUME NEW c \in Channel, NEW d \in Channel, RelaySkip(c, d) PROVE ListedInv'
  <2>1. \A x \in Channel : conn[x] = "closed" => conn'[x] = "closed"
    BY <1>16 DEF RelaySkip, TypeOK
  <2>2. UNCHANGED <<channels, channelMap, pc>>
    BY <1>16 DEF RelaySkip
  <2>3. QED
    BY <2>1, <2>2 DEF TypeOK, ListedInv, MembersAreListed, HashesDiffer
<1>17. ASSUME NEW c \in Channel, Reply(c) PROVE ListedInv'
  BY <1>17, ListedRests DEF Reply, Return
<1>18. ASSUME NEW c \in Channel, ReplyFail(c) PROVE ListedInv'
  <2>1. \A x \in Channel : conn[x] = "closed" => conn'[x] = "closed"
    BY <1>18, CloseKeepsClosed DEF ReplyFail
  <2>2. Goto(c, "throw") \/ Return(c)
    BY <1>18 DEF ReplyFail
  <2>3. UNCHANGED <<channels, channelMap>>
    BY <1>18 DEF ReplyFail
  <2>4. QED
    BY <2>1, <2>2, <2>3, ListedRests DEF Goto, Return
<1>19. ASSUME NEW c \in Channel, Throw(c) PROVE ListedInv'
  <2>1. \A x \in Channel : conn[x] = "closed" => conn'[x] = "closed"
    BY <1>19, CloseKeepsClosed DEF Throw
  <2>2. QED
    BY <1>19, <2>1, ListedRests DEF Throw, Return
<1>20. ASSUME NEW c \in Channel, RemoveEnd(c) PROVE ListedInv'
  <2>1. channelMap' \subseteq channelMap /\ UNCHANGED <<channels, conn>> /\ pc[c] = "remove"
    BY <1>20 DEF RemoveEnd, WriteOutcomes
  <2>2. \E l \in {"idle", "unlist"} : pc' = [pc EXCEPT ![c] = l]
    BY <1>20 DEF RemoveEnd, Goto, AfterRemove
  <2>3. QED
    BY <2>1, <2>2 DEF TypeOK, ListedInv, MembersAreListed, HashesDiffer, Closing
<1>21. ASSUME NEW c \in Channel, Unlist(c) PROVE ListedInv'
  <2>1. UNCHANGED <<channelMap, conn>> /\ pc[c] = "unlist" /\ pc' = [pc EXCEPT ![c] = "idle"]
    BY <1>21 DEF Unlist, Goto
  <2>2. channels' = {d \in channels : HashCode[d] # HashCode[c]} /\ conn[c] = "closed"
    BY <1>21 DEF Unlist, ListedInv, Closing
  <2>3. HashesDiffer => channels' = channels \ {c}
    BY <2>2 DEF HashesDiffer, TypeOK
  <2>4. QED
    BY <2>1, <2>2, <2>3 DEF TypeOK, ListedInv, MembersAreListed, HashesDiffer, Closing
<1>22. CASE UNCHANGED vars
  BY <1>22 DEF vars, ListedInv, MembersAreListed, HashesDiffer
<1>23. QED
  BY <1>1, <1>2, <1>3, <1>4, <1>5, <1>6, <1>7, <1>8, <1>9, <1>10, <1>11, <1>12,
     <1>13, <1>14, <1>15, <1>16, <1>17, <1>18, <1>19, <1>20, <1>21, <1>22
     DEF Next, Step

\* Every live session that passes the gate as a sender receives as well, even
\* when HashMap entries get lost, as long as no two hash codes are equal.
THEOREM MembersAlwaysListed == Spec => []MembersAreListed
<1>1. Init => ListedInv
  BY DEF Init, ListedInv, MembersAreListed, Closing
<1>2. ListedInv => MembersAreListed
  BY DEF ListedInv
<1>3. QED
  BY <1>1, <1>2, ListedStep, TypeCorrect, PTL DEF Spec
=============================================================================
