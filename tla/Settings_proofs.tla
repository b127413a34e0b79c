--------------------------- MODULE Settings_proofs ---------------------------
(***************************************************************************)
(* What Settings promises of any number of tabs, chats and passwords: its  *)
(* types, that no stale copy is kept, and that a reload restores what was  *)
(* saved.                                                                  *)
(***************************************************************************)
EXTENDS Settings, TLAPS

\* A tab that does not show the page has stored nothing of its own.
ClosedIsBlank == \A t \in Tab \ open : saved[t] = None

StoreInv == TypeOK /\ ClosedIsBlank /\ NoStaleCopy /\ SavedIsRestored

\* A state of one storage type is a state.
LEMMA StoredIsStored ==
    ASSUME NEW types \in SUBSET StorageType, NEW r \in Stored(types)
    PROVE  r \in Stored(StorageType) /\ r.type \in types /\ r.chats \in Chats /\ r # None
BY NoneIsOther DEF Stored, StorageType, Chats

\* restorestate gives a tab a state.
LEMMA RestoredType ==
    ASSUME TypeOK, NEW t \in Tab
    PROVE  Restored(t) \in Stored(StorageType)
<1>1. NoChats \in Chats
  BY DEF NoChats, Chats
<1>2. CASE local # None
  BY <1>2, StoredIsStored DEF TypeOK, Restored, StorageType, Stored
<1>3. CASE local = None /\ session[t] # None
  BY <1>3, StoredIsStored DEF TypeOK, Restored, StorageType, Stored
<1>4. CASE local = None /\ session[t] = None
  BY <1>1, <1>4 DEF Restored, StorageType, Stored
<1> QED BY <1>2, <1>3, <1>4

\* savestate preserves what the storages and the history have to do with each
\* other, and its own tab gets back what it saved.
LEMMA SavestateKeeps ==
    ASSUME StoreInv, NEW t \in Tab, NEW r \in Stored(StorageType), Savestate(t, r),
           open' = open \cup {t}
    PROVE  /\ local' \in Stored({"local"}) \cup {None}
           /\ session' \in [Tab -> Stored({"session"}) \cup {None}]
           /\ noneFlag' \in [Tab -> BOOLEAN]
           /\ saved' \in [Tab -> Stored(StorageType) \cup {None}]
           /\ disturbed' \subseteq Tab
           /\ ClosedIsBlank' /\ NoStaleCopy' /\ SavedIsRestored'
<1> USE DEF StoreInv
<1>1. /\ r \in [type : StorageType, chats : Chats]
      /\ r # None
  BY StoredIsStored DEF Stored
<1>2. local' \in Stored({"local"}) \cup {None}
  BY <1>1 DEF Savestate, LocalAfter, Stored
<1>3. session' \in [Tab -> Stored({"session"}) \cup {None}]
  BY <1>1 DEF Savestate, SessionAfter, Stored, TypeOK
<1>4. noneFlag' \in [Tab -> BOOLEAN]
  BY DEF Savestate, TypeOK
<1>5. saved' \in [Tab -> Stored(StorageType) \cup {None}]
  BY DEF Savestate, TypeOK
<1>6. disturbed' \subseteq Tab
  BY DEF Savestate, TypeOK
<1>7. saved'[t] = r /\ \A u \in Tab \ {t} : saved'[u] = saved[u]
  BY DEF Savestate, TypeOK
<1>8. /\ session'[t] = SessionAfter(t, r)
      /\ \A u \in Tab \ {t} : session'[u] = session[u]
  BY DEF Savestate, TypeOK
<1>9. /\ noneFlag'[t] = (noneFlag[t] \/ r.type = "none")
      /\ \A u \in Tab \ {t} : noneFlag'[u] = noneFlag[u]
  BY DEF Savestate, TypeOK
<1>10. ClosedIsBlank'
  BY <1>7 DEF ClosedIsBlank
<1>11. NoStaleCopy'
  BY <1>7, <1>8 DEF NoStaleCopy, SessionAfter
<1>12. SavedIsRestored'
  <2> SUFFICES ASSUME NEW u \in Tab, u \in open', u \notin disturbed', saved'[u] # None
               PROVE  IF saved'[u].type = "none"
                      THEN Restored(u)' = [saved'[u] EXCEPT !.chats = NoChats]
                      ELSE Restored(u)' = saved'[u]
    BY <1>1, <1>7 DEF SavedIsRestored, TypeOK
  <2>1. CASE u = t
    <3>1. CASE r.type = "none"
      <4>1. local' = None /\ session'[t] = None /\ noneFlag'[t]
        BY <1>8, <1>9, <3>1 DEF Savestate, LocalAfter, SessionAfter
      <4>2. Restored(t)' = [type |-> "none", chats |-> NoChats]
        BY <4>1 DEF Restored
      <4> QED BY <1>1, <1>7, <2>1, <3>1, <4>2
    <3>2. CASE r.type = "session"
      <4>1. local' = None /\ session'[t] = r
        BY <1>8, <3>2 DEF Savestate, LocalAfter, SessionAfter
      <4> QED BY <1>1, <1>7, <2>1, <3>2, <4>1 DEF Restored
    <3>3. CASE r.type = "local"
      <4>1. local' = r
        BY <3>3 DEF Savestate, LocalAfter
      <4> QED BY <1>1, <1>7, <2>1, <3>3, <4>1 DEF Restored
    <3> QED BY <1>1, <3>1, <3>2, <3>3 DEF StorageType
  <2>2. CASE u # t
    <3>1. u \in open \ disturbed /\ local' = local
      BY <2>2 DEF Savestate
    <3>2. Restored(u)' = Restored(u)
      BY <1>8, <1>9, <2>2, <3>1 DEF Restored
    <3> QED BY <1>7, <2>2, <3>1, <3>2 DEF SavedIsRestored
  <2> QED BY <2>1, <2>2
<1> QED BY <1>2, <1>3, <1>4, <1>5, <1>6, <1>10, <1>11, <1>12

\* getChat keeps them too, when what it starts from is the model of a tab that
\* is open, or what a reload restores.
LEMMA GetChatKeeps ==
    ASSUME StoreInv, NEW t \in Tab, NEW r \in Stored(StorageType), NEW n \in Name,
           GetChat(t, r, n), open' = open \cup {t}
    PROVE  /\ chats' \in [Tab -> Chats]
           /\ local' \in Stored({"local"}) \cup {None}
           /\ session' \in [Tab -> Stored({"session"}) \cup {None}]
           /\ noneFlag' \in [Tab -> BOOLEAN]
           /\ saved' \in [Tab -> Stored(StorageType) \cup {None}]
           /\ disturbed' \subseteq Tab
           /\ ClosedIsBlank' /\ NoStaleCopy' /\ SavedIsRestored'
<1>1. CASE r.chats[n] # NoChat
  <2>1. chats' = [chats EXCEPT ![t] = r.chats] /\ UNCHANGED <<stores, history>>
    BY <1>1 DEF GetChat
  <2>2. ClosedIsBlank' /\ NoStaleCopy'
    BY <2>1 DEF stores, history, StoreInv, ClosedIsBlank, NoStaleCopy
  <2>3. \A u \in Tab : Restored(u)' = Restored(u)
    BY <2>1 DEF stores, Restored
  <2>4. \A u \in open' : saved[u] # None => u \in open
    BY DEF StoreInv, ClosedIsBlank
  <2>5. SavedIsRestored'
    BY <2>1, <2>3, <2>4 DEF stores, history, StoreInv, SavedIsRestored, TypeOK
  <2> QED BY <2>1, <2>2, <2>5 DEF stores, history, StoreInv, TypeOK, Stored
<1>2. CASE r.chats[n] = NoChat
  <2> DEFINE added == [r EXCEPT !.chats[n] = NoPassword]
  <2>1. added \in Stored(StorageType)
    BY DEF Stored, Chats
  <2>2. chats' = [chats EXCEPT ![t] = added.chats] /\ Savestate(t, added)
    BY <1>2 DEF GetChat
  <2>3. added.chats \in Chats
    BY <2>1 DEF Stored
  <2> HIDE DEF added
  <2>4. chats' \in [Tab -> Chats]
    BY <2>2, <2>3 DEF StoreInv, TypeOK
  <2> QED BY <2>1, <2>2, <2>4, SavestateKeeps
<1> QED BY <1>1, <1>2

LEMMA StoreInvInit == Init => StoreInv
<1> SUFFICES ASSUME Init PROVE StoreInv
  OBVIOUS
<1>1. TypeOK
  BY DEF Init, TypeOK, Chats, NoChats, StorageType
<1> QED BY <1>1 DEF Init, StoreInv, ClosedIsBlank, NoStaleCopy, SavedIsRestored

LEMMA StoreInvNext == StoreInv /\ [Next]_vars => StoreInv'
<1> SUFFICES ASSUME StoreInv, [Next]_vars PROVE StoreInv'
  OBVIOUS
<1>1. ASSUME NEW t \in Tab, NEW n \in Name, Load(t, n) PROVE StoreInv'
  <2>1. Restored(t) \in Stored(StorageType)
    BY RestoredType DEF StoreInv
  <2>2. GetChat(t, Restored(t), n) /\ open' = open \cup {t}
    BY <1>1 DEF Load
  <2>3. open' \subseteq Tab /\ storageType' \in [Tab -> StorageType]
    BY <1>1, <2>1 DEF Load, StoreInv, TypeOK, Stored
  <2> QED BY <2>1, <2>2, <2>3, GetChatKeeps DEF StoreInv, TypeOK
<1>2. ASSUME NEW t \in Tab, NEW n \in Name, OpenChat(t, n) PROVE StoreInv'
  <2>1. Model(t) \in Stored(StorageType)
    BY DEF Model, Stored, StoreInv, TypeOK
  <2>2. GetChat(t, Model(t), n) /\ open' = open \cup {t}
    BY <1>2 DEF OpenChat
  <2>3. open' \subseteq Tab /\ storageType' \in [Tab -> StorageType]
    BY <1>2 DEF OpenChat, StoreInv, TypeOK
  <2> QED BY <2>1, <2>2, <2>3, GetChatKeeps DEF StoreInv, TypeOK
<1>3. ASSUME NEW t \in Tab, NEW n \in Name, NEW p \in Password \cup {NoPassword},
             TypePassword(t, n, p)
      PROVE  StoreInv'
  <2>1. chats' \in [Tab -> Chats]
    BY <1>3 DEF TypePassword, StoreInv, TypeOK, Chats
  <2> QED BY <1>3, <2>1 DEF TypePassword, StoreInv, TypeOK, stores, history,
             ClosedIsBlank, NoStaleCopy, SavedIsRestored, Restored
<1>4. ASSUME NEW t \in Tab, NEW type \in StorageType, PickStorage(t, type) PROVE StoreInv'
  BY <1>4 DEF PickStorage, StoreInv, TypeOK, stores, history,
              ClosedIsBlank, NoStaleCopy, SavedIsRestored, Restored
<1>5. ASSUME NEW t \in Tab, Save(t) PROVE StoreInv'
  <2>1. Model(t) \in Stored(StorageType)
    BY DEF Model, Stored, StoreInv, TypeOK
  <2>2. Savestate(t, Model(t)) /\ UNCHANGED pages /\ open' = open \cup {t}
    BY <1>5 DEF Save, pages
  <2>3. open' \subseteq Tab /\ storageType' \in [Tab -> StorageType]
                            /\ chats' \in [Tab -> Chats]
    BY <2>2 DEF pages, StoreInv, TypeOK
  <2> QED BY <2>1, <2>2, <2>3, SavestateKeeps DEF StoreInv, TypeOK
<1>6. ASSUME NEW t \in Tab, Close(t) PROVE StoreInv'
  <2>1. TypeOK'
    BY <1>6 DEF Close, StoreInv, TypeOK, StorageType, Chats, NoChats
  <2>2. ClosedIsBlank' /\ NoStaleCopy'
    BY <1>6 DEF Close, StoreInv, TypeOK, ClosedIsBlank, NoStaleCopy
  <2>3. \A u \in Tab \ {t} : Restored(u)' = Restored(u) /\ saved'[u] = saved[u]
    BY <1>6 DEF Close, StoreInv, TypeOK, Restored
  <2>4. SavedIsRestored'
    BY <1>6, <2>3 DEF Close, StoreInv, TypeOK, SavedIsRestored
  <2> QED BY <2>1, <2>2, <2>4 DEF StoreInv
<1>7. ASSUME UNCHANGED vars PROVE StoreInv'
  BY <1>7 DEF vars, stores, pages, history, StoreInv, TypeOK, ClosedIsBlank,
              NoStaleCopy, SavedIsRestored, Restored
<1> QED BY <1>1, <1>2, <1>3, <1>4, <1>5, <1>6, <1>7 DEF Next

\* What each storage holds, for any tabs, chats and passwords: localStorage only
\* what was saved with the type "local", and a sessionStorage only "session".
THEOREM SettingsTypeCorrect == Spec => []TypeOK
<1>1. StoreInv => TypeOK
  BY DEF StoreInv
<1> QED BY <1>1, StoreInvInit, StoreInvNext, PTL DEF Spec

\* savestate leaves no older copy in a sessionStorage.
THEOREM NeverAStaleCopy == Spec => []NoStaleCopy
<1>1. StoreInv => NoStaleCopy
  BY DEF StoreInv
<1> QED BY <1>1, StoreInvInit, StoreInvNext, PTL DEF Spec

\* A reload restores what the tab saved last, if no other tab has changed
\* localStorage since.
THEOREM SavedAlwaysRestored == Spec => []SavedIsRestored
<1>1. StoreInv => SavedIsRestored
  BY DEF StoreInv
<1> QED BY <1>1, StoreInvInit, StoreInvNext, PTL DEF Spec
=============================================================================
