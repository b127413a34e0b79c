------------------------------ MODULE Settings ------------------------------
(***************************************************************************)
(* The settings of the tabs of one browser: each has a model and its chats *)
(* in memory and a sessionStorage, and all share one localStorage.  The    *)
(* nick is stored and restored with the chats and left out.                *)
(***************************************************************************)
CONSTANTS
    Tab,
    Name,        \* of chats
    Password,    \* what can be entered as password
    NoPassword,  \* the empty one
    NoChat,      \* the password of a chat that a tab does not have
    None         \* a storage without `parqchat'

ASSUME NoPasswordIsOther == NoPassword \notin Password
ASSUME NoChatIsOther     == NoChat \notin Password \cup {NoPassword}
ASSUME NoneIsOther ==
    None \notin [type : {"none", "session", "local"},
                 chats : [Name -> Password \cup {NoPassword, NoChat}]]

VARIABLES
    local,        \* localStorage.parqchat
    session,      \* sessionStorage.parqchat of each tab
    noneFlag,     \* sessionStorage.parqStorageType is "none"
    open,         \* the tabs that show the page
    storageType,  \* settings.model.storageType
    chats,        \* settings.tmp.chats, by name the password
    saved,        \* history: what each tab saved last
    disturbed     \* history: tabs since whose last save another changed local

stores  == <<local, session, noneFlag>>
pages   == <<open, storageType, chats>>
history == <<saved, disturbed>>
vars    == <<stores, pages, history>>

StorageType == {"none", "session", "local"}
Chats   == [Name -> Password \cup {NoPassword, NoChat}]
NoChats == [n \in Name |-> NoChat]
Stored(types) == [type : types, chats : Chats]

\* Of the storages each holds only states that name it as their storage type.
TypeOK ==
    /\ local \in Stored({"local"}) \cup {None}
    /\ session \in [Tab -> Stored({"session"}) \cup {None}]
    /\ noneFlag \in [Tab -> BOOLEAN]
    /\ open \subseteq Tab
    /\ storageType \in [Tab -> StorageType]
    /\ chats \in [Tab -> Chats]
    /\ saved \in [Tab -> Stored(StorageType) \cup {None}]
    /\ disturbed \subseteq Tab

\* A browser in which the page was never shown.
Init ==
    /\ local = None
    /\ session = [t \in Tab |-> None]
    /\ noneFlag = [t \in Tab |-> FALSE]
    /\ open = {}
    /\ storageType = [t \in Tab |-> "session"]
    /\ chats = [t \in Tab |-> NoChats]
    /\ saved = [t \in Tab |-> None]
    /\ disturbed = {}

-----------------------------------------------------------------------------
(***************************************************************************)
(* savestate and restorestate.                                             *)
(***************************************************************************)

\* What savestate leaves in localStorage; and if it did not delete first.
LocalAfterKept(r) == IF r.type = "local" THEN r ELSE local
LocalAfter(r)     == IF r.type = "local" THEN r ELSE None

\* What it leaves in the sessionStorage of t; if it did not delete first; and if
\* the storage for "none" were that one.
SessionAfterKept(t, r)   == IF r.type = "session" THEN r ELSE session[t]
SessionAfterAlways(t, r) == IF r.type = "local" THEN None ELSE r
SessionAfter(t, r)       == IF r.type = "session" THEN r ELSE None

\* savestate in t of the storage type and the chats in r.
Savestate(t, r) ==
    /\ local' = LocalAfter(r)
    /\ session' = [session EXCEPT ![t] = SessionAfter(t, r)]
    /\ noneFlag' = [noneFlag EXCEPT ![t] = @ \/ r.type = "none"]
    /\ saved' = [saved EXCEPT ![t] = r]
    /\ disturbed' = IF local' = local THEN disturbed \ {t}
                                     ELSE (disturbed \cup open) \ {t}

\* What restorestate would give to t now: the state in the first storage that
\* has one; if not, an empty model with the type "none" if t ever saved with it.
Restored(t) ==
    CASE local # None                       -> local
      [] local = None /\ session[t] # None  -> session[t]
      [] OTHER -> [type |-> IF noneFlag[t] THEN "none" ELSE "session", chats |-> NoChats]

\* getChat: a chat that the tab does not have is added without a password, and
\* that is saved.
GetChat(t, r, n) ==
    IF r.chats[n] # NoChat
    THEN /\ chats' = [chats EXCEPT ![t] = r.chats]
         /\ UNCHANGED <<stores, history>>
    ELSE LET added == [r EXCEPT !.chats[n] = NoPassword] IN
         /\ chats' = [chats EXCEPT ![t] = added.chats]
         /\ Savestate(t, added)

-----------------------------------------------------------------------------
(***************************************************************************)
(* What happens in a tab.                                                  *)
(***************************************************************************)

Model(t) == [type |-> storageType[t], chats |-> chats[t]]

\* The page of chat n is opened in a tab, or loaded again: restorestate, and
\* getChat for the name in the URL.
Load(t, n) ==
    /\ open' = open \cup {t}
    /\ storageType' = [storageType EXCEPT ![t] = Restored(t).type]
    /\ GetChat(t, Restored(t), n)

\* A link, or the name typed in the sidebar, leads to chat n.
OpenChat(t, n) ==
    /\ t \in open
    /\ GetChat(t, Model(t), n)
    /\ UNCHANGED <<open, storageType>>

\* A password is typed for a chat, and shared with the model at once.
TypePassword(t, n, p) ==
    /\ t \in open
    /\ chats[t][n] # NoChat
    /\ chats' = [chats EXCEPT ![t][n] = p]
    /\ UNCHANGED <<stores, open, storageType, history>>

\* A storage type is picked in the dialog, whether or not that is applied then.
PickStorage(t, type) ==
    /\ t \in open
    /\ storageType' = [storageType EXCEPT ![t] = type]
    /\ UNCHANGED <<stores, open, chats, history>>

\* setNick, setPrivacy, or a password that the server accepts.
Save(t) ==
    /\ t \in open
    /\ Savestate(t, Model(t))
    /\ UNCHANGED pages

\* A tab is closed, and its sessionStorage gone.
Close(t) ==
    /\ t \in open
    /\ open' = open \ {t}
    /\ session' = [session EXCEPT ![t] = None]
    /\ noneFlag' = [noneFlag EXCEPT ![t] = FALSE]
    /\ storageType' = [storageType EXCEPT ![t] = "session"]
    /\ chats' = [chats EXCEPT ![t] = NoChats]
    /\ saved' = [saved EXCEPT ![t] = None]
    /\ disturbed' = disturbed \ {t}
    /\ UNCHANGED local

Next ==
    \E t \in Tab :
        \/ Save(t) \/ Close(t)
        \/ \E type \in StorageType : PickStorage(t, type)
        \/ \E n \in Name : \/ Load(t, n) \/ OpenChat(t, n)
                          \/ \E p \in Password \cup {NoPassword} : TypePassword(t, n, p)

Spec == Init /\ [][Next]_vars

-----------------------------------------------------------------------------
(***************************************************************************)
(* Properties.                                                             *)
(***************************************************************************)

\* What a tab saved last is what it has after a reload, and with the type "none"
\* that is nothing, as long as no other tab has changed localStorage since
\* (savestate, restorestate, getStorage, whatever types were picked before).
SavedIsRestored ==
    \A t \in open \ disturbed :
        saved[t] # None =>
            IF saved[t].type = "none"
            THEN Restored(t) = [saved[t] EXCEPT !.chats = NoChats]
            ELSE Restored(t) = saved[t]

\* A copy in sessionStorage, which comes to light when another tab clears
\* localStorage, is never older than what its tab saved last (savestate).
NoStaleCopy ==
    \A t \in Tab : session[t] # None => session[t] = saved[t]

\* The privacy dialog says of the settings it stores that this "survives a page
\* refresh", and of those it persists, that this "survives a browser exit": no
\* chat is lost by a reload.
SurvivesRefresh ==
    \A t \in open, n \in Name :
        saved[t] # None /\ saved[t].type # "none" /\ saved[t].chats[n] # NoChat
            => Restored(t).chats[n] # NoChat
=============================================================================
