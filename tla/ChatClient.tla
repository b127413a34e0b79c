----------------------------- MODULE ChatClient -----------------------------
(***************************************************************************)
(* One page and its connection to one chat: Protocol and Password of the   *)
(* client, the interval of the page that reconnects, and the chat's server *)
(* as far as this page's sessions notice it (ChatListener says what it     *)
(* does with several at a time).                                           *)
(*                                                                         *)
(* reconnect replaces the websocket; events of a replaced one still reach  *)
(* the same handlers.  A page is one thread: each handler is an action.    *)
(***************************************************************************)
EXTENDS Naturals, Sequences, FiniteSets

CONSTANTS
    Socket,      \* bound: the websockets of the page at a time; they are used again
    First,       \* the one connect makes
    Password,    \* what can be entered as password, the empty one included
    Empty,       \* that one
    NoPassword,  \* the server's null
    MaxEnters,   \* bound: passwords typed, or applied again, by the user
    MaxTexts,    \* bound: texts typed by the user
    MaxBreaks    \* bound: connections and servers that fail

ASSUME FirstIsOne       == First \in Socket
ASSUME EmptyIsPassword  == Empty \in Password
ASSUME NoPasswordIsNull == NoPassword \notin Password
ASSUME BoundsType       == {MaxEnters, MaxTexts, MaxBreaks} \subseteq Nat

VARIABLES
    websocket,          \* Protocol.websocket
    state,              \* of each websocket
    queue,              \* its sendQueue
    up, down,           \* frames on their way to the server, and answers from it
    connected,          \* Protocol.connected
    password,           \* Chat.password
    passwordOk,         \* Chat.passwordOk
    passwordProtected,  \* Chat.passwordProtected
    serverPassword,     \* PasswordHandler.password
    registered,         \* the sessions that have been in the listener's channelMap
    enters, texts, breaks,
    late,               \* history: a replaced websocket closed since its successor opened
    refused,            \* history: a text was refused that had been allowed
    unsent              \* history: the password was typed and has not been sent since

sockets == <<state, queue, up, down>>
chat    == <<connected, password, passwordOk, passwordProtected>>
server  == <<serverPassword, registered>>
bounds  == <<enters, texts, breaks>>
history == <<late, refused, unsent>>
vars    == <<websocket, sockets, chat, server, bounds, history>>

\* "none": never used, or its close has been reported; "lost": the connection
\* is gone, "closing": the page has closed it, and that is still to be reported.
State == {"none", "connecting", "open", "lost", "closing"}

\* A websocket was replaced and not closed.
LeftOpen == \E w \in Socket \ {websocket} : state[w] \in {"open", "lost"}

\* To the server, who compares hashes, the empty password is one like any other.
\* A frame is a password, or it is not; a text remembers whether it was typed
\* with passwordOk set, and not by what a websocket left open was told.
UnhashedFrame(p) == [kind |-> "password", pw |-> NoPassword]
PasswordFrame(p) == [kind |-> "password", pw |-> p]
InitFrame        == [kind |-> "init"]
TextFrame        == [kind |-> "text", ok |-> passwordOk /\ ~LeftOpen]
Frame == [kind : {"password"}, pw : Password] \cup {InitFrame}
            \cup [kind : {"text"}, ok : BOOLEAN]

Status == {"password_set", "password_ok", "password_wrong"}

TypeOK ==
    /\ websocket \in Socket
    /\ state \in [Socket -> State]
    /\ queue \in [Socket -> Seq(Frame)]
    /\ up \in [Socket -> Seq(Frame)]
    /\ down \in [Socket -> Seq(Status)]
    /\ {connected, passwordOk, passwordProtected, late, refused, unsent} \subseteq BOOLEAN
    /\ password \in Password
    /\ serverPassword \in Password \cup {NoPassword}
    /\ registered \subseteq Socket
    /\ enters \in 0..MaxEnters /\ texts \in 0..MaxTexts /\ breaks \in 0..MaxBreaks

\* The page has been loaded, with or without a password in its settings, and
\* connect has made the first websocket.
Init ==
    /\ websocket = First
    /\ state = [w \in Socket |-> IF w = First THEN "connecting" ELSE "none"]
    /\ queue = [w \in Socket |-> <<>>]
    /\ up = [w \in Socket |-> <<>>]
    /\ down = [w \in Socket |-> <<>>]
    /\ connected = FALSE
    /\ password \in Password
    /\ passwordOk = FALSE
    /\ passwordProtected = FALSE
    /\ serverPassword \in Password \cup {NoPassword}
    /\ registered = {}
    /\ enters = 0 /\ texts = 0 /\ breaks = 0
    /\ late = FALSE
    /\ refused = FALSE
    /\ unsent = FALSE

-----------------------------------------------------------------------------
(***************************************************************************)
(* The page.                                                               *)
(***************************************************************************)

\* websocket.send of the frames fs: on an open connection they are sent, after
\* what was queued before; on any other they are queued.
Send(fs) ==
    IF state[websocket] = "open"
    THEN /\ up' = [up EXCEPT ![websocket] = @ \o fs]
         /\ UNCHANGED queue
    ELSE /\ queue' = [queue EXCEPT ![websocket] = @ \o fs]
         /\ UNCHANGED up

\* websocket.close() does nothing while something is in the buffer.
Closed(s, buffered) == IF s = "none" \/ buffered THEN s ELSE "closing"

\* The chat is reconnected when it is not connected; were it always, or only
\* with an open websocket.
ReconnectsAlways == TRUE
ReconnectsOpen   == ~connected /\ state[websocket] = "open"
Reconnects       == ~connected

\* reconnect: the websocket is closed, unless it is connected and has something
\* in its buffer, and w takes its place.  What the old one had queued is lost.
Reconnect(w, buffered) ==
    /\ w # websocket /\ state[w] = "none"
    /\ buffered => state[websocket] \in {"open", "lost"}
    /\ state' = [state EXCEPT ![websocket] = Closed(@, buffered), ![w] = "connecting"]
    /\ websocket' = w
    /\ up' = [up EXCEPT ![w] = <<>>]
    /\ queue' = [queue EXCEPT ![websocket] = <<>>]
    /\ registered' = registered \ {w}
    /\ passwordOk' = FALSE
    /\ UNCHANGED <<down, connected, password, passwordProtected,
                   serverPassword, bounds, history>>

\* The page's interval finds its current chat not connected.
UpdateSeenPeers == Reconnects /\ \E w \in Socket, buffered \in BOOLEAN : Reconnect(w, buffered)

\* What websocketOnOpen sends; and if it did so without a password.
OnlyInit(pw)     == InitFrame
OpeningFrame(pw) == IF pw # Empty THEN PasswordFrame(pw) ELSE InitFrame

\* The connection is there: websocketOnOpen.  What had been queued is sent
\* before the password.
WebsocketOnOpen(w) ==
    /\ state[w] = "connecting"
    /\ state' = [state EXCEPT ![w] = "open"]
    /\ connected' = TRUE
    /\ passwordOk' = FALSE
    /\ up' = [up EXCEPT ![w] = @ \o queue[w] \o <<OpeningFrame(password)>>]
    /\ queue' = [queue EXCEPT ![w] = <<>>]
    /\ late' = FALSE
    /\ unsent' = (unsent /\ password = Empty)
    /\ UNCHANGED <<websocket, down, password, passwordProtected, server, bounds, refused>>

\* What is left of passwordOk when a connection closes, and were it kept.
OkAfterCloseKept == passwordOk
OkAfterClose     == FALSE

\* The close of a connection is reported: websocketOnClose.
WebsocketOnClose(w) ==
    /\ state[w] \in {"lost", "closing"}
    /\ state' = [state EXCEPT ![w] = "none"]
    /\ connected' = FALSE
    /\ passwordOk' = OkAfterClose
    /\ late' = (late \/ (w # websocket /\ state[websocket] = "open"))
    /\ queue' = [queue EXCEPT ![w] = <<>>]
    /\ down' = [down EXCEPT ![w] = <<>>]
    /\ UNCHANGED <<websocket, up, password, passwordProtected, server, bounds,
                   refused, unsent>>

\* handlePassword takes a status for a good one; or takes any.
IsAnyStatus(s)  == TRUE
IsGoodStatus(s) == s \in {"password_ok", "password_set"}

\* An answer arrives: handlePassword.  After a good one the init messages of
\* the protocol and of the history follow.
HandlePassword(w) ==
    /\ state[w] \in {"open", "lost"}
    /\ down[w] # <<>>
    /\ down' = [down EXCEPT ![w] = Tail(@)]
    /\ passwordProtected' = TRUE
    /\ passwordOk' = IsGoodStatus(Head(down[w]))
    /\ IF IsGoodStatus(Head(down[w]))
       THEN Send(<<InitFrame, InitFrame>>)
       ELSE UNCHANGED <<up, queue>>
    /\ UNCHANGED <<websocket, state, connected, password, server, bounds, history>>

\* The user types a password, which the dialog shares with the chat at once.
TypePassword(p) ==
    /\ p # password
    /\ enters < MaxEnters
    /\ enters' = enters + 1
    /\ password' = p
    /\ unsent' = TRUE
    /\ UNCHANGED <<websocket, sockets, connected, passwordOk, passwordProtected,
                   server, texts, breaks, late, refused>>

\* The dialog is applied, and not cancelled.
SetPassword ==
    /\ enters < MaxEnters \/ unsent
    /\ enters' = IF unsent THEN enters ELSE enters + 1
    /\ Send(<<PasswordFrame(password)>>)
    /\ unsent' = FALSE
    /\ UNCHANGED <<websocket, state, down, chat, server, texts, breaks, late, refused>>

\* The user sends a text.
Typed ==
    /\ texts < MaxTexts
    /\ texts' = texts + 1
    /\ Send(<<TextFrame>>)
    /\ UNCHANGED <<websocket, state, down, chat, server, enters, breaks, history>>

-----------------------------------------------------------------------------
(***************************************************************************)
(* The server and the network.                                             *)
(***************************************************************************)

\* The server's answer f gets.
Answer(w, f) ==
    CASE f.kind = "password" /\ serverPassword = NoPassword -> <<"password_set">>
      [] f.kind = "password" /\ serverPassword = f.pw       -> <<"password_ok">>
      [] \/ f.kind = "password" /\ serverPassword \notin {NoPassword, f.pw}
         \/ f.kind # "password" /\ serverPassword # NoPassword /\ w \notin registered
            -> <<"password_wrong">>
      [] OTHER -> <<>>

\* The server handles the next frame of w, perhaps one that was on its way when
\* the connection ended; an answer only arrives if it has not.
Handle(w) ==
    /\ up[w] # <<>>
    /\ LET f == Head(up[w])
           wrong == Answer(w, f) = <<"password_wrong">> IN
       /\ registered' = IF wrong THEN registered ELSE registered \cup {w}
       /\ serverPassword' = IF Answer(w, f) = <<"password_set">> THEN f.pw
                                                                 ELSE serverPassword
       /\ down' = IF state[w] = "open" THEN [down EXCEPT ![w] = @ \o Answer(w, f)] ELSE down
       /\ refused' = (refused \/ (wrong /\ f.kind = "text" /\ f.ok))
    /\ up' = [up EXCEPT ![w] = Tail(@)]
    /\ UNCHANGED <<websocket, state, queue, chat, bounds, late, unsent>>

\* Somebody else sets the chat's password.
Protect(p) ==
    /\ serverPassword = NoPassword
    /\ serverPassword' = p
    /\ UNCHANGED <<websocket, sockets, chat, registered, bounds, history>>

\* A connection fails, or is not made; what is on its way may be lost.
Break(w) ==
    /\ state[w] \in {"connecting", "open"}
    /\ breaks < MaxBreaks
    /\ breaks' = breaks + 1
    /\ state' = [state EXCEPT ![w] = "lost"]
    /\ up' \in {up, [up EXCEPT ![w] = <<>>]}
    /\ UNCHANGED <<websocket, queue, down, chat, server, enters, texts, history>>

\* The server is restarted: it has no chats, and no connections.
Restart ==
    /\ breaks < MaxBreaks
    /\ breaks' = breaks + 1
    /\ state' = [w \in Socket |-> IF state[w] \in {"connecting", "open"} THEN "lost"
                                                                         ELSE state[w]]
    /\ up' = [w \in Socket |-> <<>>]
    /\ serverPassword' = NoPassword
    /\ UNCHANGED <<websocket, queue, down, chat, registered, enters, texts, history>>

-----------------------------------------------------------------------------

Next ==
    \/ UpdateSeenPeers \/ SetPassword \/ Typed \/ Restart
    \/ \E p \in Password : TypePassword(p) \/ Protect(p)
    \/ \E w \in Socket : \/ WebsocketOnOpen(w) \/ WebsocketOnClose(w) \/ HandlePassword(w)
                         \/ Handle(w) \/ Break(w)

Spec == Init /\ [][Next]_vars

\* The user stays in the chat, so the interval fires for it; frames and closes
\* arrive, and among many attempts to connect there is one that takes less than
\* the five seconds between two.
Fairness ==
    /\ WF_vars(UpdateSeenPeers)
    /\ SF_vars(\E w \in Socket : WebsocketOnOpen(w))
    /\ \A w \in Socket : /\ WF_vars(WebsocketOnClose(w))
                         /\ WF_vars(HandlePassword(w))
                         /\ WF_vars(Handle(w))

FairSpec == Spec /\ Fairness

-----------------------------------------------------------------------------
(***************************************************************************)
(* Properties.                                                             *)
(***************************************************************************)

\* The icon beside the name of the chat: getChatIconClass.
IconClass ==
    CASE connected /\ passwordOk                        -> "unlock"
      [] connected /\ ~passwordOk /\ passwordProtected  -> "lock"
      [] connected /\ ~passwordOk /\ ~passwordProtected -> "check-circle"
      [] OTHER                                          -> "circle-o-notch"

\* A chat that is shown as connected has an open websocket, or one whose loss is
\* still to be reported; and one that is shown as disconnected has none, unless
\* a replaced websocket was closed late (reconnect, websocketOnOpen,
\* websocketOnClose, getChatIconClass).
StatusIsTrue ==
    /\ IconClass # "circle-o-notch" => state[websocket] \in {"open", "lost"}
    /\ IconClass = "circle-o-notch" /\ ~late => state[websocket] # "open"

\* passwordOk, which history is sent and accepted on, is only set while a
\* session of the page is registered: the one of the websocket, or of one that was
\* left open (handlePassword, websocketOnClose, reconnect).
OkIsRegistered ==
    passwordOk => \E w \in registered : state[w] \in {"open", "lost"}

\* A text typed while passwordOk was shown is not refused, whatever was queued,
\* reconnected or entered meanwhile, unless a websocket was left open.
OkTextsPass == ~refused

\* A chat the user stays in is connected in the end, whatever broke before, and
\* shown as unlocked with the right password, if that is not the empty one and was
\* not only typed, if from some time on replaced websockets are closed, and that
\* before their successors open (the interval, reconnect, websocketOnOpen).
ClosedFirst ==
    \A w \in Socket \ {websocket} :
        state[w] # "none" => state[w] \in {"lost", "closing"} /\ state[websocket] # "open"

ComesBack ==
    <>[]ClosedFirst => <>[](IconClass # "circle-o-notch" /\ state[websocket] = "open")

GetsIn ==
    <>[](ClosedFirst /\ password = serverPassword /\ password # Empty /\ ~unsent)
        => <>[](IconClass = "unlock")
=============================================================================
