-------------------------- MODULE ChatClient_proofs --------------------------
(***************************************************************************)
(* What ChatClient promises of any number of websockets, passwords and     *)
(* failures: its types, that the icon and passwordOk say what is, and that *)
(* a text that was allowed passes.                                         *)
(***************************************************************************)
EXTENDS ChatClient, SequenceTheorems, TLAPS

Held(s) == {s[i] : i \in DOMAIN s}

\* A text that was typed with passwordOk set.
IsAllowed(f) == f.kind = "text" /\ f.ok

\* Only the websocket of the page is ever connecting.
OnlyCurrentConnects == \A w \in Socket \ {websocket} : state[w] # "connecting"

\* A good answer is only on its way to a session that is registered, and none
\* to a websocket that is free to be used again.
GoodAreRegistered ==
    \A w \in Socket :
        /\ state[w] = "none" => down[w] = <<>>
        /\ \A s \in Held(down[w]) : IsGoodStatus(s) => w \in registered

\* An allowed text is on its way only from a registered session, and waits in
\* the queue only of a websocket that never sends it.
AllowedAreRegistered ==
    \A w \in Socket :
        /\ \A f \in Held(up[w]) : IsAllowed(f) => w \in registered
        /\ \A f \in Held(queue[w]) : IsAllowed(f) => state[w] = "lost"

ClientInv == /\ TypeOK
             /\ OnlyCurrentConnects /\ StatusIsTrue
             /\ GoodAreRegistered /\ OkIsRegistered
             /\ AllowedAreRegistered /\ OkTextsPass

-----------------------------------------------------------------------------
(***************************************************************************)
(* Sequences and frames.                                                   *)
(***************************************************************************)

LEMMA HeldConcat ==
    ASSUME NEW S, NEW s \in Seq(S), NEW t \in Seq(S)
    PROVE  s \o t \in Seq(S) /\ Held(s \o t) \subseteq Held(s) \cup Held(t)
<1>1. /\ s \o t \in Seq(S) /\ Len(s \o t) = Len(s) + Len(t)
      /\ \A i \in 1 .. Len(s) + Len(t) :
            (s \o t)[i] = IF i <= Len(s) THEN s[i] ELSE t[i - Len(s)]
  BY ConcatProperties
<1>2. /\ Len(s) \in Nat /\ DOMAIN s = 1 .. Len(s)
      /\ Len(t) \in Nat /\ DOMAIN t = 1 .. Len(t)
      /\ DOMAIN (s \o t) = 1 .. Len(s \o t)
  BY <1>1, LenProperties
<1>3. ASSUME NEW i \in DOMAIN (s \o t) PROVE (s \o t)[i] \in Held(s) \cup Held(t)
  <2>1. CASE i <= Len(s)
    BY <1>1, <1>2, <2>1 DEF Held
  <2>2. CASE i > Len(s)
    <3>1. i - Len(s) \in DOMAIN t /\ (s \o t)[i] = t[i - Len(s)]
      BY <1>1, <1>2, <2>2
    <3> QED BY <3>1 DEF Held
  <2> QED BY <1>1, <1>2, <2>1, <2>2
<1> QED BY <1>1, <1>3 DEF Held

LEMMA HeldTail ==
    ASSUME NEW S, NEW s \in Seq(S), s # <<>>
    PROVE  /\ Head(s) \in S /\ Head(s) \in Held(s)
           /\ Tail(s) \in Seq(S) /\ Held(Tail(s)) \subseteq Held(s)
<1>1. /\ Head(s) \in S /\ Tail(s) \in Seq(S) /\ Len(Tail(s)) = Len(s) - 1
      /\ \A i \in 1 .. Len(Tail(s)) : Tail(s)[i] = s[i+1]
  BY HeadTailProperties
<1>2. /\ Len(s) \in Nat \ {0} /\ DOMAIN s = 1 .. Len(s)
      /\ DOMAIN Tail(s) = 1 .. Len(Tail(s))
  BY <1>1, EmptySeq, LenProperties
<1>3. Head(s) = s[1]
  OBVIOUS
<1>4. \A i \in DOMAIN Tail(s) : i + 1 \in DOMAIN s /\ Tail(s)[i] = s[i+1]
  BY <1>1, <1>2
<1> QED BY <1>1, <1>2, <1>3, <1>4 DEF Held

LEMMA HeldFew ==
    ASSUME NEW S, NEW a \in S, NEW b \in S
    PROVE  /\ <<>> \in Seq(S) /\ Held(<<>>) = {}
           /\ <<a>> \in Seq(S) /\ Held(<<a>>) = {a}
           /\ <<a, b>> \in Seq(S) /\ Held(<<a, b>>) = {a, b}
BY DEF Held

\* Only a text can be allowed, and if it is, the page's own session is registered.
LEMMA FrameFacts ==
    ASSUME ClientInv
    PROVE  /\ InitFrame \in Frame /\ TextFrame \in Frame
           /\ \A p \in Password : PasswordFrame(p) \in Frame
           /\ OpeningFrame(password) \in Frame
           /\ ~IsAllowed(InitFrame) /\ ~IsAllowed(OpeningFrame(password))
           /\ \A p \in Password : ~IsAllowed(PasswordFrame(p))
           /\ IsAllowed(TextFrame) =>
                websocket \in registered /\ state[websocket] \in {"open", "lost"}
<1>1. /\ passwordOk \in BOOLEAN /\ password \in Password
  BY DEF ClientInv, TypeOK
<1>2. LeftOpen \in BOOLEAN
  BY DEF LeftOpen
<1>3. /\ InitFrame \in Frame /\ TextFrame \in Frame
      /\ \A p \in Password : PasswordFrame(p) \in Frame
  BY <1>1, <1>2 DEF Frame, InitFrame, TextFrame, PasswordFrame
<1>4. IsAllowed(TextFrame) => passwordOk /\ ~LeftOpen
  BY DEF IsAllowed, TextFrame
<1>5. IsAllowed(TextFrame) =>
        websocket \in registered /\ state[websocket] \in {"open", "lost"}
  BY <1>4 DEF LeftOpen, ClientInv, OkIsRegistered, TypeOK
<1> QED BY <1>1, <1>3, <1>5 DEF OpeningFrame, IsAllowed, InitFrame, PasswordFrame

\* The icon says "Disconnected" when connected is not set.
LEMMA IconFacts ==
    ASSUME connected \in BOOLEAN, passwordOk \in BOOLEAN, passwordProtected \in BOOLEAN
    PROVE  IconClass = "circle-o-notch" <=> ~connected
BY DEF IconClass

LEMMA StatusFacts ==
    ASSUME TypeOK
    PROVE  StatusIsTrue <=>
             /\ connected => state[websocket] \in {"open", "lost"}
             /\ ~connected /\ ~late => state[websocket] # "open"
BY IconFacts DEF StatusIsTrue, TypeOK

\* Frames that are sent go to the server from an open connection, else to the
\* queue of the page's websocket.
LEMMA SendKeeps ==
    ASSUME ClientInv, NEW fs \in Seq(Frame), Send(fs),
           UNCHANGED <<state, registered>>,
           \A f \in Held(fs) : IsAllowed(f) =>
                websocket \in registered /\ state[websocket] \in {"open", "lost"}
    PROVE  /\ up' \in [Socket -> Seq(Frame)] /\ queue' \in [Socket -> Seq(Frame)]
           /\ AllowedAreRegistered'
<1>0. /\ websocket \in Socket /\ up \in [Socket -> Seq(Frame)]
      /\ queue \in [Socket -> Seq(Frame)]
  BY DEF ClientInv, TypeOK
<1>1. CASE state[websocket] = "open"
  <2>1. up' = [up EXCEPT ![websocket] = @ \o fs] /\ queue' = queue
    BY <1>1 DEF Send
  <2>2. /\ up[websocket] \o fs \in Seq(Frame)
        /\ Held(up[websocket] \o fs) \subseteq Held(up[websocket]) \cup Held(fs)
    BY <1>0, HeldConcat
  <2> QED BY <1>0, <2>1, <2>2 DEF ClientInv, AllowedAreRegistered
<1>2. CASE state[websocket] # "open"
  <2>1. queue' = [queue EXCEPT ![websocket] = @ \o fs] /\ up' = up
    BY <1>2 DEF Send
  <2>2. /\ queue[websocket] \o fs \in Seq(Frame)
        /\ Held(queue[websocket] \o fs) \subseteq Held(queue[websocket]) \cup Held(fs)
    BY <1>0, HeldConcat
  <2> QED BY <1>0, <1>2, <2>1, <2>2 DEF ClientInv, AllowedAreRegistered
<1> QED BY <1>1, <1>2

-----------------------------------------------------------------------------
(***************************************************************************)
(* The steps of the page.                                                  *)
(***************************************************************************)

LEMMA ReconnectKeeps ==
    ASSUME ClientInv, ~connected, NEW w \in Socket, NEW buffered \in BOOLEAN,
           Reconnect(w, buffered)
    PROVE  ClientInv'
<1>1. /\ TypeOK /\ websocket' = w /\ w # websocket /\ state[w] = "none"
      /\ passwordOk' = FALSE /\ registered' = registered \ {w}
      /\ UNCHANGED <<down, connected, late, refused>>
  BY DEF ClientInv, Reconnect, history
<1>2. Closed(state[websocket], buffered) \in State \ {"connecting"}
  BY <1>1 DEF Reconnect, Closed, TypeOK, State
<1>3. /\ state'[w] = "connecting" /\ state'[websocket] \in State \ {"connecting"}
      /\ \A v \in Socket \ {w, websocket} : state'[v] = state[v]
      /\ state'[websocket] = "none" => state[websocket] = "none"
      /\ state' \in [Socket -> State]
  BY <1>1, <1>2 DEF Reconnect, TypeOK, Closed, State
<1>4. /\ up' \in [Socket -> Seq(Frame)] /\ up'[w] = <<>>
      /\ \A v \in Socket \ {w} : up'[v] = up[v]
  BY <1>1, HeldFew DEF Reconnect, TypeOK
<1>5. /\ queue' \in [Socket -> Seq(Frame)] /\ queue'[websocket] = <<>>
      /\ \A v \in Socket \ {websocket} : queue'[v] = queue[v]
  BY <1>1, HeldFew DEF Reconnect, TypeOK
<1>6. TypeOK'
  BY <1>1, <1>3, <1>4, <1>5 DEF Reconnect, TypeOK, bounds, history
<1>7. OnlyCurrentConnects'
  BY <1>1, <1>3 DEF ClientInv, OnlyCurrentConnects, TypeOK
<1>8. (/\ connected => state[websocket] \in {"open", "lost"}
       /\ ~connected /\ ~late => state[websocket] # "open")'
  BY <1>1, <1>3
<1>9. StatusIsTrue'
  <2>1. (StatusIsTrue <=>
             /\ connected => state[websocket] \in {"open", "lost"}
             /\ ~connected /\ ~late => state[websocket] # "open")'
    BY <1>6, StatusFacts, PTL
  <2> QED BY <1>8, <2>1
<1>10. GoodAreRegistered'
  BY <1>1, <1>3 DEF ClientInv, GoodAreRegistered, TypeOK, Held
<1>11. AllowedAreRegistered'
  <2>1. Held(up'[w]) = {} /\ Held(queue'[websocket]) = {}
    BY <1>4, <1>5 DEF Held
  <2> QED BY <1>1, <1>3, <1>4, <1>5, <2>1 DEF ClientInv, AllowedAreRegistered
<1> QED BY <1>1, <1>6, <1>7, <1>9, <1>10, <1>11 DEF ClientInv, OkIsRegistered, OkTextsPass

LEMMA OpenKeeps ==
    ASSUME ClientInv, NEW w \in Socket, WebsocketOnOpen(w)
    PROVE  ClientInv'
<1>1. /\ TypeOK /\ w = websocket /\ state[w] = "connecting" /\ connected' = TRUE
      /\ passwordOk' = FALSE
      /\ UNCHANGED <<websocket, down, registered, refused>>
  BY DEF ClientInv, WebsocketOnOpen, OnlyCurrentConnects, server
<1>2. /\ state' \in [Socket -> State] /\ state'[w] = "open"
      /\ \A v \in Socket \ {w} : state'[v] = state[v]
  BY <1>1 DEF WebsocketOnOpen, TypeOK, State
<1>3. /\ up[w] \o queue[w] \o <<OpeningFrame(password)>> \in Seq(Frame)
      /\ \A f \in Held(up[w] \o queue[w] \o <<OpeningFrame(password)>>) :
            IsAllowed(f) => w \in registered
  <2>1. /\ <<OpeningFrame(password)>> \in Seq(Frame)
        /\ Held(<<OpeningFrame(password)>>) = {OpeningFrame(password)}
    BY FrameFacts, HeldFew
  <2>2. /\ up[w] \o queue[w] \in Seq(Frame)
        /\ Held(up[w] \o queue[w]) \subseteq Held(up[w]) \cup Held(queue[w])
    BY <1>1, HeldConcat DEF TypeOK
  <2>3. /\ up[w] \o queue[w] \o <<OpeningFrame(password)>> \in Seq(Frame)
        /\ Held(up[w] \o queue[w] \o <<OpeningFrame(password)>>)
              \subseteq Held(up[w] \o queue[w]) \cup {OpeningFrame(password)}
    BY <2>1, <2>2, HeldConcat
  <2>4. \A f \in Held(queue[w]) : ~IsAllowed(f)
    BY <1>1 DEF ClientInv, AllowedAreRegistered
  <2> QED BY <2>2, <2>3, <2>4, FrameFacts DEF ClientInv, AllowedAreRegistered
<1>4. /\ up' \in [Socket -> Seq(Frame)]
      /\ up'[w] = up[w] \o queue[w] \o <<OpeningFrame(password)>>
      /\ \A v \in Socket \ {w} : up'[v] = up[v]
  BY <1>1, <1>3 DEF WebsocketOnOpen, TypeOK
<1>5. /\ queue' \in [Socket -> Seq(Frame)] /\ queue'[w] = <<>>
      /\ \A v \in Socket \ {w} : queue'[v] = queue[v]
  BY <1>1, HeldFew DEF WebsocketOnOpen, TypeOK
<1>6. TypeOK'
  BY <1>1, <1>2, <1>4, <1>5 DEF WebsocketOnOpen, TypeOK, server, bounds
<1>7. StatusIsTrue'
  <2>1. (StatusIsTrue <=>
             /\ connected => state[websocket] \in {"open", "lost"}
             /\ ~connected /\ ~late => state[websocket] # "open")'
    BY <1>6, StatusFacts, PTL
  <2> QED BY <1>1, <1>2, <2>1
<1>8. OnlyCurrentConnects' /\ GoodAreRegistered'
  BY <1>1, <1>2 DEF ClientInv, OnlyCurrentConnects, GoodAreRegistered
<1>9. AllowedAreRegistered'
  <2>1. Held(queue'[w]) = {}
    BY <1>5 DEF Held
  <2> QED BY <1>1, <1>2, <1>3, <1>4, <1>5, <2>1 DEF ClientInv, AllowedAreRegistered
<1> QED BY <1>1, <1>6, <1>7, <1>8, <1>9 DEF ClientInv, OkIsRegistered, OkTextsPass

LEMMA CloseKeeps ==
    ASSUME ClientInv, NEW w \in Socket, WebsocketOnClose(w)
    PROVE  ClientInv'
<1>1. /\ TypeOK /\ connected' = FALSE /\ passwordOk' = FALSE
      /\ late' = (late \/ (w # websocket /\ state[websocket] = "open"))
      /\ UNCHANGED <<websocket, up, registered, refused>>
  BY DEF ClientInv, WebsocketOnClose, OkAfterClose, server
<1>2. /\ state' \in [Socket -> State] /\ state'[w] = "none"
      /\ \A v \in Socket \ {w} : state'[v] = state[v]
  BY <1>1 DEF WebsocketOnClose, TypeOK, State
<1>3. /\ queue' \in [Socket -> Seq(Frame)] /\ queue'[w] = <<>>
      /\ down' \in [Socket -> Seq(Status)] /\ down'[w] = <<>>
      /\ \A v \in Socket \ {w} : queue'[v] = queue[v] /\ down'[v] = down[v]
  BY <1>1, HeldFew DEF WebsocketOnClose, TypeOK
<1>4. Held(queue'[w]) = {} /\ Held(down'[w]) = {}
  BY <1>3 DEF Held
<1>5. TypeOK'
  BY <1>1, <1>2, <1>3 DEF WebsocketOnClose, TypeOK, server, bounds
<1>6. StatusIsTrue'
  <2>1. (StatusIsTrue <=>
             /\ connected => state[websocket] \in {"open", "lost"}
             /\ ~connected /\ ~late => state[websocket] # "open")'
    BY <1>5, StatusFacts, PTL
  <2>2. ~late' => state'[websocket] # "open"
    BY <1>1, <1>2 DEF TypeOK
  <2> QED BY <1>1, <2>1, <2>2
<1>7. OnlyCurrentConnects'
  BY <1>1, <1>2 DEF ClientInv, OnlyCurrentConnects
<1>8. GoodAreRegistered'
  BY <1>1, <1>2, <1>3, <1>4 DEF ClientInv, GoodAreRegistered
<1>9. AllowedAreRegistered'
  BY <1>1, <1>2, <1>3, <1>4 DEF ClientInv, AllowedAreRegistered
<1> QED BY <1>1, <1>5, <1>6, <1>7, <1>8, <1>9 DEF ClientInv, OkIsRegistered, OkTextsPass

LEMMA HandlePasswordKeeps ==
    ASSUME ClientInv, NEW w \in Socket, HandlePassword(w)
    PROVE  ClientInv'
<1>1. /\ TypeOK /\ state[w] \in {"open", "lost"} /\ passwordProtected' = TRUE
      /\ passwordOk' = IsGoodStatus(Head(down[w]))
      /\ UNCHANGED <<websocket, state, connected, password, serverPassword, registered,
                     enters, texts, breaks, late, refused, unsent>>
  BY DEF ClientInv, HandlePassword, server, bounds, history
<1>2. /\ Head(down[w]) \in Held(down[w])
      /\ Tail(down[w]) \in Seq(Status) /\ Held(Tail(down[w])) \subseteq Held(down[w])
  BY <1>1, HeldTail DEF HandlePassword, TypeOK
<1>3. /\ down' \in [Socket -> Seq(Status)] /\ down'[w] = Tail(down[w])
      /\ \A v \in Socket \ {w} : down'[v] = down[v]
  BY <1>1, <1>2 DEF HandlePassword, TypeOK
<1>4. /\ up' \in [Socket -> Seq(Frame)] /\ queue' \in [Socket -> Seq(Frame)]
      /\ AllowedAreRegistered'
  <2>1. CASE IsGoodStatus(Head(down[w]))
    <3>1. Send(<<InitFrame, InitFrame>>)
      BY <2>1 DEF HandlePassword
    <3>2. InitFrame \in Frame /\ ~IsAllowed(InitFrame)
      BY FrameFacts
    <3>3. /\ <<InitFrame, InitFrame>> \in Seq(Frame)
          /\ Held(<<InitFrame, InitFrame>>) = {InitFrame, InitFrame}
      BY <3>2, HeldFew
    <3> QED BY <1>1, <3>1, <3>2, <3>3, SendKeeps
  <2>2. CASE ~IsGoodStatus(Head(down[w]))
    <3>1. UNCHANGED <<up, queue>>
      BY <2>2 DEF HandlePassword
    <3> QED BY <1>1, <3>1 DEF ClientInv, AllowedAreRegistered, TypeOK
  <2> QED BY <2>1, <2>2
<1>5. passwordOk' \in BOOLEAN
  BY <1>1 DEF IsGoodStatus
<1>6. TypeOK'
  BY <1>1, <1>3, <1>4, <1>5 DEF TypeOK
<1>7. OnlyCurrentConnects'
  BY <1>1 DEF ClientInv, OnlyCurrentConnects
<1>8. StatusIsTrue'
  <2>1. (StatusIsTrue <=>
             /\ connected => state[websocket] \in {"open", "lost"}
             /\ ~connected /\ ~late => state[websocket] # "open")'
    BY <1>6, StatusFacts, PTL
  <2> QED BY <1>1, <2>1, StatusFacts DEF ClientInv
<1>9. GoodAreRegistered'
  BY <1>1, <1>2, <1>3 DEF ClientInv, GoodAreRegistered
<1>10. OkIsRegistered'
  BY <1>1, <1>2 DEF ClientInv, GoodAreRegistered, OkIsRegistered
<1> QED BY <1>1, <1>4, <1>6, <1>7, <1>8, <1>9, <1>10 DEF ClientInv, OkTextsPass

\* A step that sends, or not, and leaves the websockets and the answers alone.
LEMMA QuietKeeps ==
    ASSUME ClientInv, TypeOK', AllowedAreRegistered',
           UNCHANGED <<websocket, state, down, connected, passwordOk, passwordProtected,
                       registered, late, refused>>
    PROVE  ClientInv'
<1>1. StatusIsTrue'
  <2>1. (StatusIsTrue <=>
             /\ connected => state[websocket] \in {"open", "lost"}
             /\ ~connected /\ ~late => state[websocket] # "open")'
    BY StatusFacts, PTL
  <2> QED BY <2>1, StatusFacts DEF ClientInv
<1> QED BY <1>1 DEF ClientInv, OnlyCurrentConnects, GoodAreRegistered, OkIsRegistered,
                    OkTextsPass

LEMMA TypePasswordKeeps ==
    ASSUME ClientInv, NEW p \in Password, TypePassword(p)
    PROVE  ClientInv'
<1>1. TypeOK'
  BY BoundsType DEF ClientInv, TypePassword, TypeOK, sockets, server
<1>2. AllowedAreRegistered'
  BY DEF ClientInv, TypePassword, AllowedAreRegistered, sockets, server
<1> QED BY <1>1, <1>2, QuietKeeps DEF TypePassword, sockets, server

LEMMA SetPasswordKeeps ==
    ASSUME ClientInv, SetPassword
    PROVE  ClientInv'
<1>0. PasswordFrame(password) \in Frame /\ ~IsAllowed(PasswordFrame(password))
  BY FrameFacts DEF ClientInv, TypeOK
<1>1. /\ <<PasswordFrame(password)>> \in Seq(Frame)
      /\ Held(<<PasswordFrame(password)>>) = {PasswordFrame(password)}
  BY <1>0, HeldFew
<1>2. /\ up' \in [Socket -> Seq(Frame)] /\ queue' \in [Socket -> Seq(Frame)]
      /\ AllowedAreRegistered'
  BY <1>0, <1>1, SendKeeps DEF SetPassword, server
<1>3. enters' \in 0..MaxEnters
  BY BoundsType DEF ClientInv, SetPassword, TypeOK
<1>4. TypeOK'
  BY <1>2, <1>3 DEF ClientInv, SetPassword, TypeOK, chat, server
<1> QED BY <1>2, <1>4, QuietKeeps DEF SetPassword, chat, server

LEMMA TypedKeeps ==
    ASSUME ClientInv, Typed
    PROVE  ClientInv'
<1>1. /\ <<TextFrame>> \in Seq(Frame)
      /\ Held(<<TextFrame>>) = {TextFrame}
  BY FrameFacts, HeldFew
<1>2. /\ up' \in [Socket -> Seq(Frame)] /\ queue' \in [Socket -> Seq(Frame)]
      /\ AllowedAreRegistered'
  BY <1>1, FrameFacts, SendKeeps DEF Typed, server
<1>3. texts' \in 0..MaxTexts
  BY BoundsType DEF ClientInv, Typed, TypeOK
<1>4. TypeOK'
  BY <1>2, <1>3 DEF ClientInv, Typed, TypeOK, chat, server, history
<1> QED BY <1>2, <1>4, QuietKeeps DEF Typed, chat, server, history

-----------------------------------------------------------------------------
(***************************************************************************)
(* The steps of the server and the network.                                *)
(***************************************************************************)

LEMMA AnswerFacts ==
    ASSUME NEW w \in Socket, NEW f \in Frame
    PROVE  /\ Answer(w, f) \in Seq(Status)
           /\ Answer(w, f) = <<"password_set">> => f.kind = "password"
           /\ \A s \in Held(Answer(w, f)) :
                IsGoodStatus(s) => Answer(w, f) # <<"password_wrong">>
           /\ Answer(w, f) = <<"password_wrong">> /\ f.kind = "text" => w \notin registered
<1>1. CASE Answer(w, f) = <<"password_set">> /\ f.kind = "password"
  BY <1>1 DEF Status, Held
<1>2. CASE Answer(w, f) = <<"password_ok">>
  BY <1>2 DEF Status, Held
<1>3. CASE Answer(w, f) = <<"password_wrong">> /\ (f.kind = "text" => w \notin registered)
  BY <1>3 DEF Status, Held, IsGoodStatus
<1>4. CASE Answer(w, f) = <<>>
  BY <1>4 DEF Status, Held
<1>5. \/ Answer(w, f) = <<"password_set">> /\ f.kind = "password"
      \/ Answer(w, f) = <<"password_ok">>
      \/ Answer(w, f) = <<"password_wrong">> /\ (f.kind = "text" => w \notin registered)
      \/ Answer(w, f) = <<>>
  BY DEF Answer
<1> QED BY <1>1, <1>2, <1>3, <1>4, <1>5

LEMMA HandleKeeps ==
    ASSUME ClientInv, NEW w \in Socket, Handle(w)
    PROVE  ClientInv'
<1> DEFINE f == Head(up[w])
           wrong == Answer(w, f) = <<"password_wrong">>
<1>1. /\ TypeOK
      /\ UNCHANGED <<websocket, state, queue, connected, password, passwordOk,
                     passwordProtected, enters, texts, breaks, late, unsent>>
  BY DEF ClientInv, Handle, chat, bounds
<1>2. /\ registered' = IF wrong THEN registered ELSE registered \cup {w}
      /\ serverPassword' = IF Answer(w, f) = <<"password_set">> THEN f.pw
                                                                ELSE serverPassword
      /\ down' = IF state[w] = "open" THEN [down EXCEPT ![w] = @ \o Answer(w, f)] ELSE down
      /\ refused' = (refused \/ (wrong /\ f.kind = "text" /\ f.ok))
      /\ up' = [up EXCEPT ![w] = Tail(@)]
      /\ up[w] # <<>>
  BY DEF Handle
<1>3. /\ f \in Frame /\ f \in Held(up[w])
      /\ Tail(up[w]) \in Seq(Frame) /\ Held(Tail(up[w])) \subseteq Held(up[w])
  BY <1>1, <1>2, HeldTail DEF TypeOK
<1>4. /\ Answer(w, f) \in Seq(Status)
      /\ Answer(w, f) = <<"password_set">> => f.kind = "password"
      /\ \A s \in Held(Answer(w, f)) : IsGoodStatus(s) => ~wrong
      /\ wrong /\ f.kind = "text" => w \notin registered
  BY <1>3, AnswerFacts
<1> HIDE DEF f
<1>5. registered \subseteq registered' /\ registered' \subseteq Socket
      /\ (~wrong => w \in registered')
  BY <1>1, <1>2 DEF TypeOK
<1>6. serverPassword' \in Password \cup {NoPassword}
  <2>1. f.kind = "password" => f.pw \in Password
    BY <1>3 DEF Frame, InitFrame
  <2> QED BY <1>1, <1>2, <1>4, <2>1 DEF TypeOK
<1>7. /\ down' \in [Socket -> Seq(Status)]
      /\ \A v \in Socket \ {w} : down'[v] = down[v]
      /\ Held(down'[w]) \subseteq Held(down[w]) \cup Held(Answer(w, f))
      /\ state[w] # "open" => down'[w] = down[w]
  <2>1. /\ down[w] \o Answer(w, f) \in Seq(Status)
        /\ Held(down[w] \o Answer(w, f)) \subseteq Held(down[w]) \cup Held(Answer(w, f))
    BY <1>1, <1>4, HeldConcat DEF TypeOK
  <2>2. down \in [Socket -> Seq(Status)]
    BY <1>1 DEF TypeOK
  <2> QED BY <1>2, <2>1, <2>2
<1>8. /\ up' \in [Socket -> Seq(Frame)] /\ up'[w] = Tail(up[w])
      /\ \A v \in Socket \ {w} : up'[v] = up[v]
  BY <1>1, <1>2, <1>3 DEF TypeOK
<1>9. ~refused' /\ refused' \in BOOLEAN
  BY <1>2, <1>3, <1>4 DEF ClientInv, OkTextsPass, AllowedAreRegistered, IsAllowed
<1>10. TypeOK'
  <2>1. {connected', passwordOk', passwordProtected', late', refused', unsent'}
            \subseteq BOOLEAN
    BY <1>1, <1>9 DEF TypeOK
  <2>2. queue' \in [Socket -> Seq(Frame)] /\ state' \in [Socket -> State]
    BY <1>1 DEF TypeOK
  <2> QED BY <1>1, <1>5, <1>6, <1>7, <1>8, <2>1, <2>2 DEF TypeOK
<1>11. OnlyCurrentConnects'
  BY <1>1 DEF ClientInv, OnlyCurrentConnects
<1>12. StatusIsTrue'
  <2>1. (StatusIsTrue <=>
             /\ connected => state[websocket] \in {"open", "lost"}
             /\ ~connected /\ ~late => state[websocket] # "open")'
    BY <1>10, StatusFacts, PTL
  <2> QED BY <1>1, <2>1, StatusFacts DEF ClientInv
<1>13. GoodAreRegistered'
  <2> SUFFICES ASSUME NEW v \in Socket
               PROVE  /\ state'[v] = "none" => down'[v] = <<>>
                      /\ \A s \in Held(down'[v]) : IsGoodStatus(s) => v \in registered'
    BY DEF GoodAreRegistered
  <2>1. CASE v = w
    BY <1>1, <1>4, <1>5, <1>7, <2>1 DEF ClientInv, GoodAreRegistered
  <2>2. CASE v # w
    BY <1>1, <1>5, <1>7, <2>2 DEF ClientInv, GoodAreRegistered
  <2> QED BY <2>1, <2>2
<1>14. OkIsRegistered'
  BY <1>1, <1>5 DEF ClientInv, OkIsRegistered
<1>15. AllowedAreRegistered'
  BY <1>1, <1>3, <1>5, <1>8 DEF ClientInv, AllowedAreRegistered
<1> QED BY <1>9, <1>10, <1>11, <1>12, <1>13, <1>14, <1>15 DEF ClientInv, OkTextsPass

LEMMA ProtectKeeps ==
    ASSUME ClientInv, NEW p \in Password, Protect(p)
    PROVE  ClientInv'
<1>1. TypeOK'
  BY DEF ClientInv, Protect, TypeOK, sockets, chat, bounds, history
<1>2. AllowedAreRegistered'
  BY DEF ClientInv, Protect, AllowedAreRegistered, sockets
<1> QED BY <1>1, <1>2, QuietKeeps DEF Protect, sockets, chat, history

\* Connections are lost, and with them perhaps what was on its way to the server.
LEMMA LossKeeps ==
    ASSUME ClientInv, TypeOK',
           \A v \in Socket :
              /\ \/ state'[v] = state[v]
                 \/ state[v] \in {"connecting", "open"} /\ state'[v] = "lost"
              /\ up'[v] = up[v] \/ up'[v] = <<>>,
           UNCHANGED <<websocket, queue, down, connected, passwordOk, passwordProtected,
                       registered, late, refused>>
    PROVE  ClientInv'
<1>1. StatusIsTrue'
  <2>1. (StatusIsTrue <=>
             /\ connected => state[websocket] \in {"open", "lost"}
             /\ ~connected /\ ~late => state[websocket] # "open")'
    BY StatusFacts, PTL
  <2>2. websocket \in Socket
    BY DEF ClientInv, TypeOK
  <2> QED BY <2>1, <2>2, StatusFacts DEF ClientInv
<1>2. OnlyCurrentConnects' /\ GoodAreRegistered'
  BY DEF ClientInv, OnlyCurrentConnects, GoodAreRegistered
<1>3. OkIsRegistered'
  <2>1. registered \subseteq Socket
    BY DEF ClientInv, TypeOK
  <2> QED BY <2>1 DEF ClientInv, OkIsRegistered
<1>4. AllowedAreRegistered'
  <2>1. Held(<<>>) = {}
    BY DEF Held
  <2> QED BY <2>1 DEF ClientInv, AllowedAreRegistered
<1> QED BY <1>1, <1>2, <1>3, <1>4 DEF ClientInv, OkTextsPass

LEMMA BreakKeeps ==
    ASSUME ClientInv, NEW w \in Socket, Break(w)
    PROVE  ClientInv'
<1>1. TypeOK /\ breaks' \in 0..MaxBreaks
  BY BoundsType DEF ClientInv, Break, TypeOK
<1>2. /\ state' \in [Socket -> State]
      /\ \A v \in Socket : \/ state'[v] = state[v]
                           \/ state[v] \in {"connecting", "open"} /\ state'[v] = "lost"
  BY <1>1 DEF Break, TypeOK, State
<1>3. up' \in [Socket -> Seq(Frame)] /\ \A v \in Socket : up'[v] = up[v] \/ up'[v] = <<>>
  <2>1. up \in [Socket -> Seq(Frame)] /\ <<>> \in Seq(Frame)
    BY <1>1 DEF TypeOK
  <2>2. CASE up' = up
    BY <2>1, <2>2
  <2>3. CASE up' = [up EXCEPT ![w] = <<>>]
    BY <2>1, <2>3
  <2> QED BY <2>2, <2>3 DEF Break
<1>4. TypeOK'
  BY <1>1, <1>2, <1>3 DEF Break, TypeOK, chat, server, history
<1> QED BY <1>2, <1>3, <1>4, LossKeeps DEF Break, chat, server, history

LEMMA RestartKeeps ==
    ASSUME ClientInv, Restart
    PROVE  ClientInv'
<1>1. TypeOK /\ breaks' \in 0..MaxBreaks
  BY BoundsType DEF ClientInv, Restart, TypeOK
<1>2. /\ state' \in [Socket -> State]
      /\ \A v \in Socket : \/ state'[v] = state[v]
                           \/ state[v] \in {"connecting", "open"} /\ state'[v] = "lost"
  BY <1>1 DEF Restart, TypeOK, State
<1>3. up' \in [Socket -> Seq(Frame)] /\ \A v \in Socket : up'[v] = <<>>
  BY HeldFew DEF Restart
<1>4. TypeOK'
  BY <1>1, <1>2, <1>3 DEF Restart, TypeOK, chat, history
<1> QED BY <1>2, <1>3, <1>4, LossKeeps DEF Restart, chat, history

-----------------------------------------------------------------------------
(***************************************************************************)
(* The invariant, and what follows from it.                                *)
(***************************************************************************)

LEMMA ClientInvInit == Init => ClientInv
<1> SUFFICES ASSUME Init PROVE ClientInv
  OBVIOUS
<1>1. TypeOK
  <2>1. state \in [Socket -> State] /\ websocket \in Socket
    BY FirstIsOne DEF Init, State
  <2>2. <<>> \in Seq(Frame) /\ <<>> \in Seq(Status)
    OBVIOUS
  <2>3. /\ queue \in [Socket -> Seq(Frame)] /\ up \in [Socket -> Seq(Frame)]
        /\ down \in [Socket -> Seq(Status)]
    BY <2>2 DEF Init
  <2>4. enters \in 0..MaxEnters /\ texts \in 0..MaxTexts /\ breaks \in 0..MaxBreaks
    BY BoundsType DEF Init
  <2> QED BY <2>1, <2>3, <2>4 DEF Init, TypeOK
<1>2. StatusIsTrue
  BY <1>1, FirstIsOne, StatusFacts DEF Init
<1>3. OnlyCurrentConnects /\ OkIsRegistered /\ OkTextsPass
  BY DEF Init, OnlyCurrentConnects, OkIsRegistered, OkTextsPass
<1>4. Held(<<>>) = {}
  BY DEF Held
<1>5. GoodAreRegistered /\ AllowedAreRegistered
  BY <1>4 DEF Init, GoodAreRegistered, AllowedAreRegistered
<1> QED BY <1>1, <1>2, <1>3, <1>5 DEF ClientInv

LEMMA ClientInvNext == ClientInv /\ [Next]_vars => ClientInv'
<1> SUFFICES ASSUME ClientInv, [Next]_vars PROVE ClientInv'
  OBVIOUS
<1>1. CASE UpdateSeenPeers
  BY <1>1, ReconnectKeeps DEF UpdateSeenPeers, Reconnects
<1>2. CASE SetPassword
  BY <1>2, SetPasswordKeeps
<1>3. CASE Typed
  BY <1>3, TypedKeeps
<1>4. CASE Restart
  BY <1>4, RestartKeeps
<1>5. ASSUME NEW p \in Password, TypePassword(p) \/ Protect(p) PROVE ClientInv'
  BY <1>5, TypePasswordKeeps, ProtectKeeps
<1>6. ASSUME NEW w \in Socket,
             \/ WebsocketOnOpen(w) \/ WebsocketOnClose(w) \/ HandlePassword(w)
             \/ Handle(w) \/ Break(w)
      PROVE  ClientInv'
  BY <1>6, OpenKeeps, CloseKeeps, HandlePasswordKeeps, HandleKeeps, BreakKeeps
<1>7. CASE UNCHANGED vars
  <2>1. TypeOK'
    BY <1>7 DEF ClientInv, TypeOK, vars, sockets, chat, server, bounds, history
  <2>2. AllowedAreRegistered'
    BY <1>7 DEF ClientInv, AllowedAreRegistered, vars, sockets, server
  <2> QED BY <1>7, <2>1, <2>2, QuietKeeps DEF vars, sockets, chat, server, history
<1> QED BY <1>1, <1>2, <1>3, <1>4, <1>5, <1>6, <1>7 DEF Next

LEMMA ClientInvAlways == Spec => []ClientInv
BY ClientInvInit, ClientInvNext, PTL DEF Spec

\* Whatever is typed, sent, answered and broken, the state of the client and of
\* its connections has its types (protocol.js, password.js).
THEOREM ClientTypeCorrect == Spec => []TypeOK
<1>1. ClientInv => TypeOK
  BY DEF ClientInv
<1> QED BY <1>1, ClientInvAlways, PTL

\* The icon tells the state of the connection, whatever closes and answers are
\* late (reconnect, websocketOnOpen, websocketOnClose, getChatIconClass).
THEOREM StatusAlwaysTrue == Spec => []StatusIsTrue
<1>1. ClientInv => StatusIsTrue
  BY DEF ClientInv
<1> QED BY <1>1, ClientInvAlways, PTL

\* passwordOk is never left set by an answer to a session that is gone
\* (handlePassword, websocketOnClose, reconnect).
THEOREM OkAlwaysRegistered == Spec => []OkIsRegistered
<1>1. ClientInv => OkIsRegistered
  BY DEF ClientInv
<1> QED BY <1>1, ClientInvAlways, PTL

\* A text typed while passwordOk was shown is never refused, however many
\* websockets, passwords and failures there are (websocketOnOpen's order).
THEOREM OkTextsAlwaysPass == Spec => []OkTextsPass
<1>1. ClientInv => OkTextsPass
  BY DEF ClientInv
<1> QED BY <1>1, ClientInvAlways, PTL
=============================================================================
