---------------------------- MODULE ChatListener ----------------------------
(***************************************************************************)
(* One chat of the server: chat.parq.server.ChatListener together with its *)
(* PasswordHandler.  The library runs the callbacks of one session one     *)
(* after the other and those of different sessions on different threads,   *)
(* and nothing in the two classes is locked, so each callback is the       *)
(* sequence of its accesses to the shared state, one action per access:    *)
(* pc[c] says where the callback of c's session is.                        *)
(*                                                                         *)
(* channelMap and errorCount are plain HashMaps.  What two operations on   *)
(* one of them do when they overlap is undefined; here it is any of the    *)
(* outcomes java.util.HashMap can produce without looping: an entry lost,  *)
(* an entry kept, a lookup that misses.  `damaged' remembers that it       *)
(* happened.                                                               *)
(***************************************************************************)
EXTENDS Naturals, FiniteSets

CONSTANTS Channel,     \* the FrameChannels of this chat's sessions
          Password,    \* the hashed passwords the clients send
          NoPassword,  \* null
          HashCode,    \* Object.hashCode() of each channel
          Kinds,       \* bound: the kinds of text the clients send
          MaxFrames    \* bound: frames received in all

ASSUME NoPasswordIsNull == NoPassword \notin Password
ASSUME HashCodeType     == HashCode \in [Channel -> Nat]
ASSUME KindsType        == Kinds \subseteq {"password", "text", "blank", "odd"}
ASSUME MaxFramesType    == MaxFrames \in Nat

VARIABLES
    password,    \* PasswordHandler.password
    channels,    \* ChatListener.channels, the skip list
    channelMap,  \* the keys of ChatListener.channelMap
    errorCount,  \* ChatListener.errorCount, 0 where there is no entry
    conn,        \* the library's connection of each channel
    pc,          \* where the callback running for each session is
    frame,       \* the frame that callback handles
    id,          \* the frame's number, in the order of arrival
    answer,      \* the status the password handler is about to send
    todo,        \* channels the relay has still to come to
    torn,        \* sessions whose map operation overlapped another
    damaged,     \* a HashMap has misbehaved
    clock,       \* frames received
    cleared,     \* history: sessions that saw no password or gave it
    delivered,   \* history: delivered[c][d] is the last frame of c sent to d
    holder,      \* history: the password each client was told is right
    due          \* history: channels that c's relay found listed when it
                 \* started and that no send to has failed since

shared   == <<password, channels, channelMap, errorCount>>
callback == <<pc, frame, id, answer, todo>>
history  == <<cleared, delivered, holder, due>>
vars     == <<shared, conn, callback, torn, damaged, clock, history>>

EjectAfter == 3
\* errorCount only matters up to EjectAfter and is not counted further.

Handling == {"set", "compare", "contains", "list", "put", "gate",
             "relayStart", "relay", "reply", "throw"}
Closing  == {"remove", "unlist"}

NoFrame == [kind |-> "none", pw |-> NoPassword]

\* A text frame falls in one of four kinds: extractPassword finds a password
\* in it, it is null or empty, it makes extractPassword throw (the three
\* words are in it and it is no flat JSON object), or it is anything else.
Frame ==
    {f \in [kind : Kinds, pw : Password \cup {NoPassword}] :
        f.kind = "password" <=> f.pw # NoPassword}

TypeOK ==
    /\ password \in Password \cup {NoPassword}
    /\ channels \subseteq Channel
    /\ channelMap \subseteq Channel
    /\ errorCount \in [Channel -> 0..EjectAfter]
    /\ conn \in [Channel -> {"new", "open", "broken", "closed"}]
    /\ pc \in [Channel -> {"idle"} \cup Handling \cup Closing]
    /\ frame \in [Channel -> Frame \cup {NoFrame}]
    /\ id \in [Channel -> 0..MaxFrames]
    /\ answer \in [Channel -> {"none", "set", "ok", "wrong"}]
    /\ todo \in [Channel -> SUBSET Channel]
    /\ torn \subseteq Channel
    /\ damaged \in BOOLEAN
    /\ clock \in 0..MaxFrames
    /\ cleared \subseteq Channel
    /\ delivered \in [Channel -> [Channel -> 0..MaxFrames]]
    /\ holder \in [Channel -> Password \cup {NoPassword}]
    /\ due \in [Channel -> SUBSET Channel]

Init ==
    /\ password = NoPassword
    /\ channels = {}
    /\ channelMap = {}
    /\ errorCount = [c \in Channel |-> 0]
    /\ conn = [c \in Channel |-> "new"]
    /\ pc = [c \in Channel |-> "idle"]
    /\ frame = [c \in Channel |-> NoFrame]
    /\ id = [c \in Channel |-> 0]
    /\ answer = [c \in Channel |-> "none"]
    /\ todo = [c \in Channel |-> {}]
    /\ torn = {}
    /\ damaged = FALSE
    /\ clock = 0
    /\ cleared = {}
    /\ delivered = [c \in Channel |-> [d \in Channel |-> 0]]
    /\ holder = [c \in Channel |-> NoPassword]
    /\ due = [c \in Channel |-> {}]

-----------------------------------------------------------------------------
(***************************************************************************)
(* The HashMaps.                                                           *)
(***************************************************************************)

\* What channelMap.containsKey(c) can answer: while another thread is in put
\* the table may have been resized and not yet filled.
Lookup(c) ==
    {c \in channelMap} \cup
        {FALSE : e \in {x \in Channel \ {c} : pc[x] = "put"}}

\* Threads changing channelMap; the remove of an absent key changes nothing.
MapWriters ==
    {e \in Channel : pc[e] = "put" \/ (pc[e] = "remove" /\ e \in channelMap)}

\* c begins a put or a remove that changes the map.
BeginWrite(c) ==
    torn' = IF MapWriters = {} THEN torn ELSE torn \cup MapWriters \cup {c}

\* What channelMap can be once c's operation, meant to leave `clean', is over.
WriteOutcomes(c, clean) == IF c \in torn THEN SUBSET (channelMap \cup clean)
                                         ELSE {clean}

\* Another thread may be in countError at the same time: another session's,
\* or another of the parallel stream that relays c's frame.
Contended(c) ==
    \/ \E e \in Channel \ {c} : pc[e] \in {"relay", "reply", "throw"}
    \/ Cardinality(todo[c]) > 1

Increment(n) == IF n = EjectAfter THEN n ELSE n + 1

\* What errorCount holds for d after the merge done by c's thread, and what
\* the get that follows it returns (0 is null).
ErrorOutcomes(c, d) ==
    LET n == Increment(errorCount[d]) IN
    IF Contended(c)
    THEN {o \in {0, errorCount[d], n} \X (0..EjectAfter) : o[2] \in {0, o[1]}}
    ELSE {<<n, n>>}

-----------------------------------------------------------------------------
(***************************************************************************)
(* The pieces handlers share.                                              *)
(***************************************************************************)

\* The callback of c's session returns.
Return(c) ==
    /\ pc' = [pc EXCEPT ![c] = "idle"]
    /\ frame' = [frame EXCEPT ![c] = NoFrame]
    /\ id' = [id EXCEPT ![c] = 0]
    /\ answer' = [answer EXCEPT ![c] = "none"]
    /\ todo' = [todo EXCEPT ![c] = {}]

\* The callback of c's session goes on at label l.
Goto(c, l) ==
    /\ pc' = [pc EXCEPT ![c] = l]
    /\ UNCHANGED <<frame, id>>

\* The check after the get; with > an error more would be borne.
EjectsLate(n) == n > EjectAfter
Ejects(n)     == n >= EjectAfter

\* channel.close() of d
CloseIf(d, wanted) ==
    conn' = [conn EXCEPT ![d] = IF wanted /\ @ = "open" THEN "broken" ELSE @]

\* countError(d) with outcome o in c's thread; the third error closes d,
\* and so may the library.
CountError(c, d, o, closes) ==
    /\ o \in ErrorOutcomes(c, d)
    /\ errorCount' = [errorCount EXCEPT ![d] = o[1]]
    /\ CloseIf(d, closes \/ Ejects(o[2]))
    /\ damaged' = (damaged \/ o # <<Increment(errorCount[d]), Increment(errorCount[d])>>)

\* addChannel has returned: a password is answered, other text is relayed.
AfterAdd(c) == IF frame[c].kind = "password" THEN "reply" ELSE "relayStart"

-----------------------------------------------------------------------------
(***************************************************************************)
(* The library's side: connections come, break and close.                  *)
(***************************************************************************)

Connect(c) ==
    /\ conn[c] = "new"
    /\ conn' = [conn EXCEPT ![c] = "open"]
    /\ UNCHANGED <<shared, callback, torn, damaged, clock, history>>

\* The peer is gone: from now on sends to c raise an IOException.
Break(c) ==
    /\ conn[c] = "open"
    /\ conn' = [conn EXCEPT ![c] = "broken"]
    /\ UNCHANGED <<shared, callback, torn, damaged, clock, history>>

\* The library reports an error of c's session.
OnError(c) ==
    /\ pc[c] = "idle"
    /\ conn[c] = "open"
    /\ Goto(c, "throw")
    /\ UNCHANGED <<shared, conn, answer, todo, torn, damaged, clock, history>>

-----------------------------------------------------------------------------
(***************************************************************************)
(* onFrame.                                                                *)
(***************************************************************************)

\* handle's test of password for a frame that brings one.
PasswordBranch == IF password = NoPassword THEN "set" ELSE "compare"

\* A frame of c is read (one that was buffered when the connection broke too)
\* and the password handler makes its first read of password.
OnFrame(c, f) ==
    /\ pc[c] = "idle"
    /\ conn[c] \in {"open", "broken"}
    /\ clock < MaxFrames
    /\ clock' = clock + 1
    /\ frame' = [frame EXCEPT ![c] = f]
    /\ id' = [id EXCEPT ![c] = clock + 1]
    /\ pc' = [pc EXCEPT ![c] =
                 CASE f.kind = "odd" -> "throw"
                   [] f.kind = "password" -> PasswordBranch
                   [] OTHER ->
                        IF password = NoPassword THEN "contains" ELSE "gate"]
    /\ cleared' = IF f.kind # "odd" /\ password = NoPassword
                  THEN cleared \cup {c} ELSE cleared
    /\ UNCHANGED <<shared, conn, answer, todo, torn, damaged, delivered, holder, due>>

\* What extractPassword returns: map.get(PWHASHED), not map.get(TYPE).
SentType(c) == frame[c].kind
SentPw(c)   == frame[c].pw

\* password = sentPw, without a second look at password.
SetPassword(c) ==
    /\ pc[c] = "set"
    /\ password' = SentPw(c)
    /\ answer' = [answer EXCEPT ![c] = "set"]
    /\ Goto(c, "contains")
    /\ UNCHANGED <<channels, channelMap, errorCount, conn, todo, torn, damaged,
                   clock, history>>

\* password.equals(sentPw)
Compare(c) ==
    /\ pc[c] = "compare"
    /\ IF password = SentPw(c)
       THEN /\ Goto(c, "contains")
            /\ answer' = [answer EXCEPT ![c] = "ok"]
            /\ cleared' = cleared \cup {c}
       ELSE /\ Goto(c, "reply")
            /\ answer' = [answer EXCEPT ![c] = "wrong"]
            /\ UNCHANGED cleared
    /\ UNCHANGED <<shared, conn, todo, torn, damaged, clock, delivered, holder,
                   due>>

\* Text is relayed only for a registered session; without hasChannel, always.
AfterGateOpen(found) == "relayStart"
AfterGate(found)     == IF found THEN "relayStart" ELSE "reply"

\* hasChannel: text of a session that is not registered is refused.
Gate(c) ==
    /\ pc[c] = "gate"
    /\ \E found \in Lookup(c) :
          /\ Goto(c, AfterGate(found))
          /\ answer' = [answer EXCEPT ![c] = IF found THEN @ ELSE "wrong"]
          /\ damaged' = (damaged \/ found # (c \in channelMap))
    /\ UNCHANGED <<shared, conn, todo, torn, clock, history>>

\* addChannel, first half: containsKey.
AddContains(c) ==
    /\ pc[c] = "contains"
    /\ \E found \in Lookup(c) :
          /\ Goto(c, IF found THEN AfterAdd(c) ELSE "list")
          /\ damaged' = (damaged \/ found # (c \in channelMap))
    /\ UNCHANGED <<shared, conn, answer, todo, torn, clock, history>>

\* Relays under way that have not come to c's place in the skip list.
Passing(c) == {r \in Channel \ {c} : /\ pc[r] = "relay"
                                     /\ c \notin todo[r]
                                     /\ delivered[r][c] < id[r]}

\* channels once c has been added: an element that compares equal to a listed
\* one, that is, has the same hash code, is refused.  And without the add.
NotListed(c) == channels
Listed(c) == IF \E d \in channels : HashCode[d] = HashCode[c]
             THEN channels ELSE channels \cup {c}

\* channels.add, whose element relays under way may still see; then the put of
\* addChannel begins.
AddListed(c) ==
    /\ pc[c] = "list"
    /\ channels' = Listed(c)
    /\ \E R \in SUBSET Passing(c) :
          todo' = [r \in Channel |-> IF r \in R THEN todo[r] \cup (channels' \ channels)
                                                ELSE todo[r]]
    /\ BeginWrite(c)
    /\ Goto(c, "put")
    /\ UNCHANGED <<password, channelMap, errorCount, conn, answer, damaged,
                   clock, history>>

\* What the put is to leave, and what there is without it.
NotPut(c) == channelMap
Put(c)    == channelMap \cup {c}

\* The put of addChannel ends.
MapPutEnd(c) ==
    /\ pc[c] = "put"
    /\ channelMap' \in WriteOutcomes(c, Put(c))
    /\ damaged' = (damaged \/ channelMap' # Put(c))
    /\ torn' = torn \ {c}
    /\ Goto(c, AfterAdd(c))
    /\ UNCHANGED <<password, channels, errorCount, conn, answer, todo, clock, history>>

\* The channels a frame of c goes to: the filter leaves out c.
ReceiversUnfiltered(c) == channels
Receivers(c)           == channels \ {c}

\* The relay of a text starts on the channels listed now; an empty frame is
\* not relayed.
RelayStart(c) ==
    /\ pc[c] = "relayStart"
    /\ IF frame[c].kind = "text"
       THEN /\ Goto(c, "relay")
            /\ todo' = [todo EXCEPT ![c] = Receivers(c)]
            /\ due' = [due EXCEPT ![c] = Receivers(c)]
            /\ UNCHANGED answer
       ELSE Return(c) /\ UNCHANGED due
    /\ UNCHANGED <<shared, conn, torn, damaged, clock, cleared, delivered, holder>>

RelaySend(c, d) ==
    /\ pc[c] = "relay"
    /\ d \in todo[c]
    /\ conn[d] = "open"
    /\ delivered' = [delivered EXCEPT ![c][d] = id[c]]
    /\ todo' = [todo EXCEPT ![c] = @ \ {d}]
    /\ UNCHANGED <<shared, conn, pc, frame, id, answer, torn, damaged, clock,
                   cleared, holder, due>>

\* What is left to send after a failed send to d: countError throws when its
\* get finds nothing, and the rest is lost (sends that other threads of the stream
\* go on with all the same are left out).  And were every failure to throw.
NothingLeft(c, d, o) == {}
Left(c, d, o)        == IF o[2] = 0 THEN {} ELSE todo[c] \ {d}

\* The send raises an IOException, as it must once d's connection is broken,
\* and is counted.
RelayFail(c, d) ==
    /\ pc[c] = "relay"
    /\ d \in todo[c]
    /\ \E o \in ErrorOutcomes(c, d) :
          /\ CountError(c, d, o, FALSE)
          /\ todo' = [todo EXCEPT ![c] = Left(c, d, o)]
          /\ Goto(c, IF o[2] = 0 THEN "throw" ELSE "relay")
    /\ due' = [due EXCEPT ![c] = @ \ {d}]
    /\ UNCHANGED <<password, channels, channelMap, answer, torn, clock,
                   cleared, delivered, holder>>

\* d has left the list before the relay came to it.
RelaySkip(c, d) ==
    /\ pc[c] = "relay"
    /\ d \in todo[c] \ channels
    /\ todo' = [todo EXCEPT ![c] = @ \ {d}]
    /\ UNCHANGED <<shared, conn, pc, frame, id, answer, torn, damaged, clock, history>>

RelayEnd(c) ==
    /\ pc[c] = "relay"
    /\ todo[c] = {}
    /\ Return(c)
    /\ due' = [due EXCEPT ![c] = {}]
    /\ UNCHANGED <<shared, conn, torn, damaged, clock, cleared, delivered, holder>>

\* The status is sent to the session's own channel.
Reply(c) ==
    /\ pc[c] = "reply"
    /\ conn[c] = "open"
    /\ holder' = [holder EXCEPT ![c] = IF answer[c] = "wrong" THEN NoPassword
                                                              ELSE frame[c].pw]
    /\ Return(c)
    /\ UNCHANGED <<shared, conn, torn, damaged, clock, cleared, delivered, due>>

ReplyFail(c) ==
    /\ pc[c] = "reply"
    /\ \E o \in ErrorOutcomes(c, c) :
          /\ CountError(c, c, o, FALSE)
          /\ IF o[2] = 0 THEN Goto(c, "throw") /\ UNCHANGED <<answer, todo>>
                         ELSE Return(c)
    /\ UNCHANGED <<password, channels, channelMap, torn, clock, history>>

\* An exception has left onFrame, or the library has met one: it calls onError,
\* which counts it, and may close the connection.
Throw(c) ==
    /\ pc[c] = "throw"
    /\ \E o \in ErrorOutcomes(c, c) : \E closes \in BOOLEAN : CountError(c, c, o, closes)
    /\ Return(c)
    /\ due' = [due EXCEPT ![c] = {}]
    /\ UNCHANGED <<password, channels, channelMap, torn, clock,
                   cleared, delivered, holder>>

-----------------------------------------------------------------------------
(***************************************************************************)
(* onClose.                                                                *)
(***************************************************************************)

\* The connection is over and the remove of onClose begins.  The library may
\* report a close twice.
OnClose(c) ==
    /\ pc[c] = "idle"
    /\ conn[c] # "new"
    /\ conn' = [conn EXCEPT ![c] = "closed"]
    /\ IF c \in channelMap THEN BeginWrite(c) ELSE UNCHANGED torn
    /\ Goto(c, "remove")
    /\ UNCHANGED <<shared, answer, todo, damaged, clock, history>>

\* A removed channel is taken off the list; or is forgotten there.
AfterRemoveOnly(found) == "idle"
AfterRemove(found)     == IF found THEN "unlist" ELSE "idle"

\* The remove ends.
RemoveEnd(c) ==
    /\ pc[c] = "remove"
    /\ channelMap' \in WriteOutcomes(c, channelMap \ {c})
    /\ \E found \in {c \in channelMap} \cup {FALSE : e \in {c} \cap torn} :
          /\ Goto(c, AfterRemove(found))
          /\ damaged' = \/ damaged
                        \/ channelMap' # channelMap \ {c}
                        \/ found # (c \in channelMap)
    /\ torn' = torn \ {c}
    /\ UNCHANGED <<password, channels, errorCount, conn, answer, todo, clock, history>>

\* channels.remove takes out whichever element compares equal.
Unlist(c) ==
    /\ pc[c] = "unlist"
    /\ channels' = {d \in channels : HashCode[d] # HashCode[c]}
    /\ Goto(c, "idle")
    /\ UNCHANGED <<password, channelMap, errorCount, conn, answer, todo, torn,
                   damaged, clock, history>>

-----------------------------------------------------------------------------

\* What the thread that runs c's callback does next.
Step(c) ==
    \/ SetPassword(c) \/ Compare(c) \/ Gate(c)
    \/ AddContains(c) \/ AddListed(c) \/ MapPutEnd(c)
    \/ RelayStart(c) \/ RelayEnd(c)
    \/ \E d \in Channel : RelaySend(c, d) \/ RelayFail(c, d) \/ RelaySkip(c, d)
    \/ Reply(c) \/ ReplyFail(c) \/ Throw(c)
    \/ RemoveEnd(c) \/ Unlist(c)

Next ==
    \E c \in Channel :
        \/ Connect(c) \/ Break(c) \/ OnError(c)
        \/ \E f \in Frame : OnFrame(c, f)
        \/ OnClose(c)
        \/ Step(c)

Spec == Init /\ [][Next]_vars

\* Threads run, and the library reports in the end that a connection broke.
Fairness ==
    \A c \in Channel : /\ WF_vars(Step(c))
                       /\ WF_vars(conn[c] = "broken" /\ OnClose(c))

FairSpec == Spec /\ Fairness

-----------------------------------------------------------------------------
(***************************************************************************)
(* Properties.                                                             *)
(***************************************************************************)

HashesDiffer == \A c, d \in Channel : HashCode[c] = HashCode[d] => c = d

\* A text passes only between sessions each of which, at some moment, found
\* the chat without a password or gave the right one (PasswordHandler.handle's
\* gate and the registration it guards, whatever the threads and the HashMap do).
OnlyClearedReceive ==
    \A c, d \in Channel : delivered[c][d] > 0 => {c, d} \subseteq cleared

\* Whoever passes the gate as a sender is also a receiver: a live session in
\* channelMap is in channels, unless hash codes collide (addChannel lists
\* before it maps, onClose unmaps before it unlists).
MembersAreListed ==
    HashesDiffer =>
        \A c \in channelMap : conn[c] # "closed" => c \in channels

\* A client that was told its password is right can speak until its session
\* closes, as long as the HashMap was not hit by two threads at once.
ToldMembersAreRegistered ==
    ~damaged => \A c \in Channel :
                   conn[c] # "closed" /\ holder[c] # NoPassword => c \in channelMap

\* A closed session leaves nothing behind for relays to fail on, as long as the
\* HashMap was not hit by two threads at once.
ClosedAreGone ==
    ~damaged /\ HashesDiffer =>
        \A c \in Channel :
            conn[c] = "closed" /\ pc[c] = "idle" => c \notin channelMap \cup channels

\* The chat of ChatRoom: one key, and frames only among the cleared, each at
\* most once and in order.
Room == INSTANCE ChatRoom
            WITH Member <- Channel, Key <- Password, NoKey <- NoPassword,
                 FrameId <- 1..MaxFrames, key <- password,
                 offer <- [c \in Channel |-> frame[c].pw],
                 contenders <- {c \in Channel : pc[c] = "set"}

RoomSpec == Room!Spec

\* A text reaches every channel that was listed when its relay began, is still
\* listed and had no failed send: the parallel relay in onFrame is stopped
\* neither by one receiver's failure nor by sessions that come and go, only by
\* an errorCount that two threads hit at once.  (With equal hash codes one session's
\* close unlists another, and an entry lost by the HashMap lists it again.)
RelayMissesNobody ==
    \A c \in Channel : frame[c].kind = "text" =>
        /\ HashesDiffer /\ pc[c] = "relay" =>
              \A d \in due[c] \cap channels : d \in todo[c] \/ delivered[c][d] = id[c]
        /\ pc[c] = "throw" => damaged

\* A session with three errors, or with a broken connection, is out of the
\* relay in the end (countError, eject and the onClose that the close brings).
FailingLeave ==
    HashesDiffer =>
        \A c \in Channel :
            errorCount[c] = EjectAfter \/ conn[c] = "broken"
                ~> (c \notin channels \/ damaged)

\* modal_pass.html tells whoever sets a password that it "is shared by all
\* members of this chat channel": clients told that theirs is right agree.
OneAgreedPassword ==
    \A c, d \in Channel : holder[c] # NoPassword /\ holder[d] # NoPassword
                              => holder[c] = holder[d]

-----------------------------------------------------------------------------
(***************************************************************************)
(* What makes the safety properties inductive (ChatListener_proofs).       *)
(***************************************************************************)

\* Whoever is listed, mapped, being registered or relayed to has been cleared.
ClearedInv ==
    /\ channels \cup channelMap \subseteq cleared
    /\ \A c \in Channel :
          /\ pc[c] \in {"set", "contains", "list", "put", "relayStart", "relay"}
                => c \in cleared
          /\ todo[c] \subseteq cleared \ {c}
    /\ OnlyClearedReceive

\* A frame's number is above those of the sender's earlier frames that arrived.
OrderInv ==
    \A c \in Channel :
        /\ id[c] <= clock
        /\ \A d \in Channel : delivered[c][d] <= clock
        /\ pc[c] \in {"set", "compare", "contains", "list", "put", "gate", "relayStart"}
              => \A d \in Channel : delivered[c][d] < id[c]
        /\ \A d \in todo[c] : pc[c] = "relay" /\ delivered[c][d] < id[c]

\* Only a callback at work on a password frame holds a password, and it
\* compares only once one is set.
OfferInv ==
    \A c \in Channel :
        /\ pc[c] \in {"idle", "remove", "unlist"} => frame[c] = NoFrame
        /\ pc[c] \in {"set", "compare"} => frame[c].kind = "password"
        /\ pc[c] = "compare" => password # NoPassword

\* A session is listed from before its put to its own onClose.
ListedInv ==
    /\ MembersAreListed
    /\ \A c \in Channel :
          /\ HashesDiffer /\ pc[c] = "put" => c \in channels
          /\ pc[c] \in Closing => conn[c] = "closed"

\* As long as the HashMap behaves, whoever is or was told that its password is
\* right is in channelMap.
RegisteredInv ==
    ~damaged => \A c \in Channel :
        /\ pc[c] = "reply" /\ answer[c] # "wrong" => c \in channelMap
        /\ conn[c] # "closed" /\ holder[c] # NoPassword => c \in channelMap

\* As long as the HashMap behaves, a session is listed only while it is mapped
\* or on its way in or out.
GoneInv ==
    /\ \A c \in Channel : conn[c] = "closed" => pc[c] \in {"idle"} \cup Closing
    /\ ~damaged /\ HashesDiffer =>
          /\ ClosedAreGone
          /\ \A c \in Channel :
                /\ pc[c] = "unlist" => c \notin channelMap
                /\ c \in channels => c \in channelMap \/ pc[c] \in {"put", "unlist"}

\* A channel that was listed when a relay began and is no more is closed, and
\* will not be listed again.
RelayInv ==
    \A c \in Channel :
        /\ HashesDiffer /\ pc[c] = "relay" =>
              \A d \in due[c] : IF d \in channels
                                THEN d \in todo[c] \/ delivered[c][d] = id[c]
                                ELSE conn[d] = "closed"
        /\ pc[c] = "throw" /\ frame[c].kind = "text" => damaged
=============================================================================
