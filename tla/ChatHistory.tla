---------------------------- MODULE ChatHistory ----------------------------
(***************************************************************************)
(* How a late-comer to a password protected chat gets the messages it has  *)
(* missed: the ChatHistory and Chat objects of the clients, over the       *)
(* server's relay.  A client that joins asks who has messages (init), the  *)
(* others offer theirs (response), it asks each for some (request) and is  *)
(* sent them (bulk).  All frames go to everybody.                          *)
(*                                                                         *)
(* A client is one thread: each handler is one action.  Frames of one      *)
(* client reach another in the order sent (ChatRoom), those of different   *)
(* clients in any order.  Time passes in ticks, of which REPEAT_REQUEST_   *)
(* DELAY_MS is Window; the timers of scheduleRequest may fire at any time. *)
(***************************************************************************)
EXTENDS Naturals, Sequences, FiniteSets, SequencesExt

CONSTANTS
    Client,      \* the clients, by their clientid
    MaxRequest,  \* MAX_REQUEST_SIZE
    Window,      \* ticks for which a request counts as outstanding
    Begin,       \* the messages each client holds at the start
    Members,     \* the clients that are in with the password at the start
    MaxSends,    \* bound: messages sent
    MaxLeaves,   \* bound: connections lost
    MaxAnswers,  \* bound: passwords answered
    MaxWire      \* bound: no timer fires while as many frames are under way
                 \* between two clients

\* Sequences begin with 1 (maxSequence), and what is held is held once.
ASSUME ClientIsFinite == IsFiniteSet(Client)
ASSUME MembersType    == Members \subseteq Client
ASSUME LimitsType     == {MaxRequest, Window} \subseteq Nat \ {0}
ASSUME BoundsType     == {MaxSends, MaxLeaves, MaxAnswers, MaxWire} \subseteq Nat
ASSUME BeginType      ==
    Begin \in [Client -> Seq([sequence : Nat \ {0}, timems : Nat, clientid : Client])]
ASSUME BeginHeldOnce  ==
    \A c \in Client : \A i, j \in DOMAIN Begin[c] : Begin[c][i] = Begin[c][j] => i = j

VARIABLES
    messages,    \* Chat.messages of each client, which is also what is in hashes
    offers,      \* ChatHistory.offers
    requests,    \* the ChatHistory.requests that are not yet older than Window
    member,      \* the clients whose session the server has registered
    answered,    \* those of them that password_ok or password_set is on its way to
    passwordOk,  \* those of them whose Chat.passwordOk is true
    wire,        \* wire[c][d]: frames of c on their way to d
    clock,       \* the time of the last message
    sends,       \* messages sent
    leaves,      \* connections lost
    answers      \* passwords answered

session  == <<member, answered, passwordOk>>
counters == <<sends, leaves, answers>>
vars     == <<messages, offers, requests, session, wire, clock, counters>>

Times == UNION {{m.timems : m \in ToSet(Begin[c])} : c \in Client}
Start == Max(Times \cup {0})

\* The sequences messages can have once n more were sent, and whatever is sent.
Held            == UNION {{m.sequence : m \in ToSet(Begin[c])} : c \in Client}
SequencesOf(n)  == Held \cup {h + k : h \in Held \cup {0}, k \in 1..n}
Sequence        == SequencesOf(MaxSends)
Message == [sequence : Sequence, timems : Times \cup {Start + k : k \in 1..MaxSends},
            clientid : Client]
Lists   == Seq(Sequence)

HistoryEvent == [clientid : Client, sequenceList : Lists]
Offer == [key : {"availablesequences"}, value : Lists]
            \cup [key : {"availablerange"}, value : Sequence \X Sequence]
IsFrame(f) ==
    \/ f \in [type : {"init"}] \cup [type : {"msg"}, msg : Message]
             \cup [type : {"response"}, offer : Offer]
             \cup [type : {"bulk"}, messages : Seq(Message)]
    \/ \E S \in SUBSET Client : f \in [type : {"request"}, get : [S -> Lists]]

TypeOK ==
    /\ messages \in [Client -> Seq(Message)]
    /\ offers \in [Client -> Seq(HistoryEvent)]
    /\ requests \in
           [Client -> Seq([clientid : Client, sequenceList : Lists, left : 1..Window])]
    /\ member \subseteq Client
    /\ answered \subseteq member /\ passwordOk \subseteq member
    /\ \A c, d \in Client : \A i \in DOMAIN wire[c][d] : IsFrame(wire[c][d][i])
    /\ clock \in 0..(Start + MaxSends)
    /\ sends \in 0..MaxSends
    /\ leaves \in 0..MaxLeaves
    /\ answers \in 0..MaxAnswers

Init ==
    /\ messages = Begin
    /\ offers = [c \in Client |-> <<>>]
    /\ requests = [c \in Client |-> <<>>]
    /\ member \in {M \in SUBSET Client : Members \subseteq M}
    /\ answered = {}
    /\ passwordOk = Members
    /\ wire = [c \in Client |-> [d \in Client |-> <<>>]]
    /\ clock = Start
    /\ sends = 0
    /\ leaves = 0
    /\ answers = 0

-----------------------------------------------------------------------------
(***************************************************************************)
(* The messages a client holds (chat.js).                                  *)
(***************************************************************************)

\* getSequences(true)
Sequences(ms) == [i \in DOMAIN ms |-> ms[i].sequence]

\* addMessage to the list ms, kept in the order of timems by a stable sort;
\* and without the look at hashes.
AddAgain(ms, m) ==
    InsertAt(ms, 1 + Cardinality({i \in DOMAIN ms : ms[i].timems <= m.timems}), m)
AddMessage(ms, m) == IF m \in ToSet(ms) THEN ms ELSE AddAgain(ms, m)

\* Those of a bulk are added the last first.
AddAll(ms, bulk) == FoldRight(LAMBDA m, l : AddMessage(l, m), bulk, ms)

\* getNextSequence, where maxSequence is the largest ever added.
MaxSequence(ms)  == Max(ToSet(Sequences(ms)) \cup {0})
NextSequence(ms) == MaxSequence(ms) + 1

\* Some sequence is not the one that follows its predecessor; and as if none
\* ever were.
NeverBroken(list) == FALSE
Broken(list)      == \E i \in 2..Len(list) : list[i] # list[i-1] + 1

\* getSequences()
GetSequences(ms) ==
    LET list == Sequences(ms) IN
    IF Broken(list) \/ Len(list) < 3
    THEN [key |-> "availablesequences", value |-> list]
    ELSE [key |-> "availablerange", value |-> <<list[1], list[Len(list)]>>]

\* getMessage: the first with the sequence.
GetMessage(ms, seq) == ms[SelectInSeq(ms, LAMBDA m : m.sequence = seq)]

-----------------------------------------------------------------------------
(***************************************************************************)
(* Choosing what to ask for (history.js).                                  *)
(***************************************************************************)

\* The elements of s at the positions P, in their order, and those that pass a
\* test; s in the order Before.  Each goes where there are as many before it:
\* SelectSeq and SortSeq say the same, and are unknown to the provers.
Nth[P \in SUBSET Nat] ==
    [k \in 1..Cardinality(P) |-> CHOOSE i \in P : Cardinality({j \in P : j < i}) = k - 1]
Elements(s, P)     == [k \in 1..Cardinality(P) |-> s[Nth[P][k]]]
Select(s, Test(_)) == Elements(s, {i \in DOMAIN s : Test(s[i])})
Sort(s, Before(_, _)) ==
    LET Ahead(i) == {j \in DOMAIN s : Before(s[j], s[i]) \/ (s[j] = s[i] /\ j < i)}
    IN  [k \in DOMAIN s |-> s[CHOOSE i \in DOMAIN s : Cardinality(Ahead(i)) = k - 1]]

ArrayDiff[a \in Lists]      == [b \in SUBSET Sequence |-> Select(a, LAMBDA e : e \notin b)]
ArrayIntersect[a \in Lists] == [b \in SUBSET Sequence |-> Select(a, LAMBDA e : e \in b)]

\* The order in which sort() puts numbers below 100, that of their digits.
Lead(n) == IF n < 10 THEN 10 * n ELSE n
SortsBefore(m, n) == Lead(m) < Lead(n) \/ (Lead(m) = Lead(n) /\ m < n)

SortAsText[list \in Lists]  == Sort(list, SortsBefore)
LatestFirst[list \in Lists] == Reverse(Sort(list, <))

ExpandSequences[o \in Offer] ==
    IF o.key = "availablesequences"
    THEN SortAsText[o.value]
    ELSE [i \in 1..(o.value[2] - o.value[1] + 1) |-> o.value[1] + i - 1]

\* considerRequest: what was asked for within the window is left out, and of
\* the rest the last MaxRequest are taken; and without the window.
Latest[list \in Lists] ==
    IF Len(list) > MaxRequest
    THEN SubSeq(list, Len(list) - MaxRequest + 1, Len(list))
    ELSE list
AskAgain(dontHave, asked) == Latest[dontHave]
ConsiderRequest(dontHave, asked) ==
    AskAgain(ArrayDiff[dontHave][UNION {ToSet(r.sequenceList) : r \in ToSet(asked)}], asked)

\* considerOffer: what is held is left out; and as if that were done last.
LimitFirst(c, list) ==
    ArrayDiff[ConsiderRequest(list, requests[c])][ToSet(Sequences(messages[c]))]
ConsiderOffer(c, list) ==
    ConsiderRequest(ArrayDiff[list][ToSet(Sequences(messages[c]))], requests[c])

\* What scheduleRequest collects over the offers in their order, and the lists it
\* gets: a later list for a client takes the place of an earlier one; and as if the
\* last list of all were asked of everybody.
Consider(c) ==
    [total \in Seq(HistoryEvent) |-> [o \in HistoryEvent |->
        LET list == ConsiderOffer(c, ArrayDiff[o.sequenceList][
                        UNION {ToSet(r.sequenceList) : r \in ToSet(total)}])
        IN  IF list = <<>> THEN total ELSE Append(total, [o EXCEPT !.sequenceList = list])]]
Collect(c) == FoldLeft(LAMBDA total, o : Consider(c)[total][o], <<>>, offers[c])
GetLast(total) ==
    [id \in {r.clientid : r \in ToSet(total)} |-> total[Len(total)].sequenceList]
Get(total) ==
    [id \in {r.clientid : r \in ToSet(total)} |->
        total[Max({i \in DOMAIN total : total[i].clientid = id})].sequenceList]

-----------------------------------------------------------------------------
(***************************************************************************)
(* Frames.                                                                 *)
(***************************************************************************)

\* c's frames under way to the others once it has sent f; what is sent while
\* the session is not registered is lost.
Outgoing(c, f) == [d \in Client |-> IF d = c \/ c \notin member THEN wire[c][d]
                                                                ELSE Append(wire[c][d], f)]

Send(c, f) == wire' = [wire EXCEPT ![c] = Outgoing(c, f)]

\* The first frame from c to d is of a type, and d is there to handle it: texts
\* as a member, the frames of the history only if its password is right.
Arrived(d, c, type) == /\ d \in IF type = "msg" THEN member ELSE passwordOk
                       /\ wire[c][d] # <<>>
                       /\ Head(wire[c][d]).type = type

\* d has handled it, and has sent nothing, or g.
Take(d, c)           == wire' = [wire EXCEPT ![c][d] = Tail(@)]
TakeAndSend(d, c, g) == wire' = [wire EXCEPT ![c][d] = Tail(@), ![d] = Outgoing(d, g)]

\* The requests of c once it has sent get.
Asked(c, get) ==
    LET ids == SetToSeq(DOMAIN get) IN
    requests[c] \o [i \in DOMAIN ids |->
        [clientid |-> ids[i], sequenceList |-> get[ids[i]], left |-> Window]]

Calm == \A c, d \in Client : Len(wire[c][d]) + Len(wire[d][c]) < MaxWire

-----------------------------------------------------------------------------

\* handle: c has given the right password, which registers it, and is answered;
\* one answer at a time is on its way.
GivePassword(c) ==
    /\ c \notin answered
    /\ answers < MaxAnswers
    /\ answers' = answers + 1
    /\ member' = member \cup {c}
    /\ answered' = answered \cup {c}
    /\ UNCHANGED <<messages, offers, requests, passwordOk, wire, clock, sends, leaves>>

\* The answer arrives at c, which may have had one before, and c asks for offers.
PasswordOk(c) ==
    /\ c \in answered
    /\ answered' = answered \ {c}
    /\ passwordOk' = passwordOk \cup {c}
    /\ Send(c, [type |-> "init"])
    /\ UNCHANGED <<messages, offers, requests, member, clock, counters>>

\* password_wrong arrives at c, which remains what it is to the server.
PasswordWrong(c) ==
    /\ c \in passwordOk
    /\ answers < MaxAnswers
    /\ answers' = answers + 1
    /\ passwordOk' = passwordOk \ {c}
    /\ UNCHANGED <<messages, offers, requests, member, answered, wire, clock, sends, leaves>>

\* c's connection is lost, and with it the last k frames it has sent, none of
\* which has reached anybody.
Leave(c) ==
    /\ c \in member
    /\ leaves < MaxLeaves
    /\ leaves' = leaves + 1
    /\ member' = member \ {c}
    /\ answered' = answered \ {c}
    /\ passwordOk' = passwordOk \ {c}
    /\ \E k \in UNION {0..Len(wire[c][d]) : d \in Client} :
          /\ \A d \in Client \ {c} : k <= Len(wire[c][d])
          /\ wire' = [wire EXCEPT ![c] = [d \in Client |-> SubSeq(@[d], 1, Len(@[d]) - k)]]
    /\ UNCHANGED <<messages, offers, requests, clock, sends, answers>>

\* The user of c, who may be offline, sends a text.
SendText(c) ==
    /\ sends < MaxSends
    /\ sends' = sends + 1
    /\ clock' = clock + 1
    /\ LET m == [sequence |-> NextSequence(messages[c]), timems |-> clock + 1,
                 clientid |-> c] IN
       /\ messages' = [messages EXCEPT ![c] = AddMessage(@, m)]
       /\ Send(c, [type |-> "msg", msg |-> m])
    /\ UNCHANGED <<offers, requests, session, leaves, answers>>

\* websocketOnMessage with a text
ReceiveText(d, c) ==
    /\ Arrived(d, c, "msg")
    /\ messages' = [messages EXCEPT ![d] = AddMessage(@, Head(wire[c][d]).msg)]
    /\ Take(d, c)
    /\ UNCHANGED <<offers, requests, session, clock, counters>>

\* A client that has messages offers them to one that came.
SendStatusResponse(d, c) ==
    /\ Arrived(d, c, "init")
    /\ IF messages[d] = <<>>
       THEN Take(d, c)
       ELSE TakeAndSend(d, c, [type |-> "response", offer |-> GetSequences(messages[d])])
    /\ UNCHANGED <<messages, offers, requests, session, clock, counters>>

\* The offers once list of c has been received.
WithOffer(d, c, list) == Append(offers[d], [clientid |-> c, sequenceList |-> list])

\* An offer is kept, and what is lacking is asked for right away.
ReceiveStatusResponse(d, c) ==
    /\ Arrived(d, c, "response")
    /\ \E offered \in {ExpandSequences[Head(wire[c][d]).offer]} :
       \E list \in {ConsiderOffer(d, offered)} :
       /\ offers' = [offers EXCEPT ![d] = WithOffer(d, c, offered)]
       /\ IF list = <<>>
          THEN Take(d, c) /\ UNCHANGED requests
          ELSE LET get == [id \in {c} |-> list] IN
               /\ TakeAndSend(d, c, [type |-> "request", get |-> get])
               /\ requests' = [requests EXCEPT ![d] = Asked(d, get)]
    /\ UNCHANGED <<messages, session, clock, counters>>

\* The timer of c finds something to ask for.
ScheduleRequest(c) ==
    /\ Calm
    /\ \E get \in {Get(Collect(c))} :
       /\ DOMAIN get # {}
       /\ Send(c, [type |-> "request", get |-> get])
       /\ requests' = [requests EXCEPT ![c] = Asked(c, get)]
    /\ UNCHANGED <<messages, offers, session, clock, counters>>

\* d sends everybody what c asks it for, the latest first.
SendHistory(d, c) ==
    /\ Arrived(d, c, "request")
    /\ LET get == Head(wire[c][d]).get
           have == ToSet(Sequences(messages[d])) IN
       IF d \in DOMAIN get
       THEN \E canSend \in {LatestFirst[ArrayIntersect[get[d]][have]]} :
            TakeAndSend(d, c, [type |-> "bulk", messages |->
                [i \in DOMAIN canSend |-> GetMessage(messages[d], canSend[i])]])
       ELSE Take(d, c)
    /\ UNCHANGED <<messages, offers, requests, session, clock, counters>>

\* Whoever asked for them, messages sent in bulk are added.
ReceiveBulkHistory(d, c) ==
    /\ Arrived(d, c, "bulk")
    /\ messages' = [messages EXCEPT ![d] = AddAll(@, Head(wire[c][d]).messages)]
    /\ Take(d, c)
    /\ UNCHANGED <<offers, requests, session, clock, counters>>

\* What the server relays to a session that is gone is lost.
Lose(d, c) ==
    /\ d \notin member
    /\ wire[c][d] # <<>>
    /\ Take(d, c)
    /\ UNCHANGED <<messages, offers, requests, session, clock, counters>>

\* Frames of the history are ignored while the password is not right.
Ignore(d, c) ==
    /\ d \in member \ passwordOk
    /\ wire[c][d] # <<>>
    /\ Head(wire[c][d]).type # "msg"
    /\ Take(d, c)
    /\ UNCHANGED <<messages, offers, requests, session, clock, counters>>

\* Time passes, whatever is under way: a request is outstanding for Window ticks;
\* or for ever; or for one more.
AsOld(r) == r
Older(r) == [r EXCEPT !.left = @ - 1]
Aged(rs) == [i \in DOMAIN rs |-> Older(rs[i])]
OutstandingAtEnd(rs) == Select(Aged(rs), LAMBDA r : r.left >= 0)
Outstanding(rs)      == Select(Aged(rs), LAMBDA r : r.left > 0)

Tick ==
    /\ \E c \in Client : requests[c] # <<>>
    /\ requests' = [c \in Client |-> Outstanding(requests[c])]
    /\ UNCHANGED <<messages, offers, session, wire, clock, counters>>

-----------------------------------------------------------------------------

Deliver(d, c) ==
    \/ ReceiveText(d, c)
    \/ SendStatusResponse(d, c)
    \/ ReceiveStatusResponse(d, c)
    \/ SendHistory(d, c)
    \/ ReceiveBulkHistory(d, c)
    \/ Ignore(d, c)
    \/ Lose(d, c)

Next ==
    \/ \E c \in Client :
          \/ GivePassword(c) \/ PasswordOk(c) \/ PasswordWrong(c) \/ Leave(c)
          \/ SendText(c) \/ ScheduleRequest(c)
    \/ \E c, d \in Client : Deliver(d, c)
    \/ Tick

Spec == Init /\ [][Next]_vars

\* Frames and answers arrive, timers fire and time passes.
Fairness ==
    /\ \A c \in Client : \A d \in Client \ {c} : WF_vars(Deliver(d, c))
    /\ \A c \in Client : WF_vars(PasswordOk(c)) /\ WF_vars(ScheduleRequest(c))
    /\ WF_vars(Tick)

FairSpec == Spec /\ Fairness

-----------------------------------------------------------------------------
(***************************************************************************)
(* Properties.                                                             *)
(***************************************************************************)

\* A message that comes live and in any number of bulks is shown once
\* (addMessage).
ShownOnce ==
    \A c \in Client : \A i, j \in DOMAIN messages[c] :
        messages[c][i] = messages[c][j] => i = j

\* What a client is on record to offer it can send, though offers are encoded
\* by their ends and made while messages arrive in any order (getSequences,
\* expandSequences).
OffersAreHonest ==
    \A c, d \in Client :
        /\ \A i \in DOMAIN offers[c] : offers[c][i].clientid = d =>
               ToSet(offers[c][i].sequenceList) \subseteq ToSet(Sequences(messages[d]))
        /\ \A i \in DOMAIN wire[d][c] : wire[d][c][i].type = "response" =>
               ToSet(ExpandSequences[wire[d][c][i].offer])
                   \subseteq ToSet(Sequences(messages[d]))

\* A request that is on its way asks each client only for what that can send, and
\* so is answered in full, though it may be made of an offer from long ago and of
\* lists for several clients (scheduleRequest, sendHistory).
RequestsAreHonest ==
    \A b, c, d \in Client : \A i \in DOMAIN wire[b][c] :
        wire[b][c][i].type = "request" /\ d \in DOMAIN wire[b][c][i].get =>
            ToSet(wire[b][c][i].get[d]) \subseteq ToSet(Sequences(messages[d]))

\* No sequence is asked for twice within the window, neither of two clients nor
\* by the timer and the handler of offers (considerRequest).
NothingAskedTwice ==
    \A c \in Client : \A i, j \in DOMAIN requests[c] :
        i # j => ToSet(requests[c][i].sequenceList)
                     \cap ToSet(requests[c][j].sequenceList) = {}

Offered(c, d, n) ==
    \E i \in DOMAIN offers[c] : /\ offers[c][i].clientid = d
                                /\ n \in ToSet(offers[c][i].sequenceList)

Has(c, n) == n \in ToSet(Sequences(messages[c]))

\* c lacks a sequence it was offered, and it and all that offered it are in.
Waits(c, n) ==
    /\ ~Has(c, n)
    /\ \E d \in Client : Offered(c, d, n)
    /\ \A d \in Client : Offered(c, d, n) => {c, d} \subseteq passwordOk

\* A client gets every sequence it was offered, if all that offered it stay
\* (scheduleRequest): none waits for ever, whatever is lost when connections
\* break, ignored while a password is wrong, or answered after the window.
OfferedIsRecalled == \A c \in Client, n \in Sequence : []<>~Waits(c, n)

\* modal_pass.html: "Setting a password will allow late-comers to recall the
\* history of previous messages": it is enough that one stays of those that
\* offered a sequence.
LateComersRecall ==
    \A c \in Client \ Members, d \in Client, n \in Sequence :
        <>[]({c, d} \subseteq passwordOk) => (Offered(c, d, n) ~> Has(c, n))

\* The same, of messages instead of sequences: a member that has all sequences
\* of another has its messages, once nothing is under way.
SameSequencesSameMessages ==
    (\A a, b \in Client : wire[a][b] = <<>>) =>
        \A c, d \in passwordOk :
            ToSet(Sequences(messages[d])) \subseteq ToSet(Sequences(messages[c]))
                => ToSet(messages[d]) \subseteq ToSet(messages[c])
=============================================================================
