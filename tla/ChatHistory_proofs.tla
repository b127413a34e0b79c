-------------------------- MODULE ChatHistory_proofs --------------------------
(***************************************************************************)
(* The invariants of ChatHistory, for any clients, histories, limits and   *)
(* bounds.                                                                 *)
(*                                                                         *)
(* They are proved together, because they rest on one another: an offer    *)
(* can be spelled out to a list of sequences because it is honest, what is *)
(* asked for can be sent because it was offered, and the requests of a     *)
(* client are apart because what is offered is a list.                     *)
(* HistoryInv adds to them that what is held or under way was sent, so     *)
(* that its sequence and its time are within what n messages can reach.    *)
(***************************************************************************)
EXTENDS ChatHistoryLemmas_proofs

Typed ==
    /\ messages \in [Client -> Seq(Known(sends))]
    /\ offers \in [Client -> Seq(HistoryEvent)]
    /\ requests \in [Client -> Seq(Request)]
    /\ member \in SUBSET Client
    /\ answered \in SUBSET member /\ passwordOk \in SUBSET member
    /\ wire \in [Client -> [Client -> Seq(FrameOf(sends))]]
    /\ clock = Start + sends
    /\ sends \in 0..MaxSends
    /\ leaves \in 0..MaxLeaves
    /\ answers \in 0..MaxAnswers

HistoryInv ==
    Typed /\ ShownOnce /\ OffersAreHonest /\ RequestsAreHonest /\ NothingAskedTwice

-----------------------------------------------------------------------------
(***************************************************************************)
(* What the invariant says in the terms of the lemmas.                     *)
(***************************************************************************)

LEMMA InTermsOfLists ==
    /\ ShownOnce <=> \A c \in Client : Once(messages[c])
    /\ NothingAskedTwice <=> \A c \in Client : Apart(requests[c])
BY DEF ShownOnce, Once, NothingAskedTwice, Apart

LEMMA InTermsOfListsNext ==
    /\ ShownOnce' <=> \A c \in Client : Once(messages'[c])
    /\ NothingAskedTwice' <=> \A c \in Client : Apart(requests'[c])
BY DEF ShownOnce, Once, NothingAskedTwice, Apart

LEMMA TypedFacts ==
    ASSUME Typed, NEW c \in Client
    PROVE  /\ sends \in Nat /\ sends <= MaxSends
           /\ messages[c] \in Seq(Known(sends)) /\ messages[c] \in Seq(Message)
           /\ offers[c] \in Seq(HistoryEvent) /\ requests[c] \in Seq(Request)
<1>1. sends \in Nat /\ sends <= MaxSends
  BY BoundFacts DEF Typed
<1>2. messages[c] \in Seq(Known(sends))
  BY DEF Typed
<1>3. messages[c] \in Seq(Message)
  BY <1>1, <1>2, KnownFacts, SeqMonotonic
<1> QED BY <1>1, <1>2, <1>3 DEF Typed

\* What a list of sequences is to d.
Sendable(d) == ToSet(Sequences(messages[d]))

\* What d offers with the frame f can be sent, and what it asks for.
HonestOf(d, f) ==
    /\ f.type = "response" => ToSet(ExpandSequences[f.offer]) \subseteq Sendable(d)
    /\ f.type = "request" =>
           \A e \in DOMAIN f.get : e \in Client => ToSet(f.get[e]) \subseteq Sendable(e)

LEMMA HonestFrames ==
    ASSUME OffersAreHonest, RequestsAreHonest,
           NEW c \in Client, NEW d \in Client, NEW f \in ToSet(wire[d][c])
    PROVE  HonestOf(d, f)
<1>1. PICK i \in DOMAIN wire[d][c] : f = wire[d][c][i]
  BY DEF ToSet
<1>2. ASSUME f.type = "response"
      PROVE  ToSet(ExpandSequences[f.offer]) \subseteq Sendable(d)
  BY <1>1, <1>2 DEF OffersAreHonest, Sendable
<1>3. ASSUME f.type = "request", NEW e \in DOMAIN f.get, e \in Client
      PROVE  ToSet(f.get[e]) \subseteq Sendable(e)
  BY <1>1, <1>3 DEF RequestsAreHonest, Sendable
<1> QED BY <1>2, <1>3 DEF HonestOf

LEMMA HonestEvents ==
    ASSUME Typed, OffersAreHonest, NEW c \in Client
    PROVE  \A o \in ToSet(offers[c]) : Honest(o)
<1> SUFFICES ASSUME NEW i \in DOMAIN offers[c] PROVE Honest(offers[c][i])
  BY DEF ToSet
<1>1. offers[c] \in Seq(HistoryEvent)
  BY TypedFacts
<1>2. offers[c][i] \in HistoryEvent
  BY <1>1, LenProperties
<1>3. offers[c][i].clientid \in Client
  BY <1>2 DEF HistoryEvent
<1> QED BY <1>3 DEF OffersAreHonest, Honest

\* Offers and requests stay honest while messages are only added, if new ones are.
LEMMA StaysHonest ==
    ASSUME OffersAreHonest, RequestsAreHonest,
           \A d \in Client : /\ messages[d] \in Seq(Message) /\ messages'[d] \in Seq(Message)
                             /\ ToSet(messages[d]) \subseteq ToSet(messages'[d]),
           \A c \in Client : \A o \in ToSet(offers'[c]) :
               \/ o \in ToSet(offers[c])
               \/ \A d \in Client :
                      o.clientid = d => ToSet(o.sequenceList) \subseteq Sendable(d),
           \A c, d \in Client : \A f \in ToSet(wire'[d][c]) :
               f \in ToSet(wire[d][c]) \/ HonestOf(d, f)
    PROVE  OffersAreHonest' /\ RequestsAreHonest'
<1>1. ASSUME NEW d \in Client PROVE Sendable(d) \subseteq ToSet(Sequences(messages'[d]))
  <2>1. /\ Sendable(d) = {m.sequence : m \in ToSet(messages[d])}
        /\ ToSet(Sequences(messages'[d])) = {m.sequence : m \in ToSet(messages'[d])}
    BY ListOfSequences DEF Sendable
  <2> QED BY <2>1
<1>2. ASSUME NEW c \in Client, NEW d \in Client, NEW i \in DOMAIN offers'[c],
             offers'[c][i].clientid = d
      PROVE  ToSet(offers'[c][i].sequenceList) \subseteq ToSet(Sequences(messages'[d]))
  <2> DEFINE o == offers'[c][i]
  <2>1. o \in ToSet(offers'[c])
    BY DEF ToSet
  <2>2. ASSUME o \in ToSet(offers[c]) PROVE ToSet(o.sequenceList) \subseteq Sendable(d)
    <3>1. PICK j \in DOMAIN offers[c] : o = offers[c][j]
      BY <2>2 DEF ToSet
    <3> HIDE DEF o
    <3>2. o.clientid = d
      BY <1>2 DEF o
    <3> QED BY <3>1, <3>2 DEF OffersAreHonest, Sendable
  <2>3. ToSet(o.sequenceList) \subseteq Sendable(d)
    BY <1>2, <2>1, <2>2
  <2> QED BY <1>1, <2>3
<1>3. ASSUME NEW c \in Client, NEW d \in Client, NEW i \in DOMAIN wire'[d][c]
      PROVE  HonestOf(d, wire'[d][c][i])
  <2>1. wire'[d][c][i] \in ToSet(wire'[d][c])
    BY DEF ToSet
  <2> QED BY <2>1, HonestFrames
<1>4. ASSUME NEW c \in Client, NEW d \in Client, NEW i \in DOMAIN wire'[d][c],
             wire'[d][c][i].type = "response"
      PROVE  ToSet(ExpandSequences[wire'[d][c][i].offer])
                 \subseteq ToSet(Sequences(messages'[d]))
  <2> DEFINE f == wire'[d][c][i]
  <2>1. HonestOf(d, f)
    BY <1>3
  <2>2. ToSet(ExpandSequences[f.offer]) \subseteq Sendable(d)
    BY <1>4, <2>1 DEF HonestOf
  <2> QED BY <1>1, <2>2
<1>5. ASSUME NEW b \in Client, NEW c \in Client, NEW d \in Client, NEW i \in DOMAIN wire'[b][c],
             wire'[b][c][i].type = "request", d \in DOMAIN wire'[b][c][i].get
      PROVE  ToSet(wire'[b][c][i].get[d]) \subseteq ToSet(Sequences(messages'[d]))
  <2> DEFINE f == wire'[b][c][i]
  <2>1. HonestOf(b, f)
    BY <1>3
  <2>2. ToSet(f.get[d]) \subseteq Sendable(d)
    BY <1>5, <2>1 DEF HonestOf
  <2> QED BY <1>1, <2>2
<1>6. OffersAreHonest'
  BY <1>2, <1>4 DEF OffersAreHonest
<1>7. RequestsAreHonest'
  BY <1>5 DEF RequestsAreHonest
<1> QED BY <1>6, <1>7

-----------------------------------------------------------------------------
(***************************************************************************)
(* Frames: what is under way next is what was, or what is sent.            *)
(***************************************************************************)

NewOnly(N) ==
    \A c, d \in Client : \A f \in ToSet(wire'[d][c]) :
        f \in ToSet(wire[d][c]) \/ <<d, f>> \in N

LEMMA TailFacts ==
    ASSUME NEW F, NEW s \in Seq(F), s # <<>>
    PROVE  /\ Head(s) \in F /\ Head(s) \in ToSet(s)
           /\ Tail(s) \in Seq(F) /\ ToSet(Tail(s)) \subseteq ToSet(s)
<1>1. DOMAIN s = 1..Len(s) /\ Len(s) \in Nat \ {0} /\ Head(s) = s[1]
  BY LenProperties, EmptySeq
<1>2. /\ Head(s) \in F /\ Tail(s) \in Seq(F) /\ Len(Tail(s)) = Len(s) - 1
      /\ \A i \in 1..Len(Tail(s)) : Tail(s)[i] = s[i+1]
  BY HeadTailProperties
<1>3. DOMAIN Tail(s) = 1..(Len(s) - 1)
  BY <1>2, LenProperties
<1>4. \A i \in 1..(Len(s) - 1) : i + 1 \in 1..Len(s)
  BY <1>1
<1> QED BY <1>1, <1>2, <1>3, <1>4 DEF ToSet

LEMMA AppendFacts ==
    ASSUME NEW F, NEW s \in Seq(F), NEW f \in F
    PROVE  Append(s, f) \in Seq(F) /\ ToSet(Append(s, f)) \subseteq ToSet(s) \cup {f}
<1>1. DOMAIN s = 1..Len(s) /\ Len(s) \in Nat
  BY LenProperties
<1>2. /\ Append(s, f) \in Seq(F) /\ Len(Append(s, f)) = Len(s) + 1
      /\ \A i \in 1..Len(s) : Append(s, f)[i] = s[i]
      /\ Append(s, f)[Len(s) + 1] = f
  BY AppendProperties
<1>3. DOMAIN Append(s, f) = 1..(Len(s) + 1)
  BY <1>2, LenProperties
<1>4. \A i \in 1..(Len(s) + 1) : i \in 1..Len(s) \/ i = Len(s) + 1
  BY <1>1
<1> QED BY <1>1, <1>2, <1>3, <1>4 DEF ToSet

LEMMA OutgoingFacts ==
    ASSUME NEW F, wire \in [Client -> [Client -> Seq(F)]], NEW c \in Client, NEW f \in F
    PROVE  /\ Outgoing(c, f) \in [Client -> Seq(F)]
           /\ \A d \in Client : ToSet(Outgoing(c, f)[d]) \subseteq ToSet(wire[c][d]) \cup {f}
<1>1. \A d \in Client : wire[c][d] \in Seq(F)
  OBVIOUS
<1>2. \A d \in Client : /\ Append(wire[c][d], f) \in Seq(F)
                        /\ ToSet(Append(wire[c][d], f)) \subseteq ToSet(wire[c][d]) \cup {f}
  BY <1>1, AppendFacts
<1> QED BY <1>1, <1>2 DEF Outgoing

LEMMA SendFacts ==
    ASSUME NEW F, wire \in [Client -> [Client -> Seq(F)]], NEW c \in Client, NEW f \in F,
           Send(c, f)
    PROVE  wire' \in [Client -> [Client -> Seq(F)]] /\ NewOnly({<<c, f>>})
<1>1. wire' = [wire EXCEPT ![c] = Outgoing(c, f)]
  BY DEF Send
<1>2. wire' \in [Client -> [Client -> Seq(F)]]
  BY <1>1, OutgoingFacts
<1>3. \A a, b \in Client : wire'[a][b] = IF a = c THEN Outgoing(c, f)[b] ELSE wire[a][b]
  BY <1>1
<1>4. NewOnly({<<c, f>>})
  <2>1. \A b \in Client : ToSet(Outgoing(c, f)[b]) \subseteq ToSet(wire[c][b]) \cup {f}
    BY OutgoingFacts
  <2> SUFFICES ASSUME NEW a \in Client, NEW b \in Client, NEW g \in ToSet(wire'[a][b])
               PROVE  g \in ToSet(wire[a][b]) \/ (a = c /\ g = f)
    BY DEF NewOnly
  <2>2. CASE a = c
    <3>1. wire'[a][b] = Outgoing(c, f)[b]
      BY <1>3, <2>2
    <3>2. g \in ToSet(Outgoing(c, f)[b])
      BY <3>1
    <3>3. g \in ToSet(wire[c][b]) \cup {f}
      BY <2>1, <3>2
    <3> QED BY <2>2, <3>3
  <2>3. CASE a # c
    <3>1. wire'[a][b] = wire[a][b]
      BY <1>3, <2>3
    <3> QED BY <3>1
  <2> QED BY <2>2, <2>3
<1> QED BY <1>2, <1>4

LEMMA TakeFacts ==
    ASSUME NEW F, wire \in [Client -> [Client -> Seq(F)]], NEW c \in Client, NEW d \in Client,
           wire[c][d] # <<>>, Take(d, c)
    PROVE  wire' \in [Client -> [Client -> Seq(F)]] /\ NewOnly({})
<1>1. wire' = [wire EXCEPT ![c][d] = Tail(wire[c][d])]
  BY DEF Take
<1>2. Tail(wire[c][d]) \in Seq(F) /\ ToSet(Tail(wire[c][d])) \subseteq ToSet(wire[c][d])
  BY TailFacts
<1>3. wire' \in [Client -> [Client -> Seq(F)]]
  BY <1>1, <1>2
<1>4. \A a, b \in Client :
         wire'[a][b] = IF a = c /\ b = d THEN Tail(wire[c][d]) ELSE wire[a][b]
  BY <1>1
<1>5. NewOnly({})
  BY <1>2, <1>4 DEF NewOnly
<1> QED BY <1>3, <1>5

LEMMA TakeAndSendFacts ==
    ASSUME NEW F, wire \in [Client -> [Client -> Seq(F)]], NEW c \in Client, NEW d \in Client,
           wire[c][d] # <<>>, NEW g \in F, TakeAndSend(d, c, g)
    PROVE  wire' \in [Client -> [Client -> Seq(F)]] /\ NewOnly({<<d, g>>})
<1>1. wire' = [wire EXCEPT ![c][d] = Tail(wire[c][d]), ![d] = Outgoing(d, g)]
  BY DEF TakeAndSend
<1>2. Tail(wire[c][d]) \in Seq(F) /\ ToSet(Tail(wire[c][d])) \subseteq ToSet(wire[c][d])
  BY TailFacts
<1>3. /\ Outgoing(d, g) \in [Client -> Seq(F)]
      /\ \A b \in Client : ToSet(Outgoing(d, g)[b]) \subseteq ToSet(wire[d][b]) \cup {g}
  BY OutgoingFacts
<1>4. wire' \in [Client -> [Client -> Seq(F)]]
  BY <1>1, <1>2, <1>3
<1>5. \A a, b \in Client :
         wire'[a][b] = IF a = d THEN Outgoing(d, g)[b]
                       ELSE IF a = c /\ b = d THEN Tail(wire[c][d]) ELSE wire[a][b]
  BY <1>1
<1>6. NewOnly({<<d, g>>})
  <2> SUFFICES ASSUME NEW a \in Client, NEW b \in Client, NEW f \in ToSet(wire'[a][b])
               PROVE  f \in ToSet(wire[a][b]) \/ (a = d /\ f = g)
    BY DEF NewOnly
  <2>1. CASE a = d
    <3>1. wire'[a][b] = Outgoing(d, g)[b]
      BY <1>5, <2>1
    <3> QED BY <1>3, <2>1, <3>1
  <2>2. CASE a # d /\ a = c /\ b = d
    <3>1. wire'[a][b] = Tail(wire[c][d])
      BY <1>5, <2>2
    <3> QED BY <1>2, <2>2, <3>1
  <2>3. CASE a # d /\ ~(a = c /\ b = d)
    <3>1. wire'[a][b] = wire[a][b]
      BY <1>5, <2>3
    <3> QED BY <3>1
  <2> QED BY <2>1, <2>2, <2>3
<1> QED BY <1>4, <1>6

LEMMA ArrivedFacts ==
    ASSUME Typed, NEW c \in Client, NEW d \in Client, NEW type, Arrived(d, c, type),
           NEW f, f = Head(wire[c][d])
    PROVE  /\ wire[c][d] # <<>> /\ f \in FrameOf(sends) /\ f \in ToSet(wire[c][d])
           /\ f.type = type
<1>1. wire[c][d] \in Seq(FrameOf(sends)) /\ wire[c][d] # <<>> /\ f.type = type
  BY DEF Typed, Arrived
<1> QED BY <1>1, TailFacts

-----------------------------------------------------------------------------
(***************************************************************************)
(* What a step must do to each variable for the invariant to be kept.      *)
(***************************************************************************)

MessagesKept ==
    /\ messages' \in [Client -> Seq(Known(sends'))]
    /\ \A c \in Client : ToSet(messages[c]) \subseteq ToSet(messages'[c]) /\ Once(messages'[c])

OffersKept ==
    /\ offers' \in [Client -> Seq(HistoryEvent)]
    /\ \A c \in Client : \A o \in ToSet(offers'[c]) :
           \/ o \in ToSet(offers[c])
           \/ \A d \in Client : o.clientid = d => ToSet(o.sequenceList) \subseteq Sendable(d)

RequestsKept ==
    /\ requests' \in [Client -> Seq(Request)]
    /\ \A c \in Client : Apart(requests'[c])

WireKept ==
    /\ wire' \in [Client -> [Client -> Seq(FrameOf(sends'))]]
    /\ \A c, d \in Client : \A f \in ToSet(wire'[d][c]) :
           f \in ToSet(wire[d][c]) \/ HonestOf(d, f)

CountersKept ==
    /\ member' \in SUBSET Client
    /\ answered' \in SUBSET member' /\ passwordOk' \in SUBSET member'
    /\ sends' \in 0..MaxSends
    /\ clock' = Start + sends'
    /\ leaves' \in 0..MaxLeaves
    /\ answers' \in 0..MaxAnswers

LEMMA Kept ==
    ASSUME HistoryInv, MessagesKept, OffersKept, RequestsKept, WireKept, CountersKept
    PROVE  HistoryInv'
<1>1. Typed'
  BY DEF Typed, MessagesKept, OffersKept, RequestsKept, WireKept, CountersKept
<1>2. ShownOnce' /\ NothingAskedTwice'
  BY InTermsOfListsNext DEF MessagesKept, RequestsKept
<1>3. OffersAreHonest' /\ RequestsAreHonest'
  <2>1. sends' \in Nat /\ sends' <= MaxSends
    BY BoundFacts DEF CountersKept
  <2>2. ASSUME NEW d \in Client
        PROVE  /\ messages[d] \in Seq(Message) /\ messages'[d] \in Seq(Message)
               /\ ToSet(messages[d]) \subseteq ToSet(messages'[d])
    <3>1. messages[d] \in Seq(Message)
      BY TypedFacts DEF HistoryInv
    <3>2. messages'[d] \in Seq(Known(sends'))
      BY DEF MessagesKept
    <3>3. messages'[d] \in Seq(Message)
      BY <2>1, <3>2, KnownFacts, SeqMonotonic
    <3> QED BY <3>1, <3>3 DEF MessagesKept
  <2>3. \A c \in Client : \A o \in ToSet(offers'[c]) :
           \/ o \in ToSet(offers[c])
           \/ \A d \in Client : o.clientid = d => ToSet(o.sequenceList) \subseteq Sendable(d)
    BY DEF OffersKept
  <2>4. \A c, d \in Client : \A f \in ToSet(wire'[d][c]) :
           f \in ToSet(wire[d][c]) \/ HonestOf(d, f)
    BY DEF WireKept
  <2> QED BY <2>2, <2>3, <2>4, StaysHonest DEF HistoryInv
<1> QED BY <1>1, <1>2, <1>3 DEF HistoryInv

LEMMA UnchangedKept ==
    ASSUME HistoryInv, UNCHANGED sends
    PROVE  /\ UNCHANGED messages => MessagesKept
           /\ UNCHANGED offers => OffersKept
           /\ UNCHANGED requests => RequestsKept
           /\ UNCHANGED wire => WireKept
           /\ UNCHANGED <<session, clock, leaves, answers>> => CountersKept
<1>1. /\ \A c \in Client : Once(messages[c]) /\ Apart(requests[c])
      /\ Typed
  BY InTermsOfLists DEF HistoryInv
<1>2. UNCHANGED messages => MessagesKept
  BY <1>1 DEF MessagesKept, Typed
<1>3. UNCHANGED offers => OffersKept
  BY <1>1 DEF OffersKept, Typed
<1>4. UNCHANGED requests => RequestsKept
  BY <1>1 DEF RequestsKept, Typed
<1>5. UNCHANGED wire => WireKept
  BY <1>1 DEF WireKept, Typed
<1>6. UNCHANGED <<session, clock, leaves, answers>> => CountersKept
  BY <1>1 DEF CountersKept, Typed, session
<1> QED BY <1>2, <1>3, <1>4, <1>5, <1>6

LEMMA TakeKeeps ==
    ASSUME HistoryInv, UNCHANGED sends, NEW c \in Client, NEW d \in Client,
           wire[c][d] # <<>>, Take(d, c)
    PROVE  WireKept
<1>1. wire \in [Client -> [Client -> Seq(FrameOf(sends))]]
  BY DEF HistoryInv, Typed
<1>2. wire' \in [Client -> [Client -> Seq(FrameOf(sends))]] /\ NewOnly({})
  BY <1>1, TakeFacts
<1> QED BY <1>2 DEF NewOnly, WireKept

LEMMA TakeAndSendKeeps ==
    ASSUME HistoryInv, UNCHANGED sends, NEW c \in Client, NEW d \in Client,
           wire[c][d] # <<>>, NEW g \in FrameOf(sends), TakeAndSend(d, c, g), HonestOf(d, g)
    PROVE  WireKept
<1>1. wire \in [Client -> [Client -> Seq(FrameOf(sends))]]
  BY DEF HistoryInv, Typed
<1>2. wire' \in [Client -> [Client -> Seq(FrameOf(sends))]] /\ NewOnly({<<d, g>>})
  BY <1>1, TakeAndSendFacts
<1>3. \A a, b \in Client : \A f \in ToSet(wire'[b][a]) :
         f \in ToSet(wire[b][a]) \/ (b = d /\ f = g)
  BY <1>2 DEF NewOnly
<1> QED BY <1>2, <1>3 DEF WireKept

LEMMA SendKeeps ==
    ASSUME HistoryInv, UNCHANGED sends, NEW c \in Client, NEW g \in FrameOf(sends),
           Send(c, g), HonestOf(c, g)
    PROVE  WireKept
<1>1. wire \in [Client -> [Client -> Seq(FrameOf(sends))]]
  BY DEF HistoryInv, Typed
<1>2. wire' \in [Client -> [Client -> Seq(FrameOf(sends))]] /\ NewOnly({<<c, g>>})
  BY <1>1, SendFacts
<1>3. \A a, b \in Client : \A f \in ToSet(wire'[b][a]) :
         f \in ToSet(wire[b][a]) \/ (b = c /\ f = g)
  BY <1>2 DEF NewOnly
<1> QED BY <1>2, <1>3 DEF WireKept

-----------------------------------------------------------------------------
(***************************************************************************)
(* Each action keeps the invariant.                                        *)
(***************************************************************************)

\* What a session's answers change of it.
LEMMA SessionKept ==
    ASSUME HistoryInv, UNCHANGED <<clock, sends, leaves>>,
           member' \in SUBSET Client, answered' \in SUBSET member',
           passwordOk' \in SUBSET member',
           \/ answers' = answers
           \/ answers < MaxAnswers /\ answers' = answers + 1
    PROVE  CountersKept
<1>1. Typed
  BY DEF HistoryInv
<1>2. answers' \in 0..MaxAnswers
  BY <1>1, BoundFacts DEF Typed
<1> QED BY <1>1, <1>2 DEF CountersKept, Typed

LEMMA GivePasswordKeeps ==
    ASSUME HistoryInv, NEW c \in Client, GivePassword(c)
    PROVE  HistoryInv'
<1>1. /\ UNCHANGED <<messages, offers, requests, wire, clock, sends, leaves>>
      /\ member' = member \cup {c} /\ answered' = answered \cup {c}
      /\ UNCHANGED passwordOk
      /\ answers < MaxAnswers /\ answers' = answers + 1
  BY DEF GivePassword
<1>2. /\ member' \in SUBSET Client
      /\ answered' \in SUBSET member' /\ passwordOk' \in SUBSET member'
  BY <1>1 DEF HistoryInv, Typed
<1>3. CountersKept
  BY <1>1, <1>2, SessionKept
<1> QED BY <1>1, <1>3, Kept, UnchangedKept

LEMMA PasswordOkKeeps ==
    ASSUME HistoryInv, NEW c \in Client, PasswordOk(c)
    PROVE  HistoryInv'
<1> DEFINE f == [type |-> "init"]
<1>1. /\ UNCHANGED <<messages, offers, requests, clock, sends, leaves>>
      /\ c \in answered /\ answered' = answered \ {c}
      /\ passwordOk' = passwordOk \cup {c}
      /\ UNCHANGED <<member, answers>>
      /\ Send(c, f)
  BY DEF PasswordOk, counters
<1>2. f \in FrameOf(sends) /\ HonestOf(c, f)
  BY DEF FrameOf, HonestOf
<1> HIDE DEF f
<1>3. WireKept
  BY <1>1, <1>2, SendKeeps
<1>4. /\ member' \in SUBSET Client
      /\ answered' \in SUBSET member' /\ passwordOk' \in SUBSET member'
  BY <1>1 DEF HistoryInv, Typed
<1>5. CountersKept
  BY <1>1, <1>4, SessionKept
<1> QED BY <1>1, <1>3, <1>5, Kept, UnchangedKept

LEMMA PasswordWrongKeeps ==
    ASSUME HistoryInv, NEW c \in Client, PasswordWrong(c)
    PROVE  HistoryInv'
<1>1. /\ UNCHANGED <<messages, offers, requests, wire, clock, sends, leaves>>
      /\ passwordOk' = passwordOk \ {c}
      /\ UNCHANGED <<member, answered>>
      /\ answers < MaxAnswers /\ answers' = answers + 1
  BY DEF PasswordWrong
<1>2. /\ member' \in SUBSET Client
      /\ answered' \in SUBSET member' /\ passwordOk' \in SUBSET member'
  BY <1>1 DEF HistoryInv, Typed
<1>3. CountersKept
  BY <1>1, <1>2, SessionKept
<1> QED BY <1>1, <1>3, Kept, UnchangedKept

\* What remains of a list that loses its last k elements, or all.
LEMMA PrefixFacts ==
    ASSUME NEW F, NEW s \in Seq(F), NEW k \in Nat
    PROVE  /\ SubSeq(s, 1, Len(s) - k) \in Seq(F)
           /\ ToSet(SubSeq(s, 1, Len(s) - k)) \subseteq ToSet(s)
<1> DEFINE n == Len(s) - k
           p == SubSeq(s, 1, n)
<1>1. DOMAIN s = 1..Len(s) /\ Len(s) \in Nat /\ \A i \in 1..Len(s) : s[i] \in F
  BY LenProperties
<1>2. n \in Int /\ n <= Len(s)
  BY <1>1
<1> HIDE DEF n
<1>3. /\ p \in Seq(F)
      /\ \A i \in 1..Len(p) : i \in 1..Len(s) /\ p[i] = s[i]
  <2>1. \A i \in 1..n : i \in 1..Len(s)
    BY <1>1, <1>2
  <2>2. CASE n >= 1
    <3>1. n \in 1..Len(s) /\ 1 \in 1..(Len(s) + 1)
      BY <1>1, <1>2, <2>2
    <3>2. /\ p \in Seq(F) /\ Len(p) = n /\ \A i \in 1..n : p[i] = s[i]
      BY <1>1, <1>2, <2>1, <2>2
    <3> QED BY <2>1, <3>2
  <2>3. CASE n < 1
    <3>1. p = <<>>
      BY <1>1, <1>2, <2>3
    <3> HIDE DEF p
    <3>2. p \in Seq(F) /\ Len(p) = 0
      BY <3>1, EmptySeq
    <3> QED BY <3>2
  <2> QED BY <1>2, <2>2, <2>3
<1> HIDE DEF p
<1>4. DOMAIN p = 1..Len(p)
  BY <1>3, LenProperties
<1>5. ToSet(p) \subseteq ToSet(s)
  BY <1>1, <1>3, <1>4 DEF ToSet
<1> QED BY <1>3, <1>5 DEF p, n

LEMMA LeaveKeeps ==
    ASSUME HistoryInv, NEW c \in Client, Leave(c)
    PROVE  HistoryInv'
<1>1. /\ UNCHANGED <<messages, offers, requests, clock, sends, answers>>
      /\ member' = member \ {c} /\ answered' = answered \ {c}
      /\ passwordOk' = passwordOk \ {c}
      /\ leaves < MaxLeaves /\ leaves' = leaves + 1
  BY DEF Leave
<1>2. wire \in [Client -> [Client -> Seq(FrameOf(sends))]] /\ Typed
  BY DEF HistoryInv, Typed
<1>3. \A d \in Client : wire[c][d] \in Seq(FrameOf(sends)) /\ Len(wire[c][d]) \in Nat
  BY <1>2, LenProperties
<1>4. PICK k \in UNION {0..Len(wire[c][d]) : d \in Client} :
         wire' = [wire EXCEPT ![c] = [d \in Client |->
                     SubSeq(wire[c][d], 1, Len(wire[c][d]) - k)]]
  BY DEF Leave
<1>5. k \in Nat
  BY <1>3
<1> DEFINE left == [d \in Client |-> SubSeq(wire[c][d], 1, Len(wire[c][d]) - k)]
<1>6. /\ left \in [Client -> Seq(FrameOf(sends))]
      /\ \A d \in Client : ToSet(left[d]) \subseteq ToSet(wire[c][d])
  BY <1>3, <1>5, PrefixFacts
<1>7. wire' = [wire EXCEPT ![c] = left]
  BY <1>4
<1> HIDE DEF left
<1>8. WireKept
  <2>1. wire' \in [Client -> [Client -> Seq(FrameOf(sends))]]
    BY <1>2, <1>6, <1>7
  <2>2. \A a, b \in Client : wire'[b][a] = IF b = c THEN left[a] ELSE wire[b][a]
    BY <1>2, <1>7
  <2>3. \A a, b \in Client : ToSet(wire'[b][a]) \subseteq ToSet(wire[b][a])
    <3> SUFFICES ASSUME NEW a \in Client, NEW b \in Client
                 PROVE  ToSet(wire'[b][a]) \subseteq ToSet(wire[b][a])
      OBVIOUS
    <3>1. CASE b = c
      <4>1. wire'[b][a] = left[a] /\ wire[b][a] = wire[c][a]
        BY <2>2, <3>1
      <4>2. ToSet(left[a]) \subseteq ToSet(wire[c][a])
        BY <1>6
      <4> QED BY <4>1, <4>2
    <3>2. CASE b # c
      <4>1. wire'[b][a] = wire[b][a]
        BY <2>2, <3>2
      <4> QED BY <4>1
    <3> QED BY <3>1, <3>2
  <2> QED BY <1>1, <2>1, <2>3 DEF WireKept
<1>9. CountersKept
  <2>1. leaves' \in 0..MaxLeaves
    BY <1>1, <1>2, BoundFacts DEF Typed
  <2> QED BY <1>1, <1>2, <2>1 DEF CountersKept, Typed
<1> QED BY <1>1, <1>8, <1>9, Kept, UnchangedKept

\* A new message has a sequence and a time that are possible once it is sent.
LEMMA SendTextKeeps ==
    ASSUME HistoryInv, NEW c \in Client, SendText(c)
    PROVE  HistoryInv'
<1> DEFINE m == [sequence |-> NextSequence(messages[c]), timems |-> clock + 1, clientid |-> c]
           f == [type |-> "msg", msg |-> m]
           n == sends + 1
<1>1. /\ sends < MaxSends /\ sends' = n /\ clock' = clock + 1
      /\ messages' = [messages EXCEPT ![c] = AddMessage(messages[c], m)]
      /\ Send(c, f)
      /\ UNCHANGED <<offers, requests, session, leaves, answers>>
  BY DEF SendText
<1>2. Typed /\ \A d \in Client : Once(messages[d]) /\ Apart(requests[d])
  BY InTermsOfLists DEF HistoryInv
<1>3. sends \in Nat /\ n \in Nat /\ n \in 0..MaxSends /\ sends <= n
  BY <1>1, <1>2, BoundFacts DEF Typed
<1>4. /\ Known(sends) \subseteq Known(n)
      /\ FrameOf(sends) \subseteq FrameOf(n)
  BY <1>3, KnownFacts
<1>5. NextSequence(messages[c]) \in SequencesOf(n)
  <2>1. \A x \in ToSet(messages[c]) : x.sequence \in SequencesOf(sends)
    <3>1. messages[c] \in Seq(Known(sends))
      BY <1>2, TypedFacts
    <3>2. \A x \in ToSet(messages[c]) : x \in Known(sends)
      BY <3>1, LenProperties DEF ToSet
    <3> QED BY <3>2 DEF Known
  <2>2. messages[c] \in Seq(Message)
    BY <1>2, TypedFacts
  <2> QED BY <1>3, <2>1, <2>2, NextSequenceFacts
<1>6. clock' = Start + n
  BY <1>1, <1>2, <1>3, StartIsNat DEF Typed
<1>7. m \in Known(n)
  <2>1. clock + 1 = Start + n
    BY <1>1, <1>6
  <2>2. n \in 1..n
    BY <1>3
  <2>3. clock + 1 \in {Start + k : k \in 1..n}
    BY <2>1, <2>2
  <2> QED BY <1>5, <2>3 DEF Known
<1>8. f \in FrameOf(n) /\ f.type = "msg"
  BY <1>7 DEF FrameOf
<1> HIDE DEF m, f, n
<1>9. \A d \in Client : messages[d] \in Seq(Known(n))
  <2>1. \A d \in Client : messages[d] \in Seq(Known(sends))
    BY <1>2, TypedFacts
  <2> QED BY <1>4, <2>1, SeqMonotonic
<1>10. MessagesKept
  <2>1. /\ AddMessage(messages[c], m) \in Seq(Known(n))
        /\ ToSet(messages[c]) \subseteq ToSet(AddMessage(messages[c], m))
        /\ Once(AddMessage(messages[c], m))
    BY <1>2, <1>7, <1>9, AddMessageFacts
  <2>2. messages \in [Client -> Seq(Known(n))]
    BY <1>2, <1>9 DEF Typed
  <2>3. \A d \in Client :
            messages'[d] = IF d = c THEN AddMessage(messages[c], m) ELSE messages[d]
    BY <1>1, <2>2
  <2>4. messages' \in [Client -> Seq(Known(n))]
    BY <1>1, <2>1, <2>2
  <2>5. ASSUME NEW d \in Client
        PROVE  ToSet(messages[d]) \subseteq ToSet(messages'[d]) /\ Once(messages'[d])
    <3>1. CASE d = c
      BY <2>1, <2>3, <3>1
    <3>2. CASE d # c
      BY <1>2, <2>3, <3>2
    <3> QED BY <3>1, <3>2
  <2> QED BY <1>1, <2>4, <2>5 DEF MessagesKept
<1>11. WireKept
  <2>1. wire \in [Client -> [Client -> Seq(FrameOf(n))]]
    <3>1. Seq(FrameOf(sends)) \subseteq Seq(FrameOf(n))
      BY <1>4, SeqMonotonic
    <3>2. wire \in [Client -> [Client -> Seq(FrameOf(sends))]]
      BY <1>2 DEF Typed
    <3> QED BY <3>1, <3>2
  <2>2. wire' \in [Client -> [Client -> Seq(FrameOf(n))]] /\ NewOnly({<<c, f>>})
    BY <1>1, <1>8, <2>1, SendFacts
  <2>3. \A a, b \in Client : \A g \in ToSet(wire'[b][a]) :
           g \in ToSet(wire[b][a]) \/ (b = c /\ g = f)
    BY <2>2 DEF NewOnly
  <2> QED BY <1>1, <1>8, <2>2, <2>3 DEF WireKept, HonestOf
<1>12. OffersKept /\ RequestsKept
  BY <1>1, <1>2 DEF OffersKept, RequestsKept, Typed
<1>13. CountersKept
  BY <1>1, <1>2, <1>3, <1>6 DEF CountersKept, Typed, session
<1> QED BY <1>10, <1>11, <1>12, <1>13, Kept

LEMMA ReceiveTextKeeps ==
    ASSUME HistoryInv, NEW c \in Client, NEW d \in Client, ReceiveText(d, c)
    PROVE  HistoryInv'
<1> DEFINE f == Head(wire[c][d])
<1>1. /\ Arrived(d, c, "msg")
      /\ messages' = [messages EXCEPT ![d] = AddMessage(messages[d], f.msg)]
      /\ Take(d, c)
      /\ UNCHANGED <<offers, requests, session, clock, sends, leaves, answers>>
  BY DEF ReceiveText, counters
<1>2. Typed /\ \A a \in Client : Once(messages[a])
  BY InTermsOfLists DEF HistoryInv
<1>3. wire[c][d] # <<>> /\ f \in FrameOf(sends) /\ f.type = "msg"
  BY <1>1, <1>2, ArrivedFacts
<1> HIDE DEF f
<1>4. f.msg \in Known(sends)
  BY <1>2, <1>3, TypedFacts, FrameFacts
<1>5. WireKept
  BY <1>1, <1>3, TakeKeeps
<1>6. MessagesKept
  <2> DEFINE ms == AddMessage(messages[d], f.msg)
  <2>1. messages[d] \in Seq(Known(sends)) /\ messages \in [Client -> Seq(Known(sends))]
    BY <1>2, TypedFacts DEF Typed
  <2>2. ms \in Seq(Known(sends)) /\ ToSet(messages[d]) \subseteq ToSet(ms) /\ Once(ms)
    BY <1>2, <1>4, <2>1, AddMessageFacts
  <2> HIDE DEF ms
  <2>3. messages' = [messages EXCEPT ![d] = ms]
    BY <1>1 DEF ms
  <2>4. messages' \in [Client -> Seq(Known(sends))]
    BY <2>1, <2>2, <2>3
  <2>5. ASSUME NEW a \in Client
        PROVE  ToSet(messages[a]) \subseteq ToSet(messages'[a]) /\ Once(messages'[a])
    <3>1. CASE a = d
      BY <2>1, <2>2, <2>3, <3>1
    <3>2. CASE a # d
      BY <1>2, <2>1, <2>3, <3>2
    <3> QED BY <3>1, <3>2
  <2> QED BY <1>1, <2>4, <2>5 DEF MessagesKept
<1> QED BY <1>1, <1>5, <1>6, Kept, UnchangedKept

LEMMA SendStatusResponseKeeps ==
    ASSUME HistoryInv, NEW c \in Client, NEW d \in Client, SendStatusResponse(d, c)
    PROVE  HistoryInv'
<1> DEFINE o == GetSequences(messages[d])
           g == [type |-> "response", offer |-> o]
<1>1. /\ Arrived(d, c, "init")
      /\ \/ messages[d] = <<>> /\ Take(d, c)
         \/ messages[d] # <<>> /\ TakeAndSend(d, c, g)
      /\ UNCHANGED <<messages, offers, requests, session, clock, sends, leaves, answers>>
  BY DEF SendStatusResponse, counters
<1>2. wire[c][d] # <<>>
  BY <1>1 DEF Arrived
<1>3. CASE messages[d] = <<>> /\ Take(d, c)
  <2>1. WireKept
    BY <1>1, <1>2, <1>3, TakeKeeps
  <2> QED BY <1>1, <2>1, Kept, UnchangedKept
<1>4. CASE messages[d] # <<>> /\ TakeAndSend(d, c, g)
  <2>1. o \in Offer /\ ToSet(ExpandSequences[o]) \subseteq Sendable(d)
    <3>1. messages[d] \in Seq(Message)
      BY TypedFacts DEF HistoryInv
    <3> QED BY <1>4, <3>1, HonestOffer DEF Sendable
  <2> HIDE DEF o
  <2>2. g \in FrameOf(sends) /\ HonestOf(d, g)
    BY <2>1 DEF FrameOf, HonestOf
  <2> HIDE DEF g
  <2>3. WireKept
    BY <1>1, <1>2, <1>4, <2>2, TakeAndSendKeeps
  <2> QED BY <1>1, <2>3, Kept, UnchangedKept
<1> QED BY <1>1, <1>3, <1>4

\* Lists for the clients S that share nothing, nor have anything of what c is
\* waiting for; and the requests of c once it has asked for them.
NewLists(c, S, get) ==
    /\ S \in SUBSET Client /\ get \in [S -> Lists]
    /\ \A a, b \in S : a # b => ToSet(get[a]) \cap ToSet(get[b]) = {}
    /\ \A a \in S : ToSet(get[a]) \cap Wanted(requests[c]) = {}

LEMMA AskedKeeps ==
    ASSUME HistoryInv, NEW c \in Client, NEW S, NEW get, NewLists(c, S, get),
           requests' = [requests EXCEPT ![c] = Asked(c, get)]
    PROVE  RequestsKept
<1>1. requests \in [Client -> Seq(Request)] /\ \A a \in Client : Apart(requests[a])
  BY InTermsOfLists DEF HistoryInv, Typed
<1> DEFINE rs == Asked(c, get)
<1>2. rs \in Seq(Request) /\ Apart(rs)
  BY <1>1, AskedFacts DEF NewLists
<1> HIDE DEF rs
<1>3. requests' = [requests EXCEPT ![c] = rs]
  BY DEF rs
<1>4. requests' \in [Client -> Seq(Request)]
  BY <1>1, <1>2, <1>3
<1>5. \A a \in Client : requests'[a] = IF a = c THEN rs ELSE requests[a]
  BY <1>1, <1>3
<1>6. ASSUME NEW a \in Client PROVE Apart(requests'[a])
  <2>1. CASE a = c
    BY <1>2, <1>5, <2>1
  <2>2. CASE a # c
    BY <1>1, <1>5, <2>2
  <2> QED BY <2>1, <2>2
<1> QED BY <1>4, <1>6 DEF RequestsKept

LEMMA RequestFrame ==
    ASSUME NEW n \in Nat, NEW S \in SUBSET Client, NEW get \in [S -> Lists]
    PROVE  [type |-> "request", get |-> get] \in FrameOf(n)
<1>1. [type |-> "request", get |-> get] \in [type : {"request"}, get : [S -> Lists]]
  OBVIOUS
<1> QED BY <1>1 DEF FrameOf

LEMMA ReceiveStatusResponseKeeps ==
    ASSUME HistoryInv, NEW c \in Client, NEW d \in Client, ReceiveStatusResponse(d, c)
    PROVE  HistoryInv'
<1> DEFINE f == Head(wire[c][d])
           offered == ExpandSequences[f.offer]
           list == ConsiderOffer(d, offered)
           get == [id \in {c} |-> list]
           g == [type |-> "request", get |-> get]
<1>1. /\ Arrived(d, c, "response")
      /\ offers' = [offers EXCEPT ![d] = WithOffer(d, c, offered)]
      /\ \/ list = <<>> /\ Take(d, c) /\ UNCHANGED requests
         \/ /\ TakeAndSend(d, c, g)
            /\ requests' = [requests EXCEPT ![d] = Asked(d, get)]
      /\ UNCHANGED <<messages, session, clock, sends, leaves, answers>>
  BY DEF ReceiveStatusResponse, counters
<1>2. Typed /\ sends \in Nat
  BY TypedFacts DEF HistoryInv
<1>3. /\ wire[c][d] # <<>> /\ f \in FrameOf(sends) /\ f.type = "response"
      /\ f \in ToSet(wire[c][d])
  BY <1>1, <1>2, ArrivedFacts
<1> HIDE DEF f
<1>4. ToSet(offered) \subseteq Sendable(c)
  BY <1>3, HonestFrames DEF HistoryInv, HonestOf
<1>5. offered \in Lists
  <2>1. f.offer \in Offer
    BY <1>2, <1>3, FrameFacts
  <2>2. messages[c] \in Seq(Message)
    BY <1>2, TypedFacts
  <2>3. ToSet(offered) \subseteq Sequence
    BY <1>4, <2>2, ListOfSequences DEF Sendable
  <2> QED BY <2>1, <2>3, ExpandIsList
<1> HIDE DEF offered
<1>6. /\ list \in Lists /\ ToSet(list) \cap Wanted(requests[d]) = {}
      /\ ToSet(list) \subseteq Sendable(c)
  <2>1. messages[d] \in Seq(Message) /\ requests[d] \in Seq(Request)
    BY <1>2, TypedFacts
  <2> QED BY <1>4, <1>5, <2>1, ConsiderOfferFacts
<1> HIDE DEF list
<1>7. get \in [{c} -> Lists] /\ get[c] = list
  BY <1>6
<1> HIDE DEF get
<1>8. g \in FrameOf(sends) /\ HonestOf(d, g)
  <2>1. \A e \in DOMAIN get : ToSet(get[e]) \subseteq Sendable(e)
    BY <1>6, <1>7
  <2> QED BY <1>2, <1>7, <2>1, RequestFrame DEF HonestOf
<1> HIDE DEF g
<1>9. WireKept
  <2>1. CASE Take(d, c)
    BY <1>1, <1>3, <2>1, TakeKeeps
  <2>2. CASE TakeAndSend(d, c, g)
    BY <1>1, <1>3, <1>8, <2>2, TakeAndSendKeeps
  <2> QED BY <1>1, <2>1, <2>2
<1>10. RequestsKept
  <2>1. CASE UNCHANGED requests
    BY <1>1, <2>1, UnchangedKept
  <2>2. CASE requests' = [requests EXCEPT ![d] = Asked(d, get)]
    <3>1. NewLists(d, {c}, get)
      BY <1>6, <1>7 DEF NewLists
    <3> QED BY <2>2, <3>1, AskedKeeps
  <2> QED BY <1>1, <2>1, <2>2
<1>11. OffersKept
  <2> DEFINE o == [clientid |-> c, sequenceList |-> offered]
             os == Append(offers[d], o)
  <2>1. o \in HistoryEvent
    BY <1>5 DEF HistoryEvent
  <2>2. offers \in [Client -> Seq(HistoryEvent)] /\ offers[d] \in Seq(HistoryEvent)
    BY <1>2 DEF Typed
  <2>3. \A a \in Client : o.clientid = a => ToSet(o.sequenceList) \subseteq Sendable(a)
    BY <1>4
  <2>4. offers' = [offers EXCEPT ![d] = os]
    BY <1>1 DEF WithOffer
  <2> HIDE DEF o
  <2>5. os \in Seq(HistoryEvent) /\ ToSet(os) \subseteq ToSet(offers[d]) \cup {o}
    BY <2>1, <2>2, AppendFacts
  <2> HIDE DEF os
  <2>6. offers' \in [Client -> Seq(HistoryEvent)]
    BY <2>2, <2>4, <2>5
  <2>7. ASSUME NEW a \in Client, NEW p \in ToSet(offers'[a])
        PROVE  p \in ToSet(offers[a]) \/ p = o
    <3>1. CASE a = d
      <4>1. offers'[a] = os
        BY <2>2, <2>4, <3>1
      <4> QED BY <2>5, <3>1, <4>1
    <3>2. CASE a # d
      BY <2>2, <2>4, <3>2
    <3> QED BY <3>1, <3>2
  <2> QED BY <2>3, <2>6, <2>7 DEF OffersKept
<1> QED BY <1>1, <1>9, <1>10, <1>11, Kept, UnchangedKept

LEMMA ScheduleRequestKeeps ==
    ASSUME HistoryInv, NEW c \in Client, ScheduleRequest(c)
    PROVE  HistoryInv'
<1> DEFINE total == Collect(c)
           get == Get(total)
           S == DOMAIN get
           g == [type |-> "request", get |-> get]
<1>1. /\ Send(c, g)
      /\ requests' = [requests EXCEPT ![c] = Asked(c, get)]
      /\ UNCHANGED <<messages, offers, session, clock, sends, leaves, answers>>
  BY DEF ScheduleRequest, counters
<1>2. Typed /\ sends \in Nat
  BY TypedFacts DEF HistoryInv
<1>3. /\ total \in Seq(HistoryEvent) /\ Apart(total)
      /\ Wanted(total) \cap Wanted(requests[c]) = {}
      /\ \A r \in ToSet(total) : Honest(r)
  <2>1. total \in Collected(c)
    BY <1>2, TypedFacts, HonestEvents, CollectFacts DEF HistoryInv
  <2> QED BY <2>1 DEF Collected
<1> HIDE DEF total
<1>4. /\ S \in SUBSET Client /\ get \in [S -> Lists]
      /\ \A a \in S : ToSet(get[a]) \subseteq Wanted(total)
      /\ \A a, b \in S : a # b => ToSet(get[a]) \cap ToSet(get[b]) = {}
      /\ \A a \in S : ToSet(get[a]) \subseteq Sendable(a)
  BY <1>3, GetFacts DEF Sendable
<1> HIDE DEF get, S
<1>5. RequestsKept
  <2>1. NewLists(c, S, get)
    BY <1>3, <1>4 DEF NewLists
  <2> QED BY <1>1, <2>1, AskedKeeps
<1>6. g \in FrameOf(sends) /\ HonestOf(c, g)
  <2>1. DOMAIN get = S
    BY <1>4
  <2> QED BY <1>2, <1>4, <2>1, RequestFrame DEF HonestOf
<1> HIDE DEF g
<1>7. WireKept
  BY <1>1, <1>6, SendKeeps
<1> QED BY <1>1, <1>5, <1>7, Kept, UnchangedKept

LEMMA SendHistoryKeeps ==
    ASSUME HistoryInv, NEW c \in Client, NEW d \in Client, SendHistory(d, c)
    PROVE  HistoryInv'
<1> DEFINE f == Head(wire[c][d])
           get == f.get
           held == ToSet(Sequences(messages[d]))
           canSend == LatestFirst[ArrayIntersect[get[d]][held]]
           bulk == [i \in DOMAIN canSend |-> GetMessage(messages[d], canSend[i])]
           g == [type |-> "bulk", messages |-> bulk]
<1>1. /\ Arrived(d, c, "request")
      /\ \/ d \in DOMAIN get /\ TakeAndSend(d, c, g)
         \/ Take(d, c)
      /\ UNCHANGED <<messages, offers, requests, session, clock, sends, leaves, answers>>
  BY DEF SendHistory, counters
<1>2. Typed /\ sends \in Nat
  BY TypedFacts DEF HistoryInv
<1>3. wire[c][d] # <<>> /\ f \in FrameOf(sends) /\ f.type = "request"
  <2> HIDE DEF g
  <2> QED BY <1>1, <1>2, ArrivedFacts
<1> HIDE DEF f
<1>4. CASE Take(d, c)
  <2>1. WireKept
    BY <1>1, <1>3, <1>4, TakeKeeps
  <2> QED BY <1>1, <2>1, Kept, UnchangedKept
<1>5. CASE d \in DOMAIN get /\ TakeAndSend(d, c, g)
  <2>1. PICK S \in SUBSET Client : get \in [S -> Lists]
    BY <1>2, <1>3, FrameFacts
  <2>2. get[d] \in Lists
    BY <1>5, <2>1
  <2>3. messages[d] \in Seq(Message) /\ messages[d] \in Seq(Known(sends))
    BY <1>2, TypedFacts
  <2>4. held \in SUBSET Sequence
    BY <2>3, ListOfSequences
  <2>5. canSend \in Lists /\ ToSet(canSend) \subseteq held
    <3> HIDE DEF held, get
    <3> DEFINE both == ArrayIntersect[get[d]][held]
    <3>1. both \in Lists /\ ToSet(both) \subseteq held
      BY <2>2, <2>4, ArrayIntersectFacts
    <3> HIDE DEF both
    <3>2. LatestFirst[both] \in Lists /\ ToSet(LatestFirst[both]) \subseteq ToSet(both)
      BY <3>1, LatestFirstFacts
    <3> QED BY <3>1, <3>2 DEF both
  <2> HIDE DEF canSend
  <2>6. bulk \in Seq(Known(sends))
    <3>1. DOMAIN canSend = 1..Len(canSend) /\ Len(canSend) \in Nat
      BY <2>5, ListsFacts
    <3>2. ASSUME NEW i \in 1..Len(canSend)
          PROVE  GetMessage(messages[d], canSend[i]) \in Known(sends)
      <4>1. canSend[i] \in held
        BY <2>5, <3>1 DEF ToSet
      <4>2. GetMessage(messages[d], canSend[i]) \in ToSet(messages[d])
        BY <2>3, <4>1, GetMessageFacts
      <4>3. \A m \in ToSet(messages[d]) : m \in Known(sends)
        BY <2>3, LenProperties DEF ToSet
      <4> QED BY <4>2, <4>3
    <3> QED BY <3>1, <3>2, IsASeq
  <2> HIDE DEF bulk
  <2>7. g \in FrameOf(sends) /\ HonestOf(d, g)
    BY <2>6 DEF FrameOf, HonestOf
  <2> HIDE DEF g
  <2>8. WireKept
    BY <1>1, <1>3, <1>5, <2>7, TakeAndSendKeeps
  <2> QED BY <1>1, <2>8, Kept, UnchangedKept
<1> QED BY <1>1, <1>4, <1>5

LEMMA ReceiveBulkHistoryKeeps ==
    ASSUME HistoryInv, NEW c \in Client, NEW d \in Client, ReceiveBulkHistory(d, c)
    PROVE  HistoryInv'
<1> DEFINE f == Head(wire[c][d])
           ms == AddAll(messages[d], f.messages)
<1>1. /\ Arrived(d, c, "bulk")
      /\ messages' = [messages EXCEPT ![d] = ms]
      /\ Take(d, c)
      /\ UNCHANGED <<offers, requests, session, clock, sends, leaves, answers>>
  BY DEF ReceiveBulkHistory, counters
<1>2. Typed /\ sends \in Nat /\ \A a \in Client : Once(messages[a])
  BY InTermsOfLists, TypedFacts DEF HistoryInv
<1>3. wire[c][d] # <<>> /\ f \in FrameOf(sends) /\ f.type = "bulk"
  BY <1>1, <1>2, ArrivedFacts
<1> HIDE DEF f
<1>4. f.messages \in Seq(Known(sends))
  BY <1>2, <1>3, FrameFacts
<1>5. WireKept
  BY <1>1, <1>3, TakeKeeps
<1>6. MessagesKept
  <2>1. messages[d] \in Seq(Known(sends)) /\ messages \in [Client -> Seq(Known(sends))]
    BY <1>2, TypedFacts DEF Typed
  <2>2. ms \in Seq(Known(sends)) /\ ToSet(messages[d]) \subseteq ToSet(ms) /\ Once(ms)
    BY <1>2, <1>4, <2>1, BulkFacts
  <2> HIDE DEF ms
  <2>3. messages' \in [Client -> Seq(Known(sends))]
    BY <1>1, <2>1, <2>2
  <2>4. ASSUME NEW a \in Client
        PROVE  ToSet(messages[a]) \subseteq ToSet(messages'[a]) /\ Once(messages'[a])
    <3>1. CASE a = d
      BY <1>1, <2>1, <2>2, <3>1
    <3>2. CASE a # d
      BY <1>1, <1>2, <2>1, <3>2
    <3> QED BY <3>1, <3>2
  <2> QED BY <1>1, <2>3, <2>4 DEF MessagesKept
<1> QED BY <1>1, <1>5, <1>6, Kept, UnchangedKept

LEMMA LoseKeeps ==
    ASSUME HistoryInv, NEW c \in Client, NEW d \in Client, Lose(d, c)
    PROVE  HistoryInv'
<1>1. /\ wire[c][d] # <<>> /\ Take(d, c)
      /\ UNCHANGED <<messages, offers, requests, session, clock, sends, leaves, answers>>
  BY DEF Lose, counters
<1>2. WireKept
  BY <1>1, TakeKeeps
<1> QED BY <1>1, <1>2, Kept, UnchangedKept

LEMMA IgnoreKeeps ==
    ASSUME HistoryInv, NEW c \in Client, NEW d \in Client, Ignore(d, c)
    PROVE  HistoryInv'
<1>1. /\ wire[c][d] # <<>> /\ Take(d, c)
      /\ UNCHANGED <<messages, offers, requests, session, clock, sends, leaves, answers>>
  BY DEF Ignore, counters
<1>2. WireKept
  BY <1>1, TakeKeeps
<1> QED BY <1>1, <1>2, Kept, UnchangedKept

LEMMA TickKeeps ==
    ASSUME HistoryInv, Tick
    PROVE  HistoryInv'
<1>1. /\ requests' = [c \in Client |-> Outstanding(requests[c])]
      /\ UNCHANGED <<messages, offers, session, wire, clock, sends, leaves, answers>>
  BY DEF Tick, counters
<1>2. RequestsKept
  <2>1. \A c \in Client : requests[c] \in Seq(Request) /\ Apart(requests[c])
    BY InTermsOfLists DEF HistoryInv, Typed
  <2>2. \A c \in Client : /\ Outstanding(requests[c]) \in Seq(Request)
                          /\ Apart(Outstanding(requests[c]))
    BY <2>1, OutstandingFacts
  <2> QED BY <1>1, <2>2 DEF RequestsKept
<1> QED BY <1>1, <1>2, Kept, UnchangedKept

-----------------------------------------------------------------------------

LEMMA InitHolds == Init => HistoryInv
<1> SUFFICES ASSUME Init PROVE HistoryInv
  OBVIOUS
<1>1. \A s : s = <<>> => ToSet(s) = {} /\ DOMAIN s = {}
  BY DEF ToSet
<1>2. messages \in [Client -> Seq(Known(0))]
  <2> SUFFICES ASSUME NEW c \in Client PROVE Begin[c] \in Seq(Known(0))
    BY BeginType DEF Init
  <2> DEFINE b == Begin[c]
             M == [sequence : Nat \ {0}, timems : Nat, clientid : Client]
  <2>1. b \in Seq(M)
    BY BeginType
  <2>2. ASSUME NEW m \in ToSet(b) PROVE m \in Known(0)
    <3>1. PICK i \in DOMAIN b : m = b[i]
      BY DEF ToSet
    <3>2. m \in M
      <4> HIDE DEF b, M
      <4> QED BY <2>1, <3>1, LenProperties
    <3>3. m.sequence \in Held
      BY DEF Held
    <3>4. m.timems \in Times
      BY DEF Times
    <3>5. m.sequence \in SequencesOf(0)
      BY <3>3 DEF SequencesOf
    <3> QED BY <3>2, <3>4, <3>5 DEF Known
  <2> HIDE DEF b, M
  <2>3. DOMAIN b = 1..Len(b) /\ Len(b) \in Nat /\ b = [i \in 1..Len(b) |-> b[i]]
    BY <2>1, LenProperties
  <2>4. \A i \in 1..Len(b) : b[i] \in Known(0)
    BY <2>2, <2>3 DEF ToSet
  <2>5. b \in Seq(Known(0))
    BY <2>3, <2>4, IsASeq
  <2> QED BY <2>5 DEF b
<1>3. Typed
  <2>1. /\ offers \in [Client -> Seq(HistoryEvent)]
        /\ requests \in [Client -> Seq(Request)]
        /\ wire \in [Client -> [Client -> Seq(FrameOf(0))]]
    BY EmptySeq DEF Init
  <2>2. sends = 0 /\ leaves = 0 /\ answers = 0 /\ clock = Start + sends
    BY StartIsNat DEF Init
  <2>3. member \in SUBSET Client /\ answered \in SUBSET member /\ passwordOk \in SUBSET member
    BY DEF Init
  <2> QED BY <1>2, <2>1, <2>2, <2>3, BoundFacts DEF Typed
<1>4. ShownOnce
  BY BeginHeldOnce DEF Init, ShownOnce
<1>5. OffersAreHonest
  BY <1>1 DEF Init, OffersAreHonest
<1>6. RequestsAreHonest
  BY <1>1 DEF Init, RequestsAreHonest
<1>7. NothingAskedTwice
  BY <1>1 DEF Init, NothingAskedTwice
<1> QED BY <1>3, <1>4, <1>5, <1>6, <1>7 DEF HistoryInv

LEMMA NextHolds == HistoryInv /\ [Next]_vars => HistoryInv'
<1> SUFFICES ASSUME HistoryInv, [Next]_vars PROVE HistoryInv'
  OBVIOUS
<1>1. CASE UNCHANGED vars
  BY <1>1, Kept, UnchangedKept DEF vars, counters
<1>2. CASE \E c \in Client :
              \/ GivePassword(c) \/ PasswordOk(c) \/ PasswordWrong(c) \/ Leave(c)
              \/ SendText(c) \/ ScheduleRequest(c)
  BY <1>2, GivePasswordKeeps, PasswordOkKeeps, PasswordWrongKeeps, LeaveKeeps,
     SendTextKeeps, ScheduleRequestKeeps
<1>3. CASE \E c, d \in Client : Deliver(d, c)
  BY <1>3, ReceiveTextKeeps, SendStatusResponseKeeps, ReceiveStatusResponseKeeps,
     SendHistoryKeeps, ReceiveBulkHistoryKeeps, IgnoreKeeps, LoseKeeps DEF Deliver
<1>4. CASE Tick
  BY <1>4, TickKeeps
<1> QED BY <1>1, <1>2, <1>3, <1>4 DEF Next

\* What is held, offered, asked for and under way is of the kinds the handlers
\* expect; in particular an offer that is told by its ends spells out to
\* sequences that can be (history.js).
THEOREM HistoryTypeCorrect == Spec => []TypeOK
<1>1. HistoryInv => TypeOK
  <2> SUFFICES ASSUME HistoryInv PROVE TypeOK
    OBVIOUS
  <2>1. Typed
    BY DEF HistoryInv
  <2>2. messages \in [Client -> Seq(Message)]
    BY <2>1, TypedFacts DEF Typed
  <2>3. \A c, d \in Client : \A i \in DOMAIN wire[c][d] : IsFrame(wire[c][d][i])
    <3> SUFFICES ASSUME NEW c \in Client, NEW d \in Client, NEW i \in DOMAIN wire[c][d]
                 PROVE  IsFrame(wire[c][d][i])
      OBVIOUS
    <3>1. wire[c][d] \in Seq(FrameOf(sends))
      BY <2>1 DEF Typed
    <3>2. wire[c][d][i] \in FrameOf(sends)
      BY <3>1, LenProperties
    <3> QED BY <2>1, <3>2, TypedFacts, FrameFacts
  <2>4. clock \in 0..(Start + MaxSends)
    BY <2>1, StartIsNat, BoundFacts DEF Typed
  <2> QED BY <2>1, <2>2, <2>3, <2>4 DEF Typed, TypeOK, Request
<1> QED BY InitHolds, NextHolds, <1>1, PTL DEF Spec

\* However often a message comes, live and in bulks, it is shown once
\* (addMessage).
THEOREM AlwaysShownOnce == Spec => []ShownOnce
<1>1. HistoryInv => ShownOnce
  BY DEF HistoryInv
<1> QED BY InitHolds, NextHolds, <1>1, PTL DEF Spec

\* No client is on record, or about to be, to offer what it cannot send
\* (getSequences, expandSequences).
THEOREM OffersAlwaysHonest == Spec => []OffersAreHonest
<1>1. HistoryInv => OffersAreHonest
  BY DEF HistoryInv
<1> QED BY InitHolds, NextHolds, <1>1, PTL DEF Spec

\* A request asks each client for what that can send, whatever offers it was made
\* of and however old they are (scheduleRequest, receiveStatusResponse).
THEOREM RequestsAlwaysHonest == Spec => []RequestsAreHonest
<1>1. HistoryInv => RequestsAreHonest
  BY DEF HistoryInv
<1> QED BY InitHolds, NextHolds, <1>1, PTL DEF Spec

\* No sequence is in two requests of a client that are younger than the window
\* (considerRequest, scheduleRequest).
THEOREM NeverAskedTwice == Spec => []NothingAskedTwice
<1>1. HistoryInv => NothingAskedTwice
  BY DEF HistoryInv
<1> QED BY InitHolds, NextHolds, <1>1, PTL DEF Spec
=============================================================================
