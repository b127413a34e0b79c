# parq.chat in TLA+

This directory holds TLA+ models of parq.chat, the configurations with which TLC
checks them on small instances, and TLAPS proofs of theorems about them for
every instance. `PROJECT.json` lists the runs, the mutated definitions that each
property rejects, the source lines each definition stands for, the hazards and
the findings.

    tlc -workers 2 -config listener_two.cfg MCChatListener.tla    # one run
    tlapm ChatListener_proofs.tla                                 # one proof module

## 1. Inventory

parq.chat is a websocket chat. Every URL path is a chat. The server
(`src/java/chat/parq/server`) relays text frames between the sessions of a chat
and stores none of them; a chat can be given a password, and then clients that come late
recall old messages from the other clients. The client (`src/webclient/main/js`)
is an AngularJS page.

### Server

| Component | State | Operations | Called by |
|---|---|---|---|
| `ChatListener` | `channels` (skip list of `ComparableChannel`), `channelMap`, `errorCount` (two plain `HashMap`s) | `onFrame`, `onError`, `onClose`; `addChannel`, `hasChannel`, `send`, `countError`, `eject` | the websocket library, on its threads; `PasswordHandler` |
| `PasswordHandler`, one per listener | `password` | `handle`, `extractPassword` | `onFrame` |
| `ChatPathRouter` | `registry`, a plain `HashMap` from path to `ChatService` | `route` | the HTTP container, on its threads |
| `ChatService` | its listener | `connect`, which registers the listener with the session | the router container |
| `Metrics` | the singleton `instance`, counters | `getInstance`, counters | every listener, the reporter |
| `Server` | containers, sockets | `start`, `stop`; 20 threads | `main` |
| `JsonHelper` | none | `fromJson`, `toJson` | `PasswordHandler` |
| `FileCacheContainer`, `ResourcePackage`, `DevAllResources`, `LiveLimitedResources`, `RedirectContainer` | maps filled at construction | `handle`, `fetch` | the HTTP container |
| `Options`, `SslSetup`, helpers | none after start | | `main` |

What is hard: nothing in `ChatListener`, `PasswordHandler`, `ChatPathRouter` and
`Metrics` is locked, and the library runs the callbacks of different sessions on
different threads. Tests and assignments race (`password`, `registry`,
`instance`), `HashMap`s are changed by several threads, the relay is a parallel
stream over a set that sessions join and leave meanwhile, and connections break
with sends under way. Correct is: text passes only between sessions that were
cleared for the chat, each frame at most once and in the sender's order; who may
speak also hears; what closed is forgotten; failing receivers leave and cost the
others nothing; one path is one chat.

### Client

| Component | State | Operations | Called by |
|---|---|---|---|
| `Chat` (`chat.js`) | `messages`, `hashes`, `maxSequence`, `password`, `passwordOk`, `passwordProtected`, `seenPeers` | `addMessage`, `getSequences`, `getMessage`, `getNextSequence` | protocol, history, page |
| `Protocol` (`protocol.js`) | `websocket`, `connected`, `clientid` | `connect`, `reconnect`, `send`, and the handlers of the websocket's open, message, error, close | page, websocket |
| `Password` (`password.js`) | none of its own | `setPassword`, `handlePassword` | page, protocol |
| `ChatHistory` (`history.js`) | `offers`, `requests` | `initHistory`, `sendStatusResponse`, `receiveStatusResponse`, `scheduleRequest`, `sendHistory`, `receiveBulkHistory` | password, protocol, an interval |
| settings (`settings.js`) | the model and chats of a tab, its `sessionStorage`, the `localStorage` of all tabs | `savestate`, `restorestate`, `getStorage`, `getChat` | page, password |
| page (`main_angular.js`) | the current chat | route changes, the 5 s interval that reconnects | user, browser |
| utilities (`common_util.js`, ...) | none | array and map functions | all |

Each page is one thread, so a handler is atomic; what is hard lies between the
pages and over time: answers that come late, twice or never, offers of
clients that have left, numbers given twice, events of a websocket that has been
replaced, timers that overlap, tabs that share a storage. Correct is: messages
are shown once, a late-comer gets what was offered to it and asks for nothing
twice at a time, a client that is connected knows it, and a tab that is loaded again has
what it saved.

### How they interact

A page opens a websocket to the path of its chat: `ChatPathRouter.route` finds or makes the
`ChatService`, whose `connect` registers the chat's one `ChatListener`. Every frame
of the page is an `onFrame`: `PasswordHandler.handle` registers the session or refuses
it, and what is no password is sent to all other `channels`. The answer to a
password (`password_ok`, `password_set`) makes the page start its history
(`initHistory`), whose frames are ordinary text to the server.

## 2. The modules

| Module | Models | Status |
|---|---|---|
| `ChatRoom` | abstract: what one chat promises | checked, and implemented by `ChatListener` (proved) |
| `ChatListener` | `ChatListener`, `PasswordHandler` | checked; safety and refinement proved |
| `ChatPathRouter` | `ChatPathRouter`, `ChatService`, `Metrics.getInstance`, `Server.start` | checked; safety proved |
| `ChatHistory` | `ChatHistory` and the messages of `Chat`, over the relay | checked; safety proved |
| `ChatClient` | `Protocol`, `Password` and the reconnecting interval of the page, with the server as one page sees it | checked; safety proved |
| `Settings` | the settings of the tabs of one browser | checked; safety proved |
| `ChatListener_proofs`, `ChatListenerMembership_proofs`, `ChatListenerRelay_proofs`, `ChatPathRouter_proofs`, `ChatHistoryLemmas_proofs`, `ChatHistory_proofs`, `ChatClient_proofs`, `Settings_proofs` | | proofs; the second and third of the listener build on the one before, and the theorems of the history on its lemmas |
| `MCChatListener`, `MCChatPathRouter`, `MCChatHistory`, `MCChatClient`, `MCSettings` | | instances for TLC |

### ChatListener

`pc[c]` says where the callback of session `c` is; every access to
`password`, `channels`, `channelMap` or `errorCount` is an action of its own.

| Code | Actions |
|---|---|
| `onFrame` and the first read in `handle` | `OnFrame` |
| `password = sentPw`; `password.equals(sentPw)` | `SetPassword`; `Compare` |
| `hasChannel` in `handle` | `Gate` |
| `addChannel`: `containsKey`, `channels.add`, `channelMap.put` | `AddContains`, `AddListed`, `MapPutEnd` |
| the parallel stream | `RelayStart`, `RelaySend`, `RelayFail`, `RelaySkip`, `RelayEnd` |
| the status sent to the own channel | `Reply`, `ReplyFail` |
| `onError`, from the library or after an exception | `OnError`, `Throw` |
| `onClose`: `channelMap.remove`, `channels.remove` | `OnClose`, `RemoveEnd`, `Unlist` |
| `countError` and `eject` | part of `RelayFail`, `ReplyFail` and `Throw` |

Decisions:
- Callbacks of one session come one after the other, those of different
  sessions run on different threads. This is what the library's session threads do.
- The field `password` is read and written in one interleaved order.
- `HashMap` operations that overlap have any outcome the class can produce without
  looping: a `put` or `remove` that overlaps another leaves any subset of the
  entries, a lookup during a `put` may miss, an increment may be lost, and a `get` after a
  contended `merge` may be null, whose unboxing throws out of the relay.
  `damaged` remembers that something of this kind happened; a property that says
  "as long as the HashMap was not hit by two threads at once" is conditional on it.
- `ComparableChannel` compares identity hash codes, so `HashCode` is a constant:
  distinct codes in the runs, any in the proofs. Identity hash codes are not negative, so that the subtraction in `compareTo`
  does not overflow.
- The skip list is iterated while it changes: the relay starts with the channels
  listed then, may or may not see one that is added, and may skip one that has gone.
- A send may fail while the connection is open and does fail afterwards. Frames
  that were received before the connection broke are handled all the same.
  `onClose` comes in the end, and may come twice. `onError` may or may not be
  followed by a close.
- The texts are of four kinds (`Frame`): with a password, empty, such that
  `extractPassword` throws, and all others. Close frames return early in `onFrame`
  and change nothing; metrics and logs are left out.
- When `countError` throws in one thread of the parallel stream, the rest of the relay
  is dropped. In the code other threads may go on sending, even after `onFrame` has been left, so
  that the sender's next frame could overtake theirs: the order that `ChatRoom` promises
  is not shown for such a relay. It takes three sessions and an `errorCount` that
  two threads hit at once.
- `cleared`, `delivered`, `holder` and `due` are history variables.

### ChatRoom

One key; a member is cleared if it came while there was none, or offered it;
only one who came while there was none sets it; frames pass only between the
cleared, each sender's in order and each at most once. `ChatListener!Room`
instantiates it: `key` is `password`, a member's offer the password in the frame
at hand, and the contenders are the sessions between the null test and the
assignment.

### ChatPathRouter

One thread per request and one for `Server.start`. `Contains`, `Get` and `PutEnd`
are the accesses of `route` to `registry`; `CheckInstance`, `NewMetrics` and
`ReadInstance` those of `Metrics.getInstance`; a service is named by
the thread that made it. `Connect` registers the listener with the session, or fails to: the
exception is caught and printed, and the session remains in no chat. `raced` and `twins`
are history variables: they record that two requests missed a path, or two threads the
instance, at the same time.

### ChatHistory

The clients of one chat, and for every pair of them the frames on their way
(`wire`), in the order sent, which is what `ChatRoom` promises. `GivePassword` is the server that
registers a session and answers it, `PasswordOk` and `PasswordWrong` are the answers as they
arrive, `Leave` is the end of the connection; `SendText` and
`ReceiveText` are live messages; `SendStatusResponse`, `ReceiveStatusResponse`, `SendHistory` and
`ReceiveBulkHistory` are the handlers of the four history frames; `ScheduleRequest` is one
run of an interval that finds something to ask for; `Ignore` is any of the four while the
password is not right, `Lose` what is relayed to a session that has gone; `Tick` is time.

Decisions:
- `member` are the sessions the server has registered: with the password, or while the
  chat was open, which some may be at the start. It relays to and from them only, so what is sent while
  the session is not registered is lost. `passwordOk` are those whose page knows that its
  password is right: they alone handle history frames. A wrong password takes a page out of
  `passwordOk` and not out of `member`; each good answer, also a repeated one, starts the
  history again (`init`). One good answer to a page is on its way at a time.
- Clocks agree and no two messages have the same time. `hashes` is the set of the
  messages held, since a hash is one of the message's fields.
- A request older than the window has no effect and is dropped. Intervals may
  fire at any time, so it does not matter how many of them run.
- `sort()` without a comparator puts numbers in the order of their digits. `SortsBefore`
  is that order below 100; the instances start at sequence 9.
- Lists are filtered and sorted by counting: an element goes where there are as many
  before it. This is what `SelectSeq` and `SortSeq` give, but the provers know no definition of
  those. `ArrayDiff[a][b]`, `Consider(c)[total][o]` and
  others are functions, not operators, so that what they give is taken before it is used.
- A page may hold any messages at the start (`Begin`), as one that was there before or is back
  has; each once, and with positive sequences, since `maxSequence` starts with 0.
- When a connection ends, any part of what was sent last and is still on its way to everybody is
  lost: what arrives is the same for all, since it is the server that has it or has not. What is on its
  way to the lost connection is lost as far as the server had it.
- `Tick` may come at any time, whatever is under way: an answer may come before or after
  its request has ceased to count, and be asked for twice.

### ChatClient

One page and its connection to one chat. `websocket` is `Protocol.websocket`, and
`state` follows every websocket the page has made, since all of them keep the same
handlers: "lost" and "closing" are websockets whose close event is still to come, and a
lost one looks open to the page until then.

| Code | Actions |
|---|---|
| the 5 s interval, `isConnected`, `reconnect` | `UpdateSeenPeers` |
| `websocketOnOpen`, `websocketOnClose` | `WebsocketOnOpen`, `WebsocketOnClose` |
| `websocketOnMessage` with a password status, `handlePassword` | `HandlePassword` |
| what the user does: a password is typed, and may be cancelled; applied; a text is sent | `TypePassword`; `SetPassword`; `Typed` |
| `getChatIconClass` | `IconClass` |
| `PasswordHandler.handle` for a frame of this page; for others | `Handle`; `Protect` |
| connections that fail, a server that is started anew | `Break`, `Restart` |

Decisions:
- The websocket object of the page queues what is sent while it is not open and sends the
  queue when it opens, before what `websocketOnOpen` sends. Its `close` does nothing
  while the browser has unsent data (`buffered`): the websocket is then `LeftOpen`.
- The server handles a frame in one step: what several sessions do to each other is
  `ChatListener`. `registered` are the sessions that were in `channelMap`; it is not
  reset when they close, since it only has to tell whose answers are good.
- Nothing reaches a page on a websocket it has closed. What is on its way when a
  connection breaks is lost, or arrives before the page notices.
- Two websockets are used in turn: a reconnection waits until one is free. What a
  replaced one had queued is lost with it.
- The field of the password dialog is bound to the chat, so what is typed is the chat's
  password at once, and cancelling does not take it back; `setPassword` sends it. The
  next open of a connection sends it in any case, but for the empty password, which
  `websocketOnOpen` takes for none although it can be set like any other: `Empty`
  is a password of its own, and not the server's null.
- Hashes and nicks, and the choice of the server by the name are left out. That the page
  shows another chat for a while is an interval that does not fire, and coming back to
  the chat does nothing to its websocket: `connect` returns when there is one.
- `late`, `refused` and `unsent` are history variables: a replaced websocket has been
  closed since its successor opened; a text typed with `passwordOk` set, and no websocket
  left open, was answered `password_wrong`; the password was typed and not sent since.

### Settings

The tabs of one browser: each has a model and its chats in memory and a
`sessionStorage`, and all share one `localStorage`.

| Code | Actions |
|---|---|
| the page is opened or loaded again: `restorestate`, and `getChat` for the name in the URL | `Load` |
| another chat is opened in the tab: `getChat` | `OpenChat` |
| a password, a storage type is entered in its dialog | `TypePassword`, `PickStorage` |
| `setNick`, `setPrivacy`, an accepted password: `savestate` | `Save` |
| the tab is closed | `Close` |

Decisions:
- `savestate` and `restorestate` are atomic, within a tab and between tabs: browsers
  lock a storage for the script that uses it.
- The dialogs are bound to the model: what was entered and cancelled is in the next `savestate`,
  whatever causes it. So entering and saving are separate actions.
- The nick is stored and restored with the chats and left out; of a chat only the
  password is stored, so a chat is its password, or `NoChat`.
- A closed tab loses its `sessionStorage`; a browser that is closed closes all tabs.
- `saved` and `disturbed` are history variables: what each tab saved last, and the
  tabs since whose last save another one has changed `localStorage`.

## 3. The runs

| Run | Instance | Checks | Result |
|---|---|---|---|
| `listener_two` | 2 sessions, 2 passwords, all kinds of text, 3 frames | `TypeOK`, `OnlyClearedReceive`, `MembersAreListed`, `ToldMembersAreRegistered`, `ClosedAreGone`, `RoomSpec` | hold |
| `listener_relay` | 3 sessions without password, 3 frames | `RelayMissesNobody` | holds |
| `listener_live` | 2 sessions, 1 password, 3 frames, fair | `FailingLeave` | holds |
| `password_race` | 2 sessions, 2 passwords, 2 frames | `OneAgreedPassword` | violated |
| `router` | 4 requests, 2 paths, fair | `TypeOK`, `OneChatPerPath`, `AllAreCounted`, `ChatsAreKept`, `UpgradesJoin` | hold |
| `history` | 2 members with 2 messages and 1 of them, 1 late-comer, 1 answer, requests of 1, 2 frames under way, fair | `ShownOnce`, `RequestsAreHonest`, `NothingAskedTwice`, `OfferedIsRecalled` | hold |
| `history_return` | 1 member with 3 messages, 1 with 2 that is back, 1 text, 3 answers, 1 lost connection, requests of 1, 2 frames under way, fair | `TypeOK`, `OffersAreHonest`, `NothingAskedTwice`, `OfferedIsRecalled` | hold |
| `late_comer` | 2 members with 1 message, 1 late-comer, 1 lost connection, fair | `LateComersRecall` | violated |
| `same_sequence` | the same without loss, 2 texts | `SameSequencesSameMessages` | violated |
| `client` | 2 websockets, a password and the empty one, one each of passwords entered, texts, and failures, fair | `TypeOK`, `StatusIsTrue`, `OkIsRegistered`, `OkTextsPass`, `ComesBack`, `GetsIn` | hold |
| `settings` | 2 tabs, 2 chats, a password and the empty one | `TypeOK`, `SavedIsRestored`, `NoStaleCopy` | hold |
| `settings_refresh` | the same | `SurvivesRefresh` | violated |

### What the bounds leave in

- Two sessions are enough for every race between two callbacks (two null tests,
  two puts, a put and a lookup, a relay and a close), and three frames for one
  session to set the password, the other to give one, and either to speak.
  Frames that are buffered, late closes, second closes and every exception are
  within them. `EjectAfter` is the code's 3, not a bound.
- `listener_two` goes no further once errors of both sessions are counted
  (`ErrorsOfOne`): what an error does to a session is in it for either.
- `listener_relay` has a third session, so that a relay has two receivers and
  one of them can fail, leave or come while the other is waiting. It follows only
  behaviours in which one channel at a time is in trouble (`OneInTrouble`) and
  the `HashMap`s behave (`Undamaged`): a contended `errorCount` excuses the
  property, which says so itself.
- `listener_live` has the constraint `Undamaged`, for the same reason.
- The router's two requests for one path race with each other, and the third,
  for another path, with both of their puts; the fourth takes no part.
- In `history` one member has 9 and 10 and the other 10. Requests of one message cover
  lists that are too long to ask for at once, and leave enough for a timer to ask one
  member for what the other lacks; offers come in the order that `sort()` gets wrong.
- In `history_return` one has 9, 10 and 11 and the other, who is back, 9 and 10. Offers come
  as a range (three numbers) and as lists, with gaps when messages have come out of order;
  each offers to the other; a text, also one that is typed offline, may be given a number that is
  taken. Three passwords are answered, well or badly, and one connection breaks: enough for a
  wrong password while a bulk is on its way, a second good answer, and a return.
- `MaxWire`: the timer waits while two frames are under way between two clients. It may
  fire over a request or an answer that is still on its way, but not pile up
  requests. Nothing else is held back: handlers run and time passes at any time. `Window`
  is one tick: a request counts until the next tick, which may be before or after its
  answer, so late answers and second requests for the same are in both runs.
- `late_comer` and `same_sequence` have `MaxWire` 1, the timer only when nothing is under way:
  what they show needs no more.
- `client` has a websocket and the one it replaces, so every event of the one can fall
  between any two of the other: a slow attempt that is closed while connecting, a close
  that comes late, a websocket that is left open and answers for its session. Of two
  passwords one can be wrong, and one is empty. Failures are bounded so that the liveness
  properties speak of what comes after the last one.
- `settings` needs no bound: its states are finitely many for given tabs, chats and
  passwords. Two tabs are one that saves and one that disturbs it, two chats the one of
  the page and one that can get lost. Tabs are interchangeable (`Tabs`).
- The runs of `router`, history and `client` may stop: all requests served, nothing
  under way. Deadlock is not checked there. In the listener the library can always
  report another close, and a page can always be loaded again.

### Fairness

- Listener and router: every thread that can go on does (`WF` of `Step`): the pool
  has threads of its own for its tasks, and no code here waits. And the library
  reports in the end that a broken connection is closed, as `eject` and the
  clean-up in `onClose` rely on.
- History: frames and answers arrive, intervals fire and time passes (`WF` of `Deliver`,
  `PasswordOk`, `ScheduleRequest`, `Tick`). Nobody is assumed to give a password, leave or write.
  The intervals of the code fire every few seconds whatever happens, which is more than
  is assumed: in the model one must fire only if from some time on it always could.
- Client: the interval fires, frames and close events arrive (`WF`), and among
  attempts that come again and again one is open within five seconds (`SF`
  of `WebsocketOnOpen`): without that the interval closes each attempt before it opens.

`ComesBack` and `GetsIn` have a condition, `ClosedFirst`: from some time on a replaced
websocket is closed before its successor opens. The code needs it. `websocketOnClose` does
not look whose close it reports, so a late one marks the open successor as disconnected
(`StatusIsTrue` excepts that through `late`), the interval replaces the successor, and its
close may be late again: TLC shows that loop when the condition is taken away.

### What the violated runs show

- `password_race`: `handle` tests `password == null` and then assigns. Two clients that set a
  password at once are both answered `password_set`; one of them holds a password
  that is not the chat's, although "the password is shared by all members".
- `late_comer`: offers are never pruned and the first offer of a sequence is the
  one that is asked. When its client has left, the request is repeated to nobody,
  while another member that offered the same is never asked.
- `same_sequence`: history goes by sequence, and two clients that write before
  they have seen each other give one sequence to two messages. One of them is
  never recalled.
- `settings_refresh`: the privacy dialog says that stored settings survive a refresh. A
  tab is loaded again with what `localStorage` holds, if that is anything: the chats of another
  tab then take the place of its own; and any other tab's `savestate` deletes
  what `localStorage` had.

Two more things the code does are conditions of properties that hold: two requests that
miss a path at once make two chats for it (`raced` in `OneChatPerPath`), and a lookup
during another session's `put` has a member refused (`damaged` in `ToldMembersAreRegistered`).

## 4. What is proved

For any values of the constants; the only assumptions are those named in the modules:
types of the constants and bounds, that null, the missing chat and the like are no
password, and of `ChatHistory` that the clients are finitely many and hold no message twice
at the start.

| Theorem | States | Along |
|---|---|---|
| `TypeCorrect` | `Spec => []TypeOK` of `ChatListener` | `TypeOK` is inductive |
| `OnlyClearedReceiveAlways` | text passes only between cleared sessions | `ClearedInv` |
| `ListenerImplementsRoom` | `Spec => RoomSpec` | `ClearedInv`, `OrderInv`, `OfferInv`, and one step of `ChatRoom`, or none, for each action |
| `MembersAlwaysListed` | a live session in `channelMap` is in `channels`, if hash codes differ | `ListedInv` |
| `ToldMembersAlwaysRegistered` | whoever was told its password is right stays in `channelMap` until it closes, if the `HashMap`s behave | `RegisteredInv` |
| `ClosedAlwaysGone` | `onClose` leaves nothing behind, if hash codes differ and the `HashMap`s behave | `GoneInv`, with `ListedInv` |
| `RelayNeverMisses` | a relay comes to everybody who was and is listed, if hash codes differ, and throws only over a damaged `errorCount` | `RelayInv`, with `ListedInv`, `GoneInv`, `OfferInv` |
| `RouterTypeCorrect` | `Spec => []TypeOK` of `ChatPathRouter` | `TypeOK` is inductive |
| `AlwaysOneChatPerPath`, `ChatsAlwaysKept` | one chat for each path, never replaced, unless two requests missed it at once or the `HashMap` was hit by two puts | `PathInv` |
| `AllAlwaysCounted` | everybody uses one `Metrics`, unless two threads found none at once | `MetricsInv` |
| `HistoryTypeCorrect` | `Spec => []TypeOK` of `ChatHistory` | `HistoryInv` |
| `AlwaysShownOnce` | a message is shown once, however often it comes, live or in bulks | `HistoryInv` |
| `OffersAlwaysHonest` | what a client is on record to offer, or about to be, it can send | `HistoryInv` |
| `RequestsAlwaysHonest` | a request asks each client only for what that can send | `HistoryInv` |
| `NeverAskedTwice` | no sequence is asked for twice within the window | `HistoryInv` |
| `ClientTypeCorrect` | `Spec => []TypeOK` of `ChatClient` | `ClientInv` |
| `StatusAlwaysTrue` | the icon tells the state of the connection, unless a replaced websocket was closed late | `ClientInv` |
| `OkAlwaysRegistered` | `passwordOk` is set only while a session of the page is registered | `ClientInv` |
| `OkTextsAlwaysPass` | a text typed with `passwordOk` set is not refused, unless a websocket was left open | `ClientInv` |
| `SettingsTypeCorrect` | each storage holds only states that name it as their storage type | `TypeOK` is inductive |
| `SavedAlwaysRestored`, `NeverAStaleCopy` | a reload restores what was saved last, unless another tab disturbed it; no older copy is left | `StoreInv` |

The invariants say what the properties leave out between two steps:
- `ClearedInv`: not only receivers but everybody who is listed, mapped, on the way to being
  registered or about to be relayed to is cleared. It needs nothing about the `HashMap`,
  which loses entries but invents none.
- `OrderInv`: the number of the frame at hand is above all that was delivered of its
  sender, and a relay has still to come to a channel only if it has not yet sent to it.
- `OfferInv`: a password is only in the hands of a callback that handles it, and one
  that compares has seen that there is a password.
- `ListedInv`: during `put` the session is listed already, and during `onClose`
  the connection is closed.
- `RegisteredInv`: a good answer is on its way only to a session in `channelMap`.
- `GoneInv`: a closed session handles no frame; a listed session is in `channelMap`, or
  between the two steps of `addChannel` or of `onClose`.
- `RelayInv`: who was listed when a relay began and is no more is closed. A closed
  session handles no frame, so it is not listed again while the relay goes on.
- `PathInv`: as long as a path was not missed twice, at most one thread is
  making its chat, and whoever was routed to it has the registered one.
- `MetricsInv`: the same for the one `Metrics`.
- `HistoryInv`: the properties of `ChatHistory` hold together or not at all. What `n` sent
  messages can reach bounds the sequences and times of all that is held or under way
  (`Known`, `FrameOf`), which is what keeps `NextSequence` within bounds. An offer by its ends
  spells out to sequences there can be because it is honest, an honest offer was made of a list
  without a gap, and it stays honest because no message is ever removed. A request is honest
  because each of its lists is part of an offer of the client it is for, through the filters, the
  slice, and `Get`. Requests are apart because `Consider` leaves out what was collected before
  it and what is outstanding.
- `ClientInv`: only the page's websocket is ever connecting; a good answer is on its way
  only to a registered session, and to none that is closed; an allowed text is on its way
  only from a registered session, and waits only in the queue of a websocket that
  will never open. The last is why the order in `websocketOnOpen`, which sends the queue
  before the password, refuses no text that was allowed.
- `StoreInv`: the two properties need each other, and that a closed tab has saved
  nothing.

The lemmas about `ChatHistory` say what its operators give for lists of any length: `Elements` and
`Sort` return lists of elements of the list (`Ranks`: in a strict order of a
finite set there is, for each number below its size, an element with so many before it),
`AddMessage` adds one message and keeps the others, `Latest` and `LatestFirst` return what was there. Two of the operators
are folds, `AddAll` over the messages of a bulk and `Collect` over the offers of a client, and a
fold is a `CHOOSE` of a function that satisfies a recursion. Two lemmas take the place of induction:
- `FoldExists`: there is such a function. Functions on the subsets with at most `n` elements
  extend to those with `n + 1`; if for some `n` there were none, there would be a least such
  `n`, since the order of the numbers is well-founded.
- `FoldStays`: if the start is in a set and each step stays in it, so is the result. A smallest
  subset on which it is not has a smaller one.
The set is what the property needs: lists that hold the message once, or lists of requests that
are apart and honest (`Collected`). What the fold computes is not needed and not proved.

TLC checked the properties, the invariants of `ChatListener`, and the parts of `HistoryInv`
that are not properties, on the instances above before they were proved.

### Only model-checked

- Liveness (`FailingLeave`, `UpgradesJoin`, `OfferedIsRecalled`, `ComesBack`, `GetsIn`): the proof system
  has no rules for fairness.
- That `Sort` loses nothing and puts it in order: no safety property depends on it, only when, and
  whether, something is asked for. `OfferedIsRecalled` holds with the order `sort()` gives.
- Sequences from 100 on: `SortsBefore` is the order of `sort()` below. The theorems hold for any
  numbers, since they need only that it is an order.

## 5. Not modelled

- Static resources, options, key store, and `Server.stop`: input and output
  without state that changes, or wiring.
- Metrics' counters: thread-safe library objects that nothing reads back.
- Peers seen, local messages and nicks: shown and never used otherwise.
- Test suites, markup, build files, and the vendored libraries, of which only
  what the code sees of them is modelled (the map's external definitions).
- The choice of the server by the first letter of the name (`getServer`) is a function
  without state. That the interval of `scheduleRequest` is started again by every open
  costs time only: in `ChatHistory` it may run at any time.

## 6. Plan

In this order; the first seven are done.

1. `ChatRoom`, `ChatListener`: the relay and the password, with the refinement
   and the safety theorems.
2. `ChatPathRouter`: chats per path.
3. `ChatHistory`: recall of old messages.
4. `ChatClient`: the connection of a page, its password and its reconnection.
5. `Settings`: the storages of several tabs.
6. Proofs of the safety properties of `ChatListener`, `ChatPathRouter`, `ChatClient` and
   `Settings`.
7. Proofs of the safety properties of `ChatHistory`, with the lemmas about filters, sorting
   and folds that they need.
8. Runs for what the page says: "Disconnected" (`chat.html:88`) over an open
   websocket, and "Please set correct password" (`chat.html:85`) over a chat that a restart of
   the server has left without one.
