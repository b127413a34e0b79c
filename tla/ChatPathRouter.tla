--------------------------- MODULE ChatPathRouter ---------------------------
(***************************************************************************)
(* From a request to a chat: ChatPathRouter.route, the ChatService it      *)
(* looks up or makes for the path, the Metrics singleton that every        *)
(* service and the server's reporter share, and ChatService.connect.       *)
(*                                                                         *)
(* The requests are handled by the server's 20 threads at once and nothing *)
(* here is locked: registry is a plain HashMap, Metrics.instance a plain   *)
(* static field.  A thread's state is pc[t] and its locals; each access to *)
(* one of the two shared variables is an action.  A service, like a        *)
(* Metrics, is named by the thread that made it.                           *)
(***************************************************************************)
EXTENDS Naturals, FiniteSets

CONSTANTS Request,   \* the requests, each on the thread that handles it
          Path,      \* chat paths
          PathOf,    \* the path of each request
          Upgrades,  \* the requests that ask for a websocket
          Main,      \* the thread that runs Server.start
          None       \* null

ASSUME PathOfType   == PathOf \in [Request -> Path]
ASSUME UpgradesType == Upgrades \subseteq Request
ASSUME MainIsOther  == Main \notin Request
ASSUME NoneIsOther  == None \notin Request \cup {Main}

VARIABLES
    registry,   \* ChatPathRouter.registry
    instance,   \* Metrics.instance
    pc,         \* where each thread is
    service,    \* the service route returned to each request
    metrics,    \* the Metrics of the service each request made, and of the
                \* reporter that Main starts
    torn,       \* requests whose put overlapped another
    damaged,    \* the HashMap has misbehaved
    raced,      \* history: paths two requests missed at the same time
    twins       \* history: two threads were to make a Metrics at the same time

vars == <<registry, instance, pc, service, metrics, torn, damaged, raced, twins>>

Thread == Request \cup {Main}

\* Between the miss and the end of the put, a service is being made.
Making == {"getInstance", "newMetrics", "readInstance", "put"}

\* How connect ends: with the listener registered, or with an IOException that is
\* caught and printed.
Connected == {"joined", "unregistered"}

TypeOK ==
    /\ registry \in [Path -> Request \cup {None}]
    /\ instance \in Thread \cup {None}
    /\ pc \in [Thread -> {"idle", "get", "connect", "http", "reporting"}
                            \cup Connected \cup Making]
    /\ service \in [Request -> Request \cup {None}]
    /\ metrics \in [Thread -> Thread \cup {None}]
    /\ torn \subseteq Request
    /\ damaged \in BOOLEAN
    /\ raced \subseteq Path
    /\ twins \in BOOLEAN

Init ==
    /\ registry = [p \in Path |-> None]
    /\ instance = None
    /\ pc = [t \in Thread |-> "idle"]
    /\ service = [r \in Request |-> None]
    /\ metrics = [t \in Thread |-> None]
    /\ torn = {}
    /\ damaged = FALSE
    /\ raced = {}
    /\ twins = FALSE

Goto(t, l) == pc' = [pc EXCEPT ![t] = l]

-----------------------------------------------------------------------------

\* What registry.get(PathOf[r]) can answer: an entry is missed while another
\* thread is in put and the table is being resized.
Lookup(r) ==
    {registry[PathOf[r]]} \cup
        {None : e \in {x \in Request \ {r} : pc[x] = "put"}}

\* What can be left of registry when r's put, meant to leave `clean', is over.
WriteOutcomes(r, clean) ==
    IF r \in torn
    THEN {[p \in Path |-> IF p \in Lost THEN None ELSE clean[p]] : Lost \in SUBSET Path}
    ELSE {clean}

\* Server.start: the port is opened, and only then the reporter is made.
Start ==
    /\ pc[Main] = "idle"
    /\ Goto(Main, "getInstance")
    /\ UNCHANGED <<registry, instance, service, metrics, torn, damaged, raced, twins>>

\* route is asked; a request for no websocket is left to the file container.
Pass(r) ==
    /\ pc[Main] # "idle"
    /\ pc[r] = "idle"
    /\ r \notin Upgrades
    /\ Goto(r, "http")
    /\ UNCHANGED <<registry, instance, service, metrics, torn, damaged, raced, twins>>

\* What route does next with the answer of containsKey; without the test; and
\* with the test the other way round.
AfterContainsUntested(found) == "getInstance"
AfterContainsInverted(found) == IF found # None THEN "getInstance" ELSE "get"
AfterContains(found)         == IF found # None THEN "get" ELSE "getInstance"

\* registry.containsKey
Contains(r) ==
    /\ pc[Main] # "idle"
    /\ pc[r] = "idle"
    /\ r \in Upgrades
    /\ \E found \in Lookup(r) :
          /\ Goto(r, AfterContains(found))
          /\ damaged' = (damaged \/ found # registry[PathOf[r]])
          /\ raced' = IF /\ found = None
                         /\ \E e \in Request : PathOf[e] = PathOf[r] /\ pc[e] \in Making
                      THEN raced \cup {PathOf[r]} ELSE raced
    /\ UNCHANGED <<registry, instance, service, metrics, torn, twins>>

\* registry.get; without a service the request goes to the file container.
Get(r) ==
    /\ pc[r] = "get"
    /\ \E found \in Lookup(r) :
          /\ service' = [service EXCEPT ![r] = found]
          /\ Goto(r, IF found = None THEN "http" ELSE "connect")
          /\ damaged' = (damaged \/ found # registry[PathOf[r]])
    /\ UNCHANGED <<registry, instance, metrics, torn, raced, twins>>

\* Metrics.getInstance: instance == null; or untested.
IsMissingUntested == TRUE
IsMissing == instance = None

CheckInstance(t) ==
    /\ pc[t] = "getInstance"
    /\ Goto(t, IF IsMissing THEN "newMetrics" ELSE "readInstance")
    /\ twins' = (twins \/ (instance = None /\ \E u \in Thread : pc[u] = "newMetrics"))
    /\ UNCHANGED <<registry, instance, service, metrics, torn, damaged, raced>>

\* instance = new Metrics(...)
NewMetrics(t) ==
    /\ pc[t] = "newMetrics"
    /\ instance' = t
    /\ Goto(t, "readInstance")
    /\ UNCHANGED <<registry, service, metrics, torn, damaged, raced, twins>>

\* return instance, a second read: the ChatListener of r's service keeps it,
\* and the put of route begins; the reporter keeps Main's.
ReadInstance(t) ==
    /\ pc[t] = "readInstance"
    /\ metrics' = [metrics EXCEPT ![t] = instance]
    /\ Goto(t, IF t = Main THEN "reporting" ELSE "put")
    /\ LET Writers == {e \in Request : pc[e] = "put"} IN
       torn' = IF t = Main \/ Writers = {} THEN torn ELSE torn \cup Writers \cup {t}
    /\ UNCHANGED <<registry, instance, service, damaged, raced, twins>>

\* What the put is to leave; or leaves with the key for the value.
PutPath(r) == [registry EXCEPT ![PathOf[r]] = PathOf[r]]
Put(r)     == [registry EXCEPT ![PathOf[r]] = r]

\* The put ends, and route returns the new service.
PutEnd(r) ==
    /\ pc[r] = "put"
    /\ registry' \in WriteOutcomes(r, Put(r))
    /\ damaged' = (damaged \/ registry' # Put(r))
    /\ torn' = torn \ {r}
    /\ service' = [service EXCEPT ![r] = r]
    /\ Goto(r, "connect")
    /\ UNCHANGED <<instance, metrics, raced, twins>>

\* ChatService.connect registers the service's listener with the session; if that
\* fails, the session remains in no chat.
Connect(r) ==
    /\ pc[r] = "connect"
    /\ \E end \in Connected : Goto(r, end)
    /\ UNCHANGED <<registry, instance, service, metrics, torn, damaged, raced, twins>>

-----------------------------------------------------------------------------

Step(t) ==
    \/ CheckInstance(t) \/ NewMetrics(t) \/ ReadInstance(t)
    \/ t \in Request /\ (Get(t) \/ PutEnd(t) \/ Connect(t))

Next ==
    \/ Start
    \/ \E r \in Request : Pass(r) \/ Contains(r)
    \/ \E t \in Thread : Step(t)

Spec == Init /\ [][Next]_vars

\* Threads run.
FairSpec == Spec /\ \A t \in Thread : WF_vars(Step(t))

-----------------------------------------------------------------------------

\* Everybody on a path meets in one chat, if no two requests missed the path at
\* once and the HashMap was not hit by two puts.
OneChatPerPath ==
    ~damaged => \A r, s \in Request :
        PathOf[r] = PathOf[s] /\ PathOf[r] \notin raced
            /\ service[r] # None /\ service[s] # None
                => service[r] = service[s]

\* A registered chat is never replaced, with its members and its password, by a
\* new one, under the same condition.
ChatsAreKept ==
    [][\A p \in Path :
          registry[p] # None /\ p \notin raced' /\ ~damaged' => registry'[p] = registry[p]]_vars

\* What the reporter prints counts every chat, if no two threads were to make
\* the Metrics at once.
AllAreCounted ==
    ~twins => \A t, u \in Thread :
                 metrics[t] # None /\ metrics[u] # None => metrics[t] = metrics[u]

\* Every websocket request comes to the listener of its path, which in the end it
\* has joined or could not be registered with; it is handed over to the file
\* container instead only if the HashMap was hit by two puts.
UpgradesJoin ==
    \A r \in Upgrades :
        pc[r] # "idle" ~> \/ pc[r] \in Connected /\ PathOf[service[r]] = PathOf[r]
                          \/ pc[r] = "http" /\ damaged
=============================================================================
