------------------------ MODULE ChatPathRouter_proofs ------------------------
(***************************************************************************)
(* What ChatPathRouter promises of any number of requests and paths: its   *)
(* types, one chat per path that is never replaced, and one Metrics, each  *)
(* unless the race that its history variable records took place.           *)
(***************************************************************************)
EXTENDS ChatPathRouter, TLAPS

\* A request that is handled by nobody else makes the service of its path: one
\* is made only while none is registered, and for a path at a time only one.
MakerIsAlone ==
    ~damaged => \A r \in Request :
        pc[r] \in Making /\ PathOf[r] \notin raced =>
            /\ registry[PathOf[r]] = None
            /\ \A e \in Request \ {r} : PathOf[e] = PathOf[r] => pc[e] \notin Making

\* The service of a request is the registered one, and a request that is to
\* look it up finds it.
ServedFromRegistry ==
    ~damaged => \A r \in Request :
        PathOf[r] \notin raced =>
            /\ service[r] # None => service[r] = registry[PathOf[r]]
            /\ pc[r] = "get" => registry[PathOf[r]] # None

PathInv == TypeOK /\ MakerIsAlone /\ ServedFromRegistry

\* Whoever has a Metrics has the instance, which is made only while there is
\* none, and only by one thread.
MetricsInv ==
    /\ TypeOK
    /\ ~twins =>
         /\ \A t \in Thread : metrics[t] # None => metrics[t] = instance
         /\ \A t, u \in Thread :
              pc[t] = "newMetrics" => instance = None /\ (pc[u] = "newMetrics" => u = t)

\* A thread is Main, or it handles a request.
LEMMA ThreadFacts ==
    /\ None \notin Thread /\ Request \subseteq Thread /\ Main \in Thread
    /\ PathOf \in [Request -> Path]
BY MainIsOther, NoneIsOther, PathOfType DEF Thread

\* Where a thread can be.
PcValues == {"idle", "get", "connect", "http", "reporting"} \cup Connected \cup Making

LEMMA TypeInit == Init => TypeOK
BY DEF Init, TypeOK, Thread

LEMMA TypeNext == TypeOK /\ [Next]_vars => TypeOK'
<1> SUFFICES ASSUME TypeOK, [Next]_vars PROVE TypeOK'
  OBVIOUS
<1> USE ThreadFacts
<1>1. CASE Start
  BY <1>1 DEF Start, Goto, TypeOK, Making, Connected
<1>2. ASSUME NEW r \in Request, Pass(r) PROVE TypeOK'
  BY <1>2 DEF Pass, Goto, TypeOK, Making
<1>3. ASSUME NEW r \in Request, Contains(r) PROVE TypeOK'
  <2>1. raced' \subseteq Path
    BY <1>3 DEF Contains, TypeOK
  <2>2. damaged' \in BOOLEAN
    BY <1>3 DEF Contains, TypeOK
  <2>3. pc' \in [Thread -> PcValues]
    BY <1>3 DEF Contains, TypeOK, Goto, AfterContains, Making, PcValues
  <2> QED BY <1>3, <2>1, <2>2, <2>3 DEF Contains, TypeOK, PcValues
<1>4. ASSUME NEW r \in Request, Get(r) PROVE TypeOK'
  <2>1. Lookup(r) \subseteq Request \cup {None}
    BY DEF Lookup, TypeOK
  <2>2. service' \in [Request -> Request \cup {None}] /\ damaged' \in BOOLEAN
    BY <1>4, <2>1 DEF Get, TypeOK
  <2>3. pc' \in [Thread -> PcValues]
    BY <1>4 DEF Get, TypeOK, Goto, Making, PcValues
  <2> QED BY <1>4, <2>2, <2>3 DEF Get, TypeOK, PcValues
<1>5. ASSUME NEW t \in Thread, CheckInstance(t) PROVE TypeOK'
  BY <1>5 DEF CheckInstance, IsMissing, Goto, TypeOK, Making
<1>6. ASSUME NEW t \in Thread, NewMetrics(t) PROVE TypeOK'
  BY <1>6 DEF NewMetrics, Goto, TypeOK, Making
<1>7. ASSUME NEW t \in Thread, ReadInstance(t) PROVE TypeOK'
  <2>1. metrics' \in [Thread -> Thread \cup {None}]
    BY <1>7 DEF ReadInstance, TypeOK
  <2>2. pc' \in [Thread -> PcValues]
    BY <1>7 DEF ReadInstance, TypeOK, Goto, Making, PcValues
  <2>3. torn' \subseteq Request
    BY <1>7 DEF ReadInstance, TypeOK, Thread
  <2> QED BY <1>7, <2>1, <2>2, <2>3 DEF ReadInstance, TypeOK, PcValues
<1>8. ASSUME NEW r \in Request, PutEnd(r) PROVE TypeOK'
  <2>1. Put(r) \in [Path -> Request \cup {None}]
    BY DEF Put, TypeOK
  <2>2. registry' \in [Path -> Request \cup {None}]
    BY <1>8, <2>1 DEF PutEnd, WriteOutcomes
  <2>3. pc' \in [Thread -> PcValues]
    BY <1>8 DEF PutEnd, TypeOK, Goto, Making, PcValues
  <2> QED BY <1>8, <2>2, <2>3 DEF PutEnd, TypeOK, PcValues
<1>9. ASSUME NEW r \in Request, Connect(r) PROVE TypeOK'
  BY <1>9 DEF Connect, Goto, TypeOK, Making, Connected
<1>10. CASE UNCHANGED vars
  BY <1>10 DEF vars, TypeOK
<1> QED BY <1>1, <1>2, <1>3, <1>4, <1>5, <1>6, <1>7, <1>8, <1>9, <1>10 DEF Next, Step

-----------------------------------------------------------------------------

\* Steps that leave the registry and all services alone, and start to make a
\* service or to look one up for nobody.
LEMMA QuietSteps ==
    ASSUME PathInv, TypeOK',
           UNCHANGED <<registry, service, damaged, raced>>,
           \A r \in Request : /\ pc'[r] \in Making => pc[r] \in Making
                              /\ pc'[r] = "get" => pc[r] = "get"
    PROVE  PathInv'
<1>1. MakerIsAlone'
  BY DEF PathInv, MakerIsAlone
<1>2. ServedFromRegistry'
  BY DEF PathInv, ServedFromRegistry
<1> QED BY <1>1, <1>2 DEF PathInv

LEMMA PathInvNext == PathInv /\ [Next]_vars => PathInv'
<1> SUFFICES ASSUME PathInv, [Next]_vars PROVE PathInv'
  OBVIOUS
<1> USE ThreadFacts
<1>0. TypeOK /\ TypeOK'
  BY TypeNext DEF PathInv
<1>1. CASE Start
  BY <1>0, <1>1, MainIsOther, QuietSteps DEF Start, Goto, TypeOK
<1>2. ASSUME NEW r \in Request, Pass(r) PROVE PathInv'
  BY <1>0, <1>2, QuietSteps DEF Pass, Goto, TypeOK, Making
<1>3. ASSUME NEW r \in Request, Contains(r) PROVE PathInv'
  <2>1. PICK found \in Lookup(r) :
          /\ Goto(r, AfterContains(found))
          /\ damaged' = (damaged \/ found # registry[PathOf[r]])
          /\ raced' = IF /\ found = None
                         /\ \E e \in Request : PathOf[e] = PathOf[r] /\ pc[e] \in Making
                      THEN raced \cup {PathOf[r]} ELSE raced
    BY <1>3 DEF Contains
  <2>2. UNCHANGED <<registry, service>> /\ raced \subseteq raced'
    BY <1>3, <2>1 DEF Contains
  <2>3. /\ \A e \in Request \ {r} : pc'[e] = pc[e]
        /\ pc'[r] = AfterContains(found)
    BY <1>0, <2>1 DEF Goto, TypeOK
  <2>4. ASSUME ~damaged' PROVE ~damaged /\ found = registry[PathOf[r]]
    BY <2>1, <2>4
  <2>5. MakerIsAlone'
    <3> SUFFICES ASSUME ~damaged', NEW e \in Request, pc'[e] \in Making,
                        PathOf[e] \notin raced'
                 PROVE  /\ registry[PathOf[e]] = None
                        /\ \A f \in Request \ {e} :
                              PathOf[f] = PathOf[e] => pc'[f] \notin Making
      BY <2>2 DEF MakerIsAlone
    <3>1. CASE e = r
      <4>1. found = None
        BY <2>3, <3>1 DEF AfterContains, Making
      <4> QED BY <2>1, <2>3, <2>4, <3>1, <4>1
    <3>2. CASE e # r
      <4>1. pc[e] \in Making /\ PathOf[e] \notin raced
        BY <2>2, <2>3, <3>2
      <4>2. /\ registry[PathOf[e]] = None
            /\ \A f \in Request \ {e} : PathOf[f] = PathOf[e] => pc[f] \notin Making
        BY <2>4, <4>1 DEF PathInv, MakerIsAlone
      <4>3. PathOf[r] = PathOf[e] => found = None /\ raced' = raced \cup {PathOf[r]}
        BY <2>1, <2>4, <4>1, <4>2
      <4> QED BY <2>3, <4>2, <4>3
    <3> QED BY <3>1, <3>2
  <2>6. ServedFromRegistry'
    <3>1. pc'[r] = "get" => found # None
      BY <2>3 DEF AfterContains
    <3> QED BY <2>2, <2>3, <2>4, <3>1 DEF PathInv, ServedFromRegistry
  <2> QED BY <1>0, <2>5, <2>6 DEF PathInv
<1>4. ASSUME NEW r \in Request, Get(r) PROVE PathInv'
  <2>1. PICK found \in Lookup(r) :
          /\ service' = [service EXCEPT ![r] = found]
          /\ Goto(r, IF found = None THEN "http" ELSE "connect")
          /\ damaged' = (damaged \/ found # registry[PathOf[r]])
    BY <1>4 DEF Get
  <2>2. UNCHANGED <<registry, raced>>
    BY <1>4 DEF Get
  <2>3. /\ \A e \in Request \ {r} : pc'[e] = pc[e] /\ service'[e] = service[e]
        /\ pc'[r] \notin Making \cup {"get"} /\ service'[r] = found
    BY <1>0, <2>1 DEF Goto, TypeOK, Making
  <2>4. MakerIsAlone'
    BY <2>1, <2>2, <2>3 DEF PathInv, MakerIsAlone
  <2>5. ServedFromRegistry'
    BY <2>1, <2>2, <2>3 DEF PathInv, ServedFromRegistry
  <2> QED BY <1>0, <2>4, <2>5 DEF PathInv
<1>5. ASSUME NEW t \in Thread, CheckInstance(t) \/ NewMetrics(t) \/ ReadInstance(t)
      PROVE  PathInv'
  BY <1>0, <1>5, QuietSteps DEF CheckInstance, NewMetrics, ReadInstance, Goto, TypeOK, Making
<1>6. ASSUME NEW r \in Request, PutEnd(r) PROVE PathInv'
  <2>1. UNCHANGED raced
    BY <1>6 DEF PutEnd
  <2>2. /\ \A e \in Request \ {r} : pc'[e] = pc[e] /\ service'[e] = service[e]
        /\ pc[r] \in Making /\ pc'[r] \notin Making \cup {"get"} /\ service'[r] = r
    BY <1>0, <1>6 DEF PutEnd, Goto, TypeOK, Making
  <2>3. ASSUME ~damaged'
        PROVE  /\ ~damaged /\ registry'[PathOf[r]] = r
               /\ \A p \in Path \ {PathOf[r]} : registry'[p] = registry[p]
    BY <1>0, <1>6, <2>3 DEF PutEnd, Put, TypeOK
  <2>4. ASSUME ~damaged', NEW e \in Request \ {r}, PathOf[e] = PathOf[r],
               PathOf[r] \notin raced
        PROVE  pc[e] \notin Making \cup {"get"} /\ service[e] = None
    BY <2>2, <2>3, <2>4 DEF PathInv, MakerIsAlone, ServedFromRegistry
  <2>5. MakerIsAlone'
    BY <2>1, <2>2, <2>3, <2>4 DEF PathInv, MakerIsAlone
  <2>6. ServedFromRegistry'
    BY <2>1, <2>2, <2>3, <2>4 DEF PathInv, ServedFromRegistry
  <2> QED BY <1>0, <2>5, <2>6 DEF PathInv
<1>7. ASSUME NEW r \in Request, Connect(r) PROVE PathInv'
  BY <1>0, <1>7, QuietSteps DEF Connect, Connected, Goto, TypeOK, Making
<1>8. CASE UNCHANGED vars
  BY <1>0, <1>8, QuietSteps DEF vars
<1> QED BY <1>1, <1>2, <1>3, <1>4, <1>5, <1>6, <1>7, <1>8 DEF Next, Step

LEMMA PathInvInit == Init => PathInv
BY TypeInit, ThreadFacts DEF Init, PathInv, MakerIsAlone, ServedFromRegistry, Making

-----------------------------------------------------------------------------

\* Steps of a thread that leave Metrics alone.
LEMMA MetricsUntouched ==
    ASSUME MetricsInv, TypeOK', UNCHANGED <<instance, metrics, twins>>,
           \A t \in Thread : pc'[t] = "newMetrics" => pc[t] = "newMetrics"
    PROVE  MetricsInv'
BY DEF MetricsInv

LEMMA MetricsInvNext == MetricsInv /\ [Next]_vars => MetricsInv'
<1> SUFFICES ASSUME MetricsInv, [Next]_vars PROVE MetricsInv'
  OBVIOUS
<1> USE ThreadFacts
<1>0. TypeOK /\ TypeOK'
  BY TypeNext DEF MetricsInv
<1>1. CASE Start
  BY <1>0, <1>1, MetricsUntouched DEF Start, Goto, TypeOK
<1>2. ASSUME NEW r \in Request, Pass(r) \/ Contains(r) PROVE MetricsInv'
  BY <1>0, <1>2, MetricsUntouched DEF Pass, Contains, AfterContains, Goto, TypeOK
<1>3. ASSUME NEW r \in Request, Get(r) \/ PutEnd(r) \/ Connect(r) PROVE MetricsInv'
  BY <1>0, <1>3, MetricsUntouched DEF Get, PutEnd, Connect, Connected, Goto, TypeOK
<1>4. ASSUME NEW t \in Thread, CheckInstance(t) PROVE MetricsInv'
  <2>1. /\ \A u \in Thread \ {t} : pc'[u] = pc[u]
        /\ pc'[t] = "newMetrics" => instance = None
    BY <1>0, <1>4 DEF CheckInstance, IsMissing, Goto, TypeOK
  <2>2. UNCHANGED <<instance, metrics>>
    BY <1>4 DEF CheckInstance
  <2>3. ~twins' => /\ ~twins
                   /\ instance = None => \A u \in Thread : pc[u] # "newMetrics"
    BY <1>4 DEF CheckInstance
  <2> QED BY <1>0, <2>1, <2>2, <2>3 DEF MetricsInv
<1>5. ASSUME NEW t \in Thread, NewMetrics(t) PROVE MetricsInv'
  <2>1. /\ \A u \in Thread \ {t} : pc'[u] = pc[u]
        /\ pc[t] = "newMetrics" /\ pc'[t] # "newMetrics"
        /\ UNCHANGED <<metrics, twins>>
    BY <1>0, <1>5 DEF NewMetrics, Goto, TypeOK
  <2>2. ~twins => \A u \in Thread : metrics[u] = None
    BY <2>1 DEF MetricsInv
  <2>3. ~twins => \A u \in Thread : pc'[u] # "newMetrics"
    BY <2>1 DEF MetricsInv
  <2> QED BY <1>0, <2>1, <2>2, <2>3 DEF MetricsInv
<1>6. ASSUME NEW t \in Thread, ReadInstance(t) PROVE MetricsInv'
  <2>1. /\ \A u \in Thread : pc'[u] = "newMetrics" => pc[u] = "newMetrics"
        /\ \A u \in Thread : metrics'[u] = metrics[u] \/ metrics'[u] = instance
        /\ UNCHANGED <<instance, twins>>
    BY <1>0, <1>6 DEF ReadInstance, Goto, TypeOK
  <2> QED BY <1>0, <2>1 DEF MetricsInv
<1>7. CASE UNCHANGED vars
  BY <1>0, <1>7, MetricsUntouched DEF vars
<1> QED BY <1>1, <1>2, <1>3, <1>4, <1>5, <1>6, <1>7 DEF Next, Step

LEMMA MetricsInvInit == Init => MetricsInv
BY TypeInit DEF Init, MetricsInv

-----------------------------------------------------------------------------

\* The type invariant, for any requests and paths.
THEOREM RouterTypeCorrect == Spec => []TypeOK
BY TypeInit, TypeNext, PTL DEF Spec

\* Everybody on a path meets in one chat, unless two requests missed the path at
\* once or the HashMap was hit by two puts.
THEOREM AlwaysOneChatPerPath == Spec => []OneChatPerPath
<1>1. PathInv => OneChatPerPath
  BY DEF PathInv, ServedFromRegistry, OneChatPerPath
<1> QED BY <1>1, PathInvInit, PathInvNext, PTL DEF Spec

\* A registered chat is never replaced by a new one, under the same condition.
THEOREM ChatsAlwaysKept == Spec => ChatsAreKept
<1> DEFINE Kept == \A p \in Path :
          registry[p] # None /\ p \notin raced' /\ ~damaged' => registry'[p] = registry[p]
<1>1. PathInv /\ [Next]_vars => [Kept]_vars
  <2> SUFFICES ASSUME PathInv, Next PROVE Kept
    OBVIOUS
  <2>1. TypeOK
    BY DEF PathInv
  <2>2. ASSUME NEW r \in Request, PutEnd(r) PROVE Kept
    <3> SUFFICES ASSUME NEW p \in Path, registry[p] # None, p \notin raced', ~damaged'
                 PROVE  registry'[p] = registry[p]
      OBVIOUS
    <3>1. registry' = Put(r) /\ ~damaged /\ raced' = raced /\ pc[r] \in Making
      BY <2>2 DEF PutEnd, Making
    <3>2. p # PathOf[r]
      BY <3>1 DEF PathInv, MakerIsAlone
    <3> QED BY <2>1, <3>1, <3>2 DEF Put, TypeOK
  <2>3. CASE UNCHANGED registry
    BY <2>3
  <2> QED BY <2>2, <2>3 DEF Next, Step, Start, Pass, Contains, Get, CheckInstance,
             NewMetrics, ReadInstance, Connect
<1> QED BY <1>1, PathInvInit, PathInvNext, PTL DEF Spec, ChatsAreKept

\* Every chat is counted by the Metrics that the reporter prints, unless two
\* threads were to make it at once.
THEOREM AllAlwaysCounted == Spec => []AllAreCounted
<1>1. MetricsInv => AllAreCounted
  BY DEF MetricsInv, AllAreCounted
<1> QED BY <1>1, MetricsInvInit, MetricsInvNext, PTL DEF Spec
=============================================================================
