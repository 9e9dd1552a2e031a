---------------------------- MODULE UplinkProofs ----------------------------
(***************************************************************************)
(* Theorems about the uplink pipeline, for any number of handlers, threads,*)
(* messages, devices, reports and queries: a connected handler hears, the  *)
(* registry counts every report, and an overtaken report has the last word *)
(* nowhere.                                                                *)
(***************************************************************************)
EXTENDS Uplink, FiniteSetTheorems, TLAPS

-----------------------------------------------------------------------------
\* A handler that has topics and a connection, and whose callback is through, is
\* subscribed, or main is about to look whether it is connected.
Hearing(h) == (topics[h] /\ connected[h] /\ ~callback[h]) => (subscribed[h] \/ setup[h] = "check")
HandlersInv == HandlersTypeOK /\ \A h \in Handlers : Hearing(h)

LEMMA LinksStep ==
    ASSUME HandlersInv, NEW h \in Handlers, SetUp(h) \/ Callbacks(h) PROVE HandlersInv'
<1> USE DEF HandlersInv, HandlersTypeOK, Hearing
<1>1. CASE Connect(h)
  BY <1>1 DEF Connect, Goes
<1>2. CASE Waited(h)
  BY <1>2 DEF Waited, Goes
<1>3. CASE SetTopics(h)
  BY <1>3 DEF SetTopics, Goes
<1>4. CASE Subscribe(h)
  BY <1>4 DEF Subscribe, Goes
<1>5. CASE OnConnect(h)
  BY <1>5 DEF OnConnect
<1>6. CASE Resubscribe(h)
  BY <1>6 DEF Resubscribe
<1>7. CASE OnDisconnect(h)
  BY <1>7, HandlerAssumption DEF OnDisconnect
<1> QED
  BY <1>1, <1>2, <1>3, <1>4, <1>5, <1>6, <1>7 DEF SetUp, Callbacks

LEMMA HandlersStep == HandlersInv /\ [Next]_vars => HandlersInv'
<1> SUFFICES ASSUME HandlersInv, [Next]_vars PROVE HandlersInv'
  OBVIOUS
<1>1. CASE UNCHANGED handlerVars
  BY <1>1 DEF HandlersInv, HandlersTypeOK, Hearing, handlerVars
<1>2. ASSUME NEW h \in Handlers, Links(h) PROVE HandlersInv'
  BY <1>2, LinksStep DEF Links
<1>3. UNCHANGED handlerVars \/ \E h \in Handlers : Links(h)
  BY DEF Next, vars, SetCallback, Step, Take, Upsert, Merge, ToJson, Publish, SceneEnter,
         SceneReads, SceneLeave, Query, Rest
<1> QED
  BY <1>1, <1>2, <1>3

\* A handler that has been set up and is connected is subscribed, however connections and
\* the steps of main and of the network threads interleave (subscribe, _on_connect).
THEOREM ConnectedHears == Spec => []HandlersHear
<1>1. Init => HandlersInv
  BY HandlerAssumption DEF Init, HandlersInit, HandlersInv, HandlersTypeOK, Hearing
<1>2. HandlersInv => HandlersHear
  BY DEF HandlersInv, Hearing, HandlersHear
<1> QED
  BY <1>1, <1>2, HandlersStep, PTL DEF Spec

-----------------------------------------------------------------------------
\* The values of the variables of the pipeline: TypeOK, and what it leaves open.
Stages == {"idle", "upsert", "merge", "insert", "json", "publish", "scene", "evaluate"}
Registered == {"merge", "json", "publish", "scene", "evaluate"}

Workers ==
    /\ ready \in BOOLEAN /\ reports \in Stamp
    /\ pc \in [Threads -> Stages]
    /\ msg \in [Threads -> Messages] /\ report \in [Threads -> Stamp]
    /\ json \in [Threads -> [head : Stamp, raw : {ByReference}]]
    /\ seen \in [Threads -> Seq(Stamp)]
    /\ \A t \in Threads : Len(seen[t]) <= Len(Conditions)

\* A lock belongs to the thread that is inside.
Locks ==
    /\ {regLock, engLock} \subseteq Threads \cup {Nobody}
    /\ \A t \in Threads : pc[t] \in {"merge", "insert"} <=> regLock = t
    /\ \A t \in Threads : pc[t] = "evaluate" <=> engLock = t

\* A thread that got through upsert finds its device registered; one that is to insert it
\* finds room for it.
Places ==
    \A t \in Threads :
      /\ pc[t] \in Registered => Of(t) \in DOMAIN devices
      /\ pc[t] = "insert" => /\ Of(t) \notin DOMAIN devices
                             /\ Cardinality(DOMAIN devices) < MaxDevices

Registry ==
    /\ DOMAIN devices \subseteq Ids /\ IsFiniteSet(DOMAIN devices)
    /\ Cardinality(DOMAIN devices) <= MaxDevices
    /\ \A d \in DOMAIN devices : devices[d] \in Device
    /\ DOMAIN accepted = DOMAIN devices
    /\ \A d \in DOMAIN devices : devices[d].count = accepted[d]
    /\ DOMAIN update \subseteq DOMAIN devices
    /\ DOMAIN evaluated \subseteq DOMAIN devices
    /\ unsent \subseteq DOMAIN devices /\ cut \subseteq DOMAIN evaluated

\* What a query has read lies between what there was and what there is.
Queries ==
    /\ DOMAIN query \subseteq DOMAIN devices
    /\ \A d \in DOMAIN query :
         /\ query[d] \in [asked : Nat, read : BOOLEAN, count : Nat]
         /\ query[d].asked <= accepted[d]
         /\ query[d].read => query[d].asked <= query[d].count
                             /\ query[d].count <= accepted[d]

RegistryInv == Workers /\ Locks /\ Places /\ Registry /\ Queries

LEMMA Keyed == /\ \A m \in Messages : DeviceId(m) \in Ids /\ Raw(m) \subseteq Keys
               /\ \A i \in DOMAIN Conditions : Conditions[i] \in Keys
               /\ NoMessage \in Messages /\ Nobody \notin Threads
               /\ 0 \in Stamp
  BY UplinkAssumption DEF Ids, Keys, ToSet, NoMessage, Stamp

LEMMA TakeStep ==
    ASSUME RegistryInv, NEW t \in Threads, NEW m \in Messages, Take(t, m) PROVE RegistryInv'
<1>0. reports' \in Stamp /\ (Parses(m) => reports + 1 \in Stamp)
  BY UplinkAssumption DEF RegistryInv, Workers, Take, Stamp
<1>1. Workers'
  BY <1>0 DEF RegistryInv, Workers, Take, Goto, Stages, sceneVars, updateVars
<1>4. Locks'
  BY DEF RegistryInv, Workers, Locks, Take, Goto, registryVars, sceneVars, updateVars
<1>2. Places'
  BY DEF RegistryInv, Places, Workers, Take, Goto, Of, registryVars, Registered
<1>3. Registry' /\ Queries'
  BY DEF RegistryInv, Registry, Queries, Take, registryVars, sceneVars, updateVars
<1> QED
  BY <1>1, <1>2, <1>3, <1>4 DEF RegistryInv

LEMMA UpsertStep ==
    ASSUME RegistryInv, NEW t \in Threads, Upsert(t) PROVE RegistryInv'
<1> DEFINE d == Of(t)
<1>0. d \in Ids /\ pc[t] = "upsert" /\ regLock = Nobody
  BY Keyed DEF RegistryInv, Workers, Of, Upsert, RegistryFree
<1>1. CASE d \in DOMAIN devices
  <2>1. /\ devices' = [devices EXCEPT ![d].head = report[t]] /\ Goto(t, "merge") /\ regLock' = t
        /\ UNCHANGED <<handlerVars, ready, accepted, sceneVars, json, updateVars, reports, query, threadVars>>
    BY <1>1 DEF Upsert
  <2>2. devices[d] \in Device /\ report[t] \in Stamp
    BY <1>1 DEF RegistryInv, Registry, Workers
  <2>3. /\ DOMAIN devices' = DOMAIN devices
        /\ \A e \in DOMAIN devices : devices'[e] \in Device /\ devices'[e].count = devices[e].count
    BY <2>1, <2>2 DEF RegistryInv, Registry, Device
  <2>4. Workers' /\ Locks'
    BY <1>0, <2>1, Keyed DEF RegistryInv, Workers, Locks, Goto, Stages, sceneVars, updateVars, threadVars
  <2>5. Places'
    BY <1>0, <1>1, <2>1, <2>3 DEF RegistryInv, Places, Workers, Locks, Goto, Of, threadVars, Registered
  <2>6. Registry' /\ Queries'
    BY <2>1, <2>3 DEF RegistryInv, Registry, Queries, sceneVars, updateVars
  <2> QED
    BY <2>4, <2>5, <2>6 DEF RegistryInv
<1>2. CASE d \notin DOMAIN devices
  <2>1. \/ /\ Cardinality(DOMAIN devices) < MaxDevices
           /\ regLock' = t /\ Goto(t, "insert") /\ UNCHANGED threadVars
        \/ Done(t) /\ UNCHANGED regLock
    BY <1>2 DEF Upsert
  <2>2. UNCHANGED <<handlerVars, ready, accepted, sceneVars, json, updateVars, reports, query, devices>>
    BY <1>2 DEF Upsert
  <2>3. Workers'
    <3>1. pc' \in [Threads -> Stages]
      BY <2>1 DEF RegistryInv, Workers, Goto, Done, Stages
    <3>2. msg' \in [Threads -> Messages] /\ report' \in [Threads -> Stamp]
      BY <2>1, Keyed DEF RegistryInv, Workers, Done, threadVars
    <3> QED
      BY <2>2, <3>1, <3>2 DEF RegistryInv, Workers, sceneVars, updateVars
  <2>6. Locks'
    BY <1>0, <2>1, <2>2, Keyed DEF RegistryInv, Workers, Locks, Goto, Done, sceneVars, updateVars
  <2>4. Places'
    BY <1>0, <1>2, <2>1, <2>2 DEF RegistryInv, Places, Workers, Goto, Done, Of, threadVars, Registered
  <2>5. Registry' /\ Queries'
    BY <2>2 DEF RegistryInv, Registry, Queries, sceneVars, updateVars
  <2> QED
    BY <2>3, <2>4, <2>5, <2>6 DEF RegistryInv
<1> QED
  BY <1>1, <1>2

LEMMA MergeStep ==
    ASSUME RegistryInv, NEW t \in Threads, Merge(t) PROVE RegistryInv'
<1> DEFINE d == Of(t)
           old == IF pc[t] = "insert" THEN [head |-> report[t], raw |-> [k \in Keys |-> 0], count |-> 0]
                  ELSE devices[d]
           new == [head |-> old.head, raw |-> Merged(old.raw, t), count |-> old.count + 1]
<1>1. /\ pc[t] \in {"merge", "insert"}
      /\ devices' = Put(devices, d, new)
      /\ accepted' = Put(accepted, d, IF d \in DOMAIN accepted THEN accepted[d] + 1 ELSE 1)
      /\ regLock' = Nobody /\ Goto(t, "json")
      /\ UNCHANGED <<handlerVars, ready, sceneVars, threadVars, json, updateVars, reports, query>>
  BY DEF Merge
<1>2. d \in Ids /\ regLock = t /\ report[t] \in Stamp
  BY <1>1, Keyed DEF RegistryInv, Workers, Locks, Of
<1>3. old \in Device
  BY <1>1, <1>2, Keyed DEF RegistryInv, Places, Registry, Registered, Device, Reading
<1>4. Merged(old.raw, t) \in Reading
  BY <1>2, <1>3 DEF Merged, Reading, Device
<1>5. new \in Device
  BY <1>3, <1>4 DEF Device
<1>6. /\ DOMAIN devices' = DOMAIN devices \cup {d} /\ DOMAIN accepted' = DOMAIN devices \cup {d}
      /\ \A e \in DOMAIN devices \ {d} : devices'[e] = devices[e] /\ accepted'[e] = accepted[e]
      /\ devices'[d] \in Device
      /\ devices'[d].count = old.count + 1
      /\ accepted'[d] = IF d \in DOMAIN devices THEN accepted[d] + 1 ELSE 1
  BY <1>1, <1>3, <1>5 DEF Put, RegistryInv, Registry, Device
<1>7. devices'[d].count = accepted'[d]
  BY <1>1, <1>6 DEF RegistryInv, Places, Registry, Registered
<1>8. IsFiniteSet(DOMAIN devices') /\ Cardinality(DOMAIN devices') <= MaxDevices
  <2>1. CASE pc[t] = "insert"
    <3>1. IsFiniteSet(DOMAIN devices) /\ Cardinality(DOMAIN devices) < MaxDevices /\ d \notin DOMAIN devices
      BY <2>1 DEF RegistryInv, Registry, Places
    <3>2. Cardinality(DOMAIN devices) \in Nat /\ MaxDevices \in Nat
      BY <3>1, FS_CardinalityType, UplinkAssumption
    <3>3. /\ IsFiniteSet(DOMAIN devices \cup {d})
          /\ Cardinality(DOMAIN devices \cup {d}) = Cardinality(DOMAIN devices) + 1
      BY <3>1, FS_AddElement
    <3> QED
      BY <1>6, <3>1, <3>2, <3>3
  <2>2. CASE pc[t] = "merge"
    <3>1. DOMAIN devices \cup {d} = DOMAIN devices
      BY <2>2 DEF RegistryInv, Places, Registered
    <3> QED
      BY <1>6, <3>1 DEF RegistryInv, Registry
  <2> QED
    BY <1>1, <2>1, <2>2
<1>9. Workers' /\ Locks'
  BY <1>1, <1>2, Keyed DEF RegistryInv, Workers, Locks, Goto, Stages, sceneVars, updateVars, threadVars
<1>10. Places'
  <2> SUFFICES ASSUME NEW u \in Threads
               PROVE /\ pc'[u] \in Registered => Of(u)' \in DOMAIN devices'
                     /\ pc'[u] # "insert"
    BY DEF Places
  <2>1. Of(u)' = Of(u)
    BY <1>1 DEF Of, threadVars
  <2> QED
    BY <1>1, <1>2, <1>6, <2>1, Keyed DEF RegistryInv, Workers, Places, Locks, Goto, Registered
<1>11. Registry'
  BY <1>1, <1>2, <1>6, <1>7, <1>8 DEF RegistryInv, Registry, sceneVars, updateVars
<1>12. Queries'
  <2>1. \A e \in DOMAIN devices : accepted[e] \in Nat /\ accepted'[e] >= accepted[e] /\ accepted'[e] \in Nat
    BY <1>6 DEF RegistryInv, Registry, Device
  <2> QED
    BY <1>1, <1>6, <2>1 DEF RegistryInv, Queries
<1> QED
  BY <1>9, <1>10, <1>11, <1>12 DEF RegistryInv

LEMMA ReportStep ==     \* from to_json to the end of on_uplink
    ASSUME RegistryInv, NEW t \in Threads,
           ToJson(t) \/ Publish(t) \/ SceneEnter(t) \/ SceneReads(t) \/ SceneLeave(t)
    PROVE  RegistryInv'
<1> DEFINE d == Of(t)
<1>0. d \in DOMAIN devices /\ devices[d] \in Device /\ pc[t] \in Registered \ {"merge"}
  BY DEF RegistryInv, Places, Registry, Registered, ToJson, Publish, SceneEnter, SceneReads, SceneLeave
<1>1. /\ UNCHANGED <<ready, registryVars, reports, query>>
      /\ DOMAIN update' \subseteq DOMAIN devices /\ DOMAIN evaluated' \subseteq DOMAIN devices
      /\ unsent' \subseteq DOMAIN devices /\ cut' \subseteq DOMAIN evaluated'
  <2>1. CASE Publish(t)
    BY <1>0, <2>1 DEF RegistryInv, Registry, Publish, Put, sceneVars
  <2>2. CASE SceneLeave(t)
    BY <1>0, <2>2 DEF RegistryInv, Registry, SceneLeave, Put, updateVars
  <2>3. CASE ToJson(t) \/ SceneEnter(t) \/ SceneReads(t)
    BY <2>3 DEF RegistryInv, Registry, ToJson, SceneEnter, SceneReads, sceneVars, updateVars
  <2> QED
    BY <2>1, <2>2, <2>3 DEF Publish, SceneLeave
<1>2. Registry' /\ Queries'
  BY <1>1 DEF RegistryInv, Registry, Queries, registryVars
<1>3. /\ pc'[t] \in {"publish", "scene", "evaluate", "idle"}
      /\ \A u \in Threads \ {t} : pc'[u] = pc[u] /\ msg'[u] = msg[u]
      /\ pc'[t] # "idle" => msg'[t] = msg[t]
      /\ pc' \in [Threads -> Stages] /\ msg' \in [Threads -> Messages]
      /\ report' \in [Threads -> Stamp]
  <2>1. CASE ToJson(t) \/ Publish(t) \/ SceneEnter(t) \/ SceneReads(t)
    <3>1. /\ UNCHANGED <<msg, report>>
          /\ UNCHANGED pc \/ \E at \in {"publish", "scene", "evaluate"} : Goto(t, at)
      BY <2>1 DEF ToJson, Publish, SceneEnter, SceneReads, threadVars
    <3>2. pc[t] = "evaluate" \/ ~UNCHANGED pc
      BY <2>1 DEF ToJson, Publish, SceneEnter, SceneReads, Goto, RegistryInv, Workers
    <3> QED
      BY <3>1, <3>2 DEF RegistryInv, Workers, Goto, Stages
  <2>2. CASE SceneLeave(t)
    BY <2>2, Keyed DEF RegistryInv, Workers, SceneLeave, Goto, Done, Stages
  <2> QED
    BY <2>1, <2>2
<1>4. Places'
  BY <1>1, <1>3, <1>0 DEF RegistryInv, Places, Of, registryVars, Registered
<1>5. /\ json' \in [Threads -> [head : Stamp, raw : {ByReference}]]
      /\ seen' \in [Threads -> Seq(Stamp)] /\ \A u \in Threads : Len(seen'[u]) <= Len(Conditions)
  <2>1. CASE ToJson(t)
    BY <1>0, <2>1 DEF RegistryInv, Workers, ToJson, Json, Device, sceneVars, updateVars
  <2>2. CASE Publish(t)
    BY <2>2, Keyed DEF RegistryInv, Workers, Publish, NoJson, sceneVars, updateVars
  <2>3. CASE SceneEnter(t) \/ SceneLeave(t)
    <3>1. seen' = [seen EXCEPT ![t] = <<>>] /\ json' = json
      BY <2>3 DEF SceneEnter, SceneLeave
    <3>2. <<>> \in Seq(Stamp) /\ Len(<<>>) = 0 /\ Len(Conditions) \in Nat
      BY UplinkAssumption
    <3>3. \A u \in Threads : seen'[u] = IF u = t THEN <<>> ELSE seen[u]
      BY <3>1 DEF RegistryInv, Workers
    <3> QED
      BY <3>1, <3>2, <3>3 DEF RegistryInv, Workers
  <2>4. CASE SceneReads(t)
    <3>1. Len(seen[t]) \in Nat /\ Len(Conditions) \in Nat /\ Len(seen[t]) < Len(Conditions)
      BY <2>4, UplinkAssumption DEF RegistryInv, Workers, SceneReads
    <3>2. Conditions[Len(seen[t]) + 1] \in Keys
      BY <3>1, Keyed, UplinkAssumption
    <3>3. devices[d].raw[Conditions[Len(seen[t]) + 1]] \in Stamp
      BY <1>0, <3>2 DEF Device, Reading
    <3> QED
      BY <2>4, <3>1, <3>3 DEF RegistryInv, Workers, SceneReads
  <2> QED
    BY <2>1, <2>2, <2>3, <2>4
<1>6. Workers'
  BY <1>1, <1>3, <1>5 DEF RegistryInv, Workers
<1>7. Locks'
  <2>1. regLock' = regLock /\ pc[t] \notin {"merge", "insert"}
    BY <1>0, <1>1 DEF registryVars, Registered
  <2>2. \/ engLock' = engLock /\ pc[t] # "evaluate" /\ pc'[t] # "evaluate"
        \/ engLock = Nobody /\ engLock' = t /\ pc'[t] = "evaluate"
        \/ engLock' = engLock /\ pc[t] = "evaluate" /\ pc'[t] = "evaluate"
        \/ engLock' = Nobody /\ pc[t] = "evaluate" /\ pc'[t] = "idle"
    BY DEF RegistryInv, Workers, ToJson, Publish, SceneEnter, SceneReads, SceneLeave, Goto, Done,
           sceneVars, updateVars, EngineFree
  <2> QED
    BY <1>3, <2>1, <2>2, Keyed DEF RegistryInv, Locks
<1> QED
  BY <1>2, <1>4, <1>6, <1>7 DEF RegistryInv

LEMMA QueryStep == ASSUME RegistryInv, Query PROVE RegistryInv'
<1>1. UNCHANGED <<ready, registryVars, sceneVars, threadVars, pc, json, updateVars, reports>>
  BY DEF Query
<1>2. Workers' /\ Locks' /\ Places' /\ Registry'
  BY <1>1 DEF RegistryInv, Workers, Locks, Places, Registry, registryVars, sceneVars, updateVars, threadVars, Of
<1>3. \A e \in DOMAIN devices : accepted[e] = devices[e].count /\ devices[e] \in Device
  BY DEF RegistryInv, Registry
<1>4. Queries'
  <2>1. CASE QueryAsk
    BY <1>1, <1>3, <2>1, Keyed DEF RegistryInv, Queries, QueryAsk, Device, registryVars
  <2>2. ASSUME NEW e \in DOMAIN query, QueryReads(e) PROVE Queries'
    <3>1. query[e] \in [asked : Nat, read : BOOLEAN, count : Nat]
          /\ query[e].asked <= accepted[e] /\ e \in DOMAIN devices
      BY <2>2 DEF RegistryInv, Queries
    <3>3. /\ DOMAIN query' = DOMAIN query
          /\ \A d \in DOMAIN query \ {e} : query'[d] = query[d]
          /\ query'[e] = [asked |-> query[e].asked, read |-> TRUE, count |-> devices[e].count]
      BY <2>2 DEF QueryReads
    <3>4. query # <<>> /\ UNCHANGED <<devices, accepted>>
      BY <1>1, <2>2 DEF QueryReads, registryVars
    <3>5. devices[e].head \in Stamp /\ devices[e].count \in Nat /\ devices[e].count = accepted[e]
      BY <1>3, <3>1 DEF Device
    <3>6. /\ query'[e] \in [asked : Nat, read : BOOLEAN, count : Nat]
          /\ query'[e].asked = query[e].asked /\ query'[e].count = accepted[e]
      BY <3>1, <3>3, <3>5
    <3>7. \A d \in DOMAIN query :
            /\ query'[d] \in [asked : Nat, read : BOOLEAN, count : Nat]
            /\ query'[d].asked <= accepted[d]
            /\ query'[d].read => query'[d].asked <= query'[d].count
                                 /\ query'[d].count <= accepted[d]
      <4> SUFFICES ASSUME NEW d \in DOMAIN query, d # e
                   PROVE  query'[d] = query[d]
        BY <3>1, <3>5, <3>6 DEF RegistryInv, Queries
      <4> QED
        BY <3>3
    <3> QED
      BY <3>1, <3>3, <3>4, <3>7 DEF RegistryInv, Queries
  <2>3. CASE QueryReply
    BY <1>1, <2>3, UplinkAssumption DEF RegistryInv, Queries, QueryReply, registryVars
  <2> QED
    BY <2>1, <2>2, <2>3 DEF Query
<1> QED
  BY <1>2, <1>4 DEF RegistryInv

LEMMA RegistryStep == RegistryInv /\ [Next]_vars => RegistryInv'
<1> SUFFICES ASSUME RegistryInv, [Next]_vars PROVE RegistryInv'
  OBVIOUS
<1>1. CASE SetCallback \/ (\E h \in Handlers : Links(h)) \/ UNCHANGED vars
  <2>1. /\ UNCHANGED <<registryVars, sceneVars, threadVars, pc, json, updateVars, reports, query>>
        /\ ready' \in BOOLEAN
    BY <1>1 DEF SetCallback, Links, vars, RegistryInv, Workers, registryVars, sceneVars, updateVars, threadVars
  <2> QED
    BY <2>1 DEF RegistryInv, Workers, Locks, Places, Registry, Queries, registryVars, sceneVars, updateVars,
                threadVars, Of
<1>2. ASSUME NEW t \in Threads, Step(t) PROVE RegistryInv'
  BY <1>2, TakeStep, UpsertStep, MergeStep, ReportStep DEF Step
<1> QED
  BY <1>1, <1>2, QueryStep DEF Next, Rest

LEMMA RegistryInit == Init => RegistryInv
<1> SUFFICES ASSUME Init PROVE RegistryInv
  OBVIOUS
<1>1. DOMAIN devices = {} /\ DOMAIN accepted = {} /\ DOMAIN query = {}
      /\ DOMAIN update = {} /\ DOMAIN evaluated = {} /\ unsent = {} /\ cut = {}
  BY DEF Init
<1>2. IsFiniteSet({}) /\ Cardinality({}) = 0
  BY FS_EmptySet
<1>3. Workers /\ Locks /\ Places
  <2>1. pc = [t \in Threads |-> "idle"] /\ msg \in [Threads -> Messages] /\ report \in [Threads -> Stamp]
    BY Keyed DEF Init
  <2>2. json \in [Threads -> [head : Stamp, raw : {ByReference}]]
    BY Keyed DEF Init, NoJson
  <2>3. seen \in [Threads -> Seq(Stamp)] /\ \A t \in Threads : Len(seen[t]) <= Len(Conditions)
    BY UplinkAssumption DEF Init
  <2> QED
    BY <2>1, <2>2, <2>3, Keyed DEF Init, Workers, Locks, Places, Stages, Registered
<1>4. Registry /\ Queries
  BY <1>1, <1>2, UplinkAssumption DEF Init, Registry, Queries
<1> QED
  BY <1>3, <1>4 DEF RegistryInv

\* The values of the variables, the locks among them, in every state.
THEOREM TypesKept == Spec => []TypeOK
<1>1. Init => HandlersInv
  BY HandlerAssumption DEF Init, HandlersInit, HandlersInv, HandlersTypeOK, Hearing
<1>2. HandlersInv /\ RegistryInv => TypeOK
  BY DEF HandlersInv, RegistryInv, Workers, Locks, Registry, Queries, TypeOK, Stages
<1> QED
  BY <1>1, <1>2, HandlersStep, RegistryInit, RegistryStep, PTL DEF Spec

\* The registry counts every report it was given, has no more devices than it may, and what
\* a query tells was true at some time between its question and now, for any number of
\* threads, devices and reports (upsert, lookup, to_json).
THEOREM RegistryKept == Spec => []RegistryExact
<1>1. RegistryInv => RegistryExact
  BY DEF RegistryInv, Registry, Queries, RegistryExact
<1> QED
  BY <1>1, RegistryInit, RegistryStep, PTL DEF Spec

-----------------------------------------------------------------------------
\* A thread that has merged its report of d and is not yet past one of the stages S.
Underway(d, S) == \E t \in Threads : pc[t] \in S /\ Of(t) = d
Current(d, i) == devices[d].raw[Conditions[i]]

\* What was published last is current, unless sending it failed, or a thread that has
\* merged is still to publish.
UpdateInv ==
    \A d \in DOMAIN devices :
      \/ d \in unsent \/ (d \in DOMAIN update /\ update[d].raw = devices[d].raw)
      \/ Underway(d, {"json", "publish"})

\* So is what was evaluated last, all of it if no rule raised, and what an evaluation under
\* way has looked at; or a thread that has merged is still to evaluate.
Evaluated(d) ==
    /\ d \in DOMAIN evaluated
    /\ \A i \in DOMAIN evaluated[d] : evaluated[d][i] = Current(d, i)
    /\ Len(evaluated[d]) = Len(Conditions) \/ d \in cut

EvaluationInv ==
    /\ \A t \in Threads : pc[t] = "evaluate" =>
         \/ \A i \in 1 .. Len(seen[t]) : seen[t][i] = Current(Of(t), i)
         \/ Underway(Of(t), {"json", "publish", "scene"})
    /\ \A d \in DOMAIN devices :
         \/ Evaluated(d)
         \/ Underway(d, {"json", "publish", "scene", "evaluate"})

LastInv == UpdateInv /\ EvaluationInv

LEMMA SameLast ==
    ASSUME LastInv, UNCHANGED <<pc, msg, updateVars, seen, evaluated, cut, devices>> PROVE LastInv'
  BY DEF LastInv, UpdateInv, EvaluationInv, Evaluated, updateVars, Underway, Current, Of

\* A step of a thread that leaves the readings alone and stays within its stages.
LEMMA QuietStep ==
    ASSUME RegistryInv, LastInv, NEW t \in Threads, NEW at \in {"upsert", "merge", "insert", "idle"},
           pc[t] \in {"idle", "upsert"}, pc' = [pc EXCEPT ![t] = at],
           \A u \in Threads \ {t} : msg'[u] = msg[u],
           UNCHANGED <<updateVars, seen, evaluated, cut>>,
           DOMAIN devices' = DOMAIN devices,
           \A d \in DOMAIN devices : devices'[d].raw = devices[d].raw
    PROVE  LastInv'
<1>1. \A u \in Threads : pc'[u] \in {"json", "publish", "scene", "evaluate"}
                         => u # t /\ pc'[u] = pc[u] /\ Of(u)' = Of(u)
  BY DEF RegistryInv, Workers, Of
<1>2. \A u \in Threads : pc[u] \in {"json", "publish", "scene", "evaluate"}
                         => u # t /\ pc'[u] = pc[u] /\ Of(u)' = Of(u)
  BY DEF RegistryInv, Workers, Of
<1>3. \A S \in SUBSET {"json", "publish", "scene", "evaluate"} : \A d : Underway(d, S) => Underway(d, S)'
  BY <1>2 DEF Underway
<1>4. UpdateInv'
  BY <1>3 DEF LastInv, UpdateInv, updateVars
<1>5. \A u \in Threads : pc'[u] = "evaluate" => Of(u)' \in DOMAIN devices
  BY <1>1 DEF RegistryInv, Places, Registered
<1>6. EvaluationInv'
  BY <1>1, <1>3, <1>5 DEF LastInv, EvaluationInv, Evaluated, Current
<1> QED
  BY <1>4, <1>6 DEF LastInv

LEMMA MergeLast ==
    ASSUME RegistryInv, LastInv, NEW t \in Threads, Merge(t) PROVE LastInv'
<1> DEFINE d == Of(t)
<1>1. /\ pc[t] \in {"merge", "insert"} /\ Goto(t, "json") /\ UNCHANGED <<msg, updateVars, seen, evaluated, cut>>
      /\ DOMAIN devices' = DOMAIN devices \cup {d}
      /\ \A e \in DOMAIN devices \ {d} : devices'[e] = devices[e]
  BY DEF Merge, Put, sceneVars, updateVars, threadVars
<1>2. /\ \A u \in Threads : Of(u)' = Of(u)
      /\ pc'[t] = "json" /\ \A u \in Threads \ {t} : pc'[u] = pc[u]
  BY <1>1 DEF RegistryInv, Workers, Of, Goto
<1>3. \A e, S : (e = d /\ "json" \in S) => Underway(e, S)'
  BY <1>2 DEF Underway
<1>4. \A S \in SUBSET {"json", "publish", "scene", "evaluate"} : \A e : Underway(e, S) => Underway(e, S)'
  BY <1>1, <1>2 DEF Underway
<1>5. UpdateInv'
  <2> SUFFICES ASSUME NEW e \in DOMAIN devices', e # d
               PROVE  \/ e \in unsent' \/ (e \in DOMAIN update' /\ update'[e].raw = devices'[e].raw)
                      \/ Underway(e, {"json", "publish"})'
    BY <1>3 DEF UpdateInv
  <2>1. e \in DOMAIN devices /\ devices'[e] = devices[e]
    BY <1>1
  <2> QED
    BY <1>1, <1>4, <2>1 DEF LastInv, UpdateInv, updateVars
<1>6. EvaluationInv'
  <2>1. ASSUME NEW u \in Threads, pc'[u] = "evaluate"
        PROVE  \/ \A i \in 1 .. Len(seen'[u]) : seen'[u][i] = Current(Of(u), i)'
               \/ Underway(Of(u), {"json", "publish", "scene"})'
    <3>1. CASE Of(u) = d
      BY <1>2, <1>3, <3>1 DEF Underway
    <3>2. CASE Of(u) # d
      <4>1. pc[u] = "evaluate" /\ Of(u) \in DOMAIN devices \ {d}
        BY <1>2, <2>1, <3>2 DEF RegistryInv, Places, Registered
      <4> QED
        BY <1>1, <1>2, <1>4, <4>1 DEF LastInv, EvaluationInv, Evaluated, Current
    <3> QED
      BY <3>1, <3>2
  <2>2. ASSUME NEW e \in DOMAIN devices'
        PROVE  \/ Evaluated(e)'
               \/ Underway(e, {"json", "publish", "scene", "evaluate"})'
    <3>1. CASE e = d
      BY <1>3, <3>1
    <3>2. CASE e # d
      <4>1. e \in DOMAIN devices /\ devices'[e] = devices[e]
        BY <1>1, <2>2, <3>2
      <4>2. \/ Evaluated(e)
            \/ Underway(e, {"json", "publish", "scene", "evaluate"})
        BY <4>1 DEF LastInv, EvaluationInv
      <4>3. Evaluated(e) => Evaluated(e)'
        BY <1>1, <4>1 DEF Evaluated, Current
      <4> QED
        BY <1>4, <4>2, <4>3
    <3> QED
      BY <3>1, <3>2
  <2> QED
    BY <2>1, <2>2 DEF EvaluationInv
<1> QED
  BY <1>5, <1>6 DEF LastInv

LEMMA UpsertLast ==
    ASSUME RegistryInv, LastInv, NEW t \in Threads, Upsert(t) PROVE LastInv'
<1>1. /\ pc[t] = "upsert" /\ UNCHANGED <<updateVars, seen, evaluated, cut>>
      /\ \E at \in {"upsert", "merge", "insert", "idle"} : pc' = [pc EXCEPT ![t] = at]
      /\ \A u \in Threads \ {t} : msg'[u] = msg[u]
  BY DEF Upsert, Goto, Done, threadVars, sceneVars, updateVars, RegistryInv, Workers
<1>2. DOMAIN devices' = DOMAIN devices /\ \A e \in DOMAIN devices : devices'[e].raw = devices[e].raw
  <2>1. CASE devices' = [devices EXCEPT ![Of(t)].head = report[t]] /\ Of(t) \in DOMAIN devices
    BY <2>1 DEF RegistryInv, Registry, Device
  <2>2. CASE UNCHANGED devices
    BY <2>2
  <2> QED
    BY <2>1, <2>2 DEF Upsert
<1> QED
  BY <1>1, <1>2, QuietStep

LEMMA TakeLast ==
    ASSUME RegistryInv, LastInv, NEW t \in Threads, NEW m \in Messages, Take(t, m) PROVE LastInv'
<1>1. CASE Parses(m)
  <2>1. /\ pc[t] = "idle" /\ pc' = [pc EXCEPT ![t] = "upsert"]
        /\ \A u \in Threads \ {t} : msg'[u] = msg[u]
        /\ UNCHANGED <<updateVars, seen, evaluated, cut, devices>>
    BY <1>1 DEF Take, Goto, registryVars, sceneVars, updateVars, RegistryInv, Workers
  <2> QED
    BY <2>1, QuietStep
<1>2. CASE ~Parses(m)
  <2>1. UNCHANGED <<pc, msg, updateVars, seen, evaluated, cut, devices>>
    BY <1>2 DEF Take, registryVars, sceneVars, updateVars
  <2> QED
    BY <2>1, SameLast
<1> QED
  BY <1>1, <1>2

LEMMA PublishLast ==
    ASSUME RegistryInv, LastInv, NEW t \in Threads, Publish(t) PROVE LastInv'
<1> DEFINE d == Of(t)
<1>1. /\ pc[t] = "publish" /\ Goto(t, "scene") /\ UNCHANGED <<msg, devices, seen, evaluated, cut>>
      /\ \/ /\ update' = Put(update, d, [json[t] EXCEPT !.raw = devices[d].raw])
            /\ unsent' = unsent \ {d}
         \/ unsent' = unsent \cup {d} /\ UNCHANGED update
  BY DEF Publish, sceneVars, threadVars, registryVars, RegistryInv, Workers
<1>2. /\ \A u \in Threads : Of(u)' = Of(u)
      /\ pc'[t] = "scene" /\ \A u \in Threads \ {t} : pc'[u] = pc[u]
  BY <1>1 DEF RegistryInv, Workers, Of, Goto
<1>3. \A S : {"json", "publish", "scene"} \subseteq S => \A e : Underway(e, S) => Underway(e, S)'
  BY <1>1, <1>2 DEF Underway
<1>4. \A e : e # d /\ Underway(e, {"json", "publish"}) => Underway(e, {"json", "publish"})'
  BY <1>2 DEF Underway
<1>5. json[t] \in [head : Stamp, raw : {ByReference}]
  BY DEF RegistryInv, Workers
<1>6. /\ d \in unsent' \/ (d \in DOMAIN update' /\ update'[d].raw = devices[d].raw)
      /\ \A e \in DOMAIN update \ {d} : e \in DOMAIN update' /\ update'[e] = update[e]
      /\ \A e \in unsent \ {d} : e \in unsent'
  BY <1>1, <1>5 DEF Put
<1>7. UpdateInv'
  <2> SUFFICES ASSUME NEW e \in DOMAIN devices, e # d
               PROVE  \/ e \in unsent' \/ (e \in DOMAIN update' /\ update'[e].raw = devices[e].raw)
                      \/ Underway(e, {"json", "publish"})'
    BY <1>1, <1>6 DEF UpdateInv
  <2> QED
    BY <1>4, <1>6 DEF LastInv, UpdateInv, updateVars
<1>8. EvaluationInv'
  <2>1. ASSUME NEW u \in Threads, pc'[u] = "evaluate"
        PROVE  \/ \A i \in 1 .. Len(seen'[u]) : seen'[u][i] = Current(Of(u), i)'
               \/ Underway(Of(u), {"json", "publish", "scene"})'
    <3>1. pc[u] = "evaluate" /\ Of(u)' = Of(u)
      BY <1>2, <2>1
    <3> QED
      BY <1>1, <1>3, <3>1 DEF LastInv, EvaluationInv, Evaluated, Current
  <2>2. ASSUME NEW e \in DOMAIN devices
        PROVE  \/ Evaluated(e)'
               \/ Underway(e, {"json", "publish", "scene", "evaluate"})'
    BY <1>1, <1>3 DEF LastInv, EvaluationInv, Evaluated, Current
  <2> QED
    BY <1>1, <2>1, <2>2 DEF EvaluationInv
<1> QED
  BY <1>7, <1>8 DEF LastInv

LEMMA ToJsonLast ==
    ASSUME RegistryInv, LastInv, NEW t \in Threads, ToJson(t) PROVE LastInv'
<1>1. /\ pc[t] = "json" /\ Goto(t, "publish") /\ UNCHANGED <<msg, devices, updateVars, seen, evaluated, cut>>
  BY DEF ToJson, sceneVars, updateVars, threadVars, registryVars
<1>2. /\ \A u \in Threads : Of(u)' = Of(u)
      /\ pc'[t] = "publish" /\ \A u \in Threads \ {t} : pc'[u] = pc[u]
  BY <1>1 DEF RegistryInv, Workers, Of, Goto
<1>3. \A S : {"json", "publish"} \subseteq S => \A e : Underway(e, S) => Underway(e, S)'
  BY <1>1, <1>2 DEF Underway
<1>4. UpdateInv'
  BY <1>1, <1>3 DEF LastInv, UpdateInv, updateVars
<1>5. EvaluationInv'
  <2>1. ASSUME NEW u \in Threads, pc'[u] = "evaluate"
        PROVE  \/ \A i \in 1 .. Len(seen'[u]) : seen'[u][i] = Current(Of(u), i)'
               \/ Underway(Of(u), {"json", "publish", "scene"})'
    <3>1. pc[u] = "evaluate" /\ Of(u)' = Of(u)
      BY <1>2, <2>1
    <3> QED
      BY <1>1, <1>3, <3>1 DEF LastInv, EvaluationInv, Evaluated, Current
  <2>2. ASSUME NEW e \in DOMAIN devices
        PROVE  \/ Evaluated(e)'
               \/ Underway(e, {"json", "publish", "scene", "evaluate"})'
    BY <1>1, <1>3 DEF LastInv, EvaluationInv, Evaluated, Current
  <2> QED
    BY <1>1, <2>1, <2>2 DEF EvaluationInv
<1> QED
  BY <1>4, <1>5 DEF LastInv

LEMMA EnterLast ==
    ASSUME RegistryInv, LastInv, NEW t \in Threads, SceneEnter(t) PROVE LastInv'
<1>1. /\ pc[t] = "scene" /\ Goto(t, "evaluate") /\ UNCHANGED <<msg, devices, updateVars, evaluated, cut>>
      /\ engLock = Nobody /\ seen' = [seen EXCEPT ![t] = <<>>]
  BY DEF SceneEnter, EngineFree, threadVars, registryVars
<1>2. /\ \A u \in Threads : Of(u)' = Of(u)
      /\ pc'[t] = "evaluate" /\ \A u \in Threads \ {t} : pc'[u] = pc[u] /\ pc[u] # "evaluate"
  BY <1>1, Keyed DEF RegistryInv, Workers, Locks, Of, Goto
<1>3. \A e : Underway(e, {"json", "publish"}) => Underway(e, {"json", "publish"})'
  BY <1>1, <1>2 DEF Underway
<1>4. \A e : Underway(e, {"json", "publish", "scene", "evaluate"})
             => Underway(e, {"json", "publish", "scene", "evaluate"})'
  BY <1>1, <1>2 DEF Underway
<1>5. UpdateInv'
  BY <1>1, <1>3 DEF LastInv, UpdateInv, updateVars
<1>6. EvaluationInv'
  <2>1. Len(seen'[t]) = 0
    BY <1>1 DEF RegistryInv, Workers
  <2>2. ASSUME NEW e \in DOMAIN devices
        PROVE  \/ Evaluated(e)'
               \/ Underway(e, {"json", "publish", "scene", "evaluate"})'
    BY <1>1, <1>4 DEF LastInv, EvaluationInv, Evaluated, Current
  <2> QED
    BY <1>1, <1>2, <2>1, <2>2 DEF EvaluationInv
<1> QED
  BY <1>5, <1>6 DEF LastInv

LEMMA ReadsLast ==
    ASSUME RegistryInv, LastInv, NEW t \in Threads, SceneReads(t) PROVE LastInv'
<1> DEFINE n == Len(seen[t])
<1>1. /\ pc[t] = "evaluate" /\ UNCHANGED <<pc, msg, devices, updateVars, evaluated, cut>>
      /\ seen' = [seen EXCEPT ![t] = Append(seen[t], Current(Of(t), n + 1))]
      /\ Of(t) \in DOMAIN devices
  BY DEF SceneReads, threadVars, registryVars, Current, RegistryInv, Places, Registered, Workers
<1>2. seen[t] \in Seq(Stamp) /\ seen \in [Threads -> Seq(Stamp)]
  BY DEF RegistryInv, Workers
<1>3. /\ \A e, S : Underway(e, S)' = Underway(e, S)
      /\ \A u \in Threads : Of(u)' = Of(u)
      /\ \A e, i : Current(e, i)' = Current(e, i)
  BY <1>1 DEF Underway, Of, Current
<1>4. /\ Len(seen'[t]) = n + 1 /\ seen'[t][n + 1] = Current(Of(t), n + 1)
      /\ \A i \in 1 .. n : seen'[t][i] = seen[t][i]
  <2> DEFINE x == Current(Of(t), n + 1)
  <2>1. seen'[t] = Append(seen[t], x)
    BY <1>1, <1>2
  <2> HIDE DEF x
  <2>2. /\ Len(Append(seen[t], x)) = n + 1 /\ Append(seen[t], x)[n + 1] = x
        /\ \A i \in 1 .. n : Append(seen[t], x)[i] = seen[t][i]
    BY <1>2
  <2> QED
    BY <2>1, <2>2 DEF x
<1>5. UpdateInv'
  BY <1>1, <1>3 DEF LastInv, UpdateInv, updateVars
<1>6. EvaluationInv'
  <2>1. n \in Nat
    BY <1>2
  <2>2. \/ \A i \in 1 .. Len(seen'[t]) : seen'[t][i] = Current(Of(t), i)
        \/ Underway(Of(t), {"json", "publish", "scene"})
    BY <1>1, <1>4, <2>1 DEF LastInv, EvaluationInv, Evaluated, Current
  <2>3. \A u \in Threads \ {t} : seen'[u] = seen[u]
    BY <1>1, <1>2
  <2>4. ASSUME NEW u \in Threads, pc'[u] = "evaluate"
        PROVE  \/ \A i \in 1 .. Len(seen'[u]) : seen'[u][i] = Current(Of(u), i)'
               \/ Underway(Of(u), {"json", "publish", "scene"})'
    BY <1>1, <1>3, <2>2, <2>3, <2>4 DEF LastInv, EvaluationInv, Evaluated, Current
  <2>5. ASSUME NEW e \in DOMAIN devices
        PROVE  \/ Evaluated(e)'
               \/ Underway(e, {"json", "publish", "scene", "evaluate"})'
    BY <1>1, <1>3 DEF LastInv, EvaluationInv, Evaluated, Current
  <2> QED
    BY <1>1, <2>4, <2>5 DEF EvaluationInv
<1> QED
  BY <1>5, <1>6 DEF LastInv

LEMMA LeaveLast ==
    ASSUME RegistryInv, LastInv, NEW t \in Threads, SceneLeave(t) PROVE LastInv'
<1> DEFINE d == Of(t)
<1>1. /\ pc[t] = "evaluate" /\ Goto(t, "idle") /\ UNCHANGED <<devices, updateVars>>
      /\ evaluated' = Put(evaluated, d, seen[t])
      /\ \/ cut' = cut \ {d} /\ Len(seen[t]) = Len(Conditions)
         \/ cut' = cut \cup {d}
      /\ \A u \in Threads \ {t} : msg'[u] = msg[u]
  BY DEF SceneLeave, Done, registryVars, RegistryInv, Workers
<1>2. /\ pc'[t] = "idle"
      /\ \A u \in Threads \ {t} : pc'[u] = pc[u] /\ Of(u)' = Of(u) /\ pc[u] # "evaluate"
  BY <1>1, Keyed DEF RegistryInv, Workers, Locks, Of, Goto
<1>3. \A S \in SUBSET {"json", "publish", "scene"} : \A e : Underway(e, S) => Underway(e, S)'
  BY <1>1, <1>2 DEF Underway
<1>4. \A e : e # d /\ Underway(e, {"json", "publish", "scene", "evaluate"})
             => Underway(e, {"json", "publish", "scene"})
  BY <1>1, <1>2 DEF Underway
<1>5. \A e : Underway(e, {"json", "publish", "scene"}) => Underway(e, {"json", "publish", "scene", "evaluate"})
  BY DEF Underway
<1>6. UpdateInv'
  BY <1>1, <1>3 DEF LastInv, UpdateInv, updateVars
<1>7. EvaluationInv'
  <2>1. d \in DOMAIN evaluated' /\ evaluated'[d] = seen[t]
        /\ \A e \in DOMAIN evaluated \ {d} : e \in DOMAIN evaluated' /\ evaluated'[e] = evaluated[e]
    BY <1>1 DEF Put
  <2>2. ASSUME NEW e, e = d
        PROVE  Evaluated(e)' \/ Underway(e, {"json", "publish", "scene"})
    <3>1. CASE \A i \in 1 .. Len(seen[t]) : seen[t][i] = Current(e, i)
      <4>1. DOMAIN seen[t] = 1 .. Len(seen[t])
        BY DEF RegistryInv, Workers
      <4>2. \A i : Current(e, i)' = Current(e, i)
        BY <1>1 DEF Current
      <4>3. /\ e \in DOMAIN evaluated' /\ evaluated'[e] = seen[t]
            /\ Len(seen[t]) = Len(Conditions) \/ e \in cut'
        BY <1>1, <2>1, <2>2
      <4> QED
        BY <3>1, <4>1, <4>2, <4>3 DEF Evaluated
    <3> QED
      BY <1>1, <2>2, <3>1 DEF LastInv, EvaluationInv
  <2>3. ASSUME NEW e \in DOMAIN devices
        PROVE  Evaluated(e)' \/ Underway(e, {"json", "publish", "scene"})
    <3>1. CASE e = d
      BY <2>2, <3>1
    <3>2. CASE e # d
      <4>1. Evaluated(e) => Evaluated(e)'
        <5>1. e \in DOMAIN evaluated => e \in DOMAIN evaluated' /\ evaluated'[e] = evaluated[e]
          BY <2>1, <3>2
        <5>2. e \in cut => e \in cut'
          BY <1>1, <3>2
        <5> QED
          BY <1>1, <5>1, <5>2 DEF Evaluated, Current
      <4> QED
        BY <1>4, <3>2, <4>1 DEF LastInv, EvaluationInv
    <3> QED
      BY <3>1, <3>2
  <2>4. \A e, S : Underway(e, {"json", "publish", "scene"})'
                  => Underway(e, {"json", "publish", "scene", "evaluate"})'
    BY DEF Underway
  <2> QED
    BY <1>1, <1>2, <1>3, <2>3, <2>4 DEF EvaluationInv
<1> QED
  BY <1>6, <1>7 DEF LastInv

LEMMA LastStep == RegistryInv /\ LastInv /\ [Next]_vars => LastInv'
<1> SUFFICES ASSUME RegistryInv, LastInv, [Next]_vars PROVE LastInv'
  OBVIOUS
<1>1. CASE SetCallback \/ (\E h \in Handlers : Links(h)) \/ Query \/ Rest \/ UNCHANGED vars
  <2>1. UNCHANGED <<pc, msg, updateVars, seen, evaluated, cut, devices>>
    BY <1>1 DEF SetCallback, Links, Query, Rest, vars, registryVars, sceneVars, updateVars, threadVars
  <2> QED
    BY <2>1, SameLast
<1>2. ASSUME NEW t \in Threads, Step(t) PROVE LastInv'
  BY <1>2, TakeLast, UpsertLast, MergeLast, ToJsonLast, PublishLast, EnterLast, ReadsLast, LeaveLast
     DEF Step
<1> QED
  BY <1>1, <1>2 DEF Next

\* When nobody is at work on a device, subscribers and scene engine have its last state,
\* but for a notification that failed and rules behind one that raised, for any number of
\* threads and whichever of them overtakes another (_process_uplink).
THEOREM LastWord == Spec => []LastOneCurrent
<1>1. Init => LastInv
  BY DEF Init, LastInv, UpdateInv, EvaluationInv
<1>2. LastInv => LastOneCurrent
  <2> SUFFICES ASSUME LastInv, NEW d \in DOMAIN devices, Settled(d)
               PROVE  /\ d \in unsent \/ update[d].raw = devices[d].raw
                      /\ \A i \in DOMAIN evaluated[d] :
                           evaluated[d][i] = devices[d].raw[Conditions[i]]
                      /\ Len(evaluated[d]) = Len(Conditions) \/ d \in cut
    BY DEF LastOneCurrent, LastUpdateCurrent, LastEvaluationCurrent
  <2>1. \A S : "idle" \notin S => ~Underway(d, S)
    BY DEF Settled, Underway
  <2> QED
    BY <2>1 DEF LastInv, UpdateInv, EvaluationInv, Evaluated, updateVars, Current
<1> QED
  BY <1>1, <1>2, RegistryInit, RegistryStep, LastStep, PTL DEF Spec
=============================================================================
