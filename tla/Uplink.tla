------------------------------- MODULE Uplink -------------------------------
(***************************************************************************)
(* What becomes of an uplink message in the bridge: _process_uplink        *)
(* (src/main.py) with the device registry, the notifications and the       *)
(* reading of the device by the scene engine.                              *)
(*                                                                         *)
(* It runs in several threads at once: one network thread per broker and   *)
(* one thread per connection to the injection port; the VSOA server answers*)
(* queries on its event loop, a thread of its own.  The registry's lock    *)
(* is held only while a report is merged; the device that upsert and lookup*)
(* return is the registry's own object, which the pipeline goes on reading *)
(* without a lock, and the dictionary a notification carries refers to the *)
(* device's readings: they are read when the packet is made.               *)
(*                                                                         *)
(* A report is a number, in the order the reports are taken up; a value is *)
(* the number of the report it is from (0: none).  Camera packets are the  *)
(* subject of CameraReassembler, rules that of SceneEngine.                *)
(***************************************************************************)
EXTENDS Adapters, MqttHandler

CONSTANTS Injectors,   \* threads of the injection port's connections
          Messages,    \* messages that may arrive, as Adapters describes them
          Conditions,  \* the readings a rule looks at, in order
          MaxDevices,  \* uplink.max_devices
          MaxReports   \* bound of the model: reports made

\* A handler stands for its network thread.
Threads == Handlers \cup Injectors
Nobody == "nobody"
ByReference == <<>>

ASSUME UplinkAssumption ==
    /\ Handlers \cap Injectors = {} /\ Nobody \notin Threads
    /\ {MaxDevices, MaxReports} \subseteq Nat
    /\ Messages # {} /\ Conditions \in Seq(STRING)

VARIABLES ready,     \* the MQTT handlers have their callback
          devices,   \* DeviceRegistry._devices
          regLock,   \* holder of the registry's lock
          engLock,   \* holder of the scene engine's lock
          pc,        \* where a thread is in _process_uplink
          msg,       \* the message it works on
          report,    \* the number of its report
          json,      \* what to_json gave it
          seen,      \* the readings its evaluation has looked at
          update,    \* the last /device/update of a device
          unsent,    \* history: devices whose last /device/update was not sent
          evaluated, \* the readings of a device that were last evaluated
          cut,       \* history: devices whose last evaluation a rule cut short
          reports,   \* reports made so far
          accepted,  \* history: reports of a device that were merged
          query      \* the query the server's event loop works on: per device that it is
                     \* about, what it has read

registryVars == <<devices, regLock, accepted>>
updateVars == <<update, unsent>>
sceneVars == <<engLock, seen, evaluated, cut>>
threadVars == <<msg, report>>
vars == <<handlerVars, ready, registryVars, sceneVars, threadVars, pc, json, updateVars, reports,
          query>>

Ids == {DeviceId(m) : m \in Messages}
Keys == (UNION {Raw(m) : m \in Messages}) \cup ToSet(Conditions)
Stamp == 0 .. MaxReports
Reading == [Keys -> Stamp]
Device == [head : Stamp, raw : Reading, count : Nat]

TypeOK ==
    /\ HandlersTypeOK
    /\ ready \in BOOLEAN
    /\ DOMAIN devices \subseteq Ids /\ \A d \in DOMAIN devices : devices[d] \in Device
    /\ {regLock, engLock} \subseteq Threads \cup {Nobody}
    /\ pc \in [Threads -> {"idle", "upsert", "merge", "insert", "json", "publish", "scene",
                           "evaluate"}]
    /\ msg \in [Threads -> Messages] /\ report \in [Threads -> Stamp]
    /\ \A t \in Threads : /\ json[t].head \in Stamp
                          /\ json[t].raw = ByReference \/ json[t].raw \in Reading
                          /\ Len(seen[t]) <= Len(Conditions)
    /\ DOMAIN update \subseteq DOMAIN devices
    /\ DOMAIN evaluated \subseteq DOMAIN devices
    /\ unsent \subseteq DOMAIN devices /\ cut \subseteq DOMAIN evaluated
    /\ reports \in Stamp
    /\ DOMAIN query \subseteq DOMAIN devices
    /\ \A t \in Threads : pc[t] \in {"merge", "insert"} <=> regLock = t
    /\ \A t \in Threads : pc[t] = "evaluate" <=> engLock = t

Of(t) == DeviceId(msg[t])
Put(f, d, x) == [e \in DOMAIN f \cup {d} |-> IF e = d THEN x ELSE f[e]]
NoMessage == CHOOSE m \in Messages : TRUE     \* what an idle thread has: any
NoJson == [head |-> 0, raw |-> ByReference]

Init ==
    /\ HandlersInit
    /\ ready = FALSE
    /\ devices = <<>> /\ update = <<>> /\ evaluated = <<>> /\ accepted = <<>>
    /\ unsent = {} /\ cut = {}
    /\ regLock = Nobody /\ engLock = Nobody
    /\ pc = [t \in Threads |-> "idle"]
    /\ msg = [t \in Threads |-> NoMessage]
    /\ report = [t \in Threads |-> 0]
    /\ json = [t \in Threads |-> NoJson]
    /\ seen = [t \in Threads |-> <<>>]
    /\ reports = 0
    /\ query = <<>>

Goto(t, where) == pc' = [pc EXCEPT ![t] = where]
Done(t) ==
    /\ Goto(t, "idle")
    /\ msg' = [msg EXCEPT ![t] = NoMessage] /\ report' = [report EXCEPT ![t] = 0]

-----------------------------------------------------------------------------
\* set_uplink_callback, after the servers are up and the link to /ctrl/cmd stands.
SetCallback ==
    /\ ~ready /\ ready' = TRUE /\ Prepared
    /\ UNCHANGED <<handlerVars, registryVars, sceneVars, threadVars, pc, json, updateVars, reports, query>>

\* MQTTHandler._on_message takes what comes on these topics, once it has a callback.
Routed(topic) ==
    \/ topic[1] \in {"application", "s3", "lora", "zigbee"}
    \/ topic[1] = "bridge" /\ topic[2] = "uplink"

\* A message starts its way through the pipeline, if an adapter can parse it.  The injection
\* port opens when main has set up the handlers.
Take(t, m) ==
    /\ pc[t] = "idle" /\ reports < MaxReports /\ Prepared
    /\ t \in Handlers => subscribed[t] /\ ~callback[t] /\ ready /\ Routed(m.topic)
    /\ IF Parses(m)
       THEN /\ reports' = reports + 1
            /\ msg' = [msg EXCEPT ![t] = m]
            /\ report' = [report EXCEPT ![t] = reports + 1]
            /\ Goto(t, "upsert")
       ELSE UNCHANGED <<msg, report, pc, reports>>
    /\ UNCHANGED <<handlerVars, ready, registryVars, sceneVars, json, updateVars, query>>

Unlocked == TRUE     \* a slip: nobody takes the lock
RegistryFree == regLock = Nobody
EngineFree == engLock = Nobody

\* upsert, first half: the lock is taken.  A known device gets the fields a report always
\* sets; a new one is turned away when the registry is full.
Upsert(t) ==
    LET d == Of(t) IN
    /\ pc[t] = "upsert" /\ RegistryFree
    /\ \/ /\ d \in DOMAIN devices
          /\ regLock' = t /\ Goto(t, "merge") /\ UNCHANGED threadVars
          /\ devices' = [devices EXCEPT ![d].head = report[t]]
       \/ /\ d \notin DOMAIN devices /\ Cardinality(DOMAIN devices) < MaxDevices
          /\ regLock' = t /\ Goto(t, "insert") /\ UNCHANGED <<devices, threadVars>>
       \/ /\ d \notin DOMAIN devices /\ Cardinality(DOMAIN devices) >= MaxDevices
          /\ Done(t) /\ UNCHANGED <<devices, regLock>>
    /\ UNCHANGED <<handlerVars, ready, accepted, sceneVars, json, updateVars, reports, query>>

\* Readings are merged: those a report does not carry stay.
Merged(raw, t) == [k \in Keys |-> IF k \in Raw(msg[t]) THEN report[t] ELSE raw[k]]

\* upsert, second half.
Merge(t) ==
    LET d == Of(t)
        old == IF pc[t] = "insert" THEN [head |-> report[t], raw |-> [k \in Keys |-> 0], count |-> 0]
               ELSE devices[d]
    IN
    /\ pc[t] \in {"merge", "insert"}
    /\ devices' = Put(devices, d, [head |-> old.head, raw |-> Merged(old.raw, t),
                                  count |-> old.count + 1])
    /\ accepted' = Put(accepted, d, IF d \in DOMAIN accepted THEN accepted[d] + 1 ELSE 1)
    /\ regLock' = Nobody /\ Goto(t, "json")
    /\ UNCHANGED <<handlerVars, ready, sceneVars, threadVars, json, updateVars, reports, query>>

JsonCopies(d) == [head |-> devices[d].head, raw |-> devices[d].raw]     \* a slip: a copy
\* to_json: the fields as they are now, and the readings by reference.
Json(d) == [head |-> devices[d].head, raw |-> ByReference]

ToJson(t) ==
    /\ pc[t] = "json"
    /\ json' = [json EXCEPT ![t] = Json(Of(t))]
    /\ Goto(t, "publish")
    /\ UNCHANGED <<handlerVars, ready, registryVars, sceneVars, threadVars, updateVars, reports, query>>

\* The packet is made and sent under the server's lock; what was referred to is read now.
\* Whatever goes wrong in it is logged and forgotten (_vsoa_publish).  The event
\* data_received follows, which says nothing of the readings.
Publish(t) ==
    LET d == Of(t) IN
    /\ pc[t] = "publish"
    /\ \/ /\ update' = Put(update, d, IF json[t].raw = ByReference
                                      THEN [json[t] EXCEPT !.raw = devices[d].raw] ELSE json[t])
          /\ unsent' = unsent \ {d}
       \/ unsent' = unsent \cup {d} /\ UNCHANGED update
    /\ json' = [json EXCEPT ![t] = NoJson]
    /\ Goto(t, "scene")
    /\ UNCHANGED <<handlerVars, ready, registryVars, sceneVars, threadVars, reports, query>>

-----------------------------------------------------------------------------
\* on_uplink: under the engine's lock the conditions read the device one by one.
SceneEnter(t) ==
    /\ pc[t] = "scene" /\ EngineFree
    /\ engLock' = t /\ Goto(t, "evaluate")
    /\ seen' = [seen EXCEPT ![t] = <<>>]
    /\ UNCHANGED <<handlerVars, ready, registryVars, threadVars, json, evaluated, cut, updateVars, reports, query>>

SceneReads(t) ==
    /\ pc[t] = "evaluate" /\ Len(seen[t]) < Len(Conditions)
    /\ seen' = [seen EXCEPT ![t] = Append(@, devices[Of(t)].raw[Conditions[Len(@) + 1]])]
    /\ UNCHANGED <<handlerVars, ready, registryVars, threadVars, pc, json, engLock, evaluated, cut, updateVars, reports, query>>

\* The evaluation is over, with the last rule or with one that raises: those behind it are
\* not looked at.  What is raised is logged (_on_message), or ends the connection to the
\* injection port, after which there may be another.
SceneLeave(t) ==
    /\ pc[t] = "evaluate"
    /\ evaluated' = Put(evaluated, Of(t), seen[t])
    /\ \/ Len(seen[t]) = Len(Conditions) /\ cut' = cut \ {Of(t)}
       \/ Len(seen[t]) < Len(Conditions) /\ cut' = cut \cup {Of(t)}
    /\ seen' = [seen EXCEPT ![t] = <<>>]
    /\ engLock' = Nobody /\ Done(t)
    /\ UNCHANGED <<handlerVars, ready, registryVars, json, updateVars, reports, query>>

Step(t) ==
    \/ \E m \in Messages : Take(t, m)
    \/ Upsert(t) \/ Merge(t) \/ ToJson(t) \/ Publish(t)
    \/ SceneEnter(t) \/ SceneReads(t) \/ SceneLeave(t)

-----------------------------------------------------------------------------
\* The queries on the VSOA server (src/src/uplink/vsoa_server.py), one at a time on its
\* event loop: the devices, or one of them, are looked up under the registry's lock; their
\* fields are read without it, of which the count of the reports stands for all.
QueryAsk ==
    /\ query = <<>> /\ RegistryFree
    /\ \E ds \in {DOMAIN devices} \cup {{d} : d \in DOMAIN devices} :
         /\ ds # {}
         /\ query' = [d \in ds |-> [asked |-> accepted[d], read |-> FALSE, count |-> 0]]

QueryReads(d) ==
    /\ ~query[d].read
    /\ query' = [query EXCEPT ![d] =
         [asked |-> @.asked, read |-> TRUE, count |-> devices[d].count]]

\* The reply is packed, with the readings, which were referred to, as they are now.
\* /device/list and /bridge/health tell less of the same.
QueryReply ==
    /\ query # <<>> /\ \A d \in DOMAIN query : query[d].read
    /\ query' = <<>>

Query ==
    /\ QueryAsk \/ (\E d \in DOMAIN query : QueryReads(d)) \/ QueryReply
    /\ UNCHANGED <<handlerVars, ready, registryVars, sceneVars, threadVars, pc, json, updateVars,
                   reports>>

\* Every report the model allows was made and every thread is done.
Rest ==
    /\ reports = MaxReports /\ ready /\ \A t \in Threads : pc[t] = "idle"
    /\ UNCHANGED vars

\* The handlers come to be, lose their connection and get it back.  Callbacks run on the
\* network thread, which may be at work on a message.
Links(h) ==
    /\ SetUp(h) \/ (pc[h] = "idle" /\ Callbacks(h))
    /\ UNCHANGED <<ready, registryVars, sceneVars, threadVars, pc, json, updateVars, reports, query>>

Next == SetCallback \/ (\E h \in Handlers : Links(h)) \/ (\E t \in Threads : Step(t)) \/ Query \/ Rest
Spec == Init /\ [][Next]_vars

-----------------------------------------------------------------------------
\* Nobody is at work on a report of this device.
Settled(d) == \A t \in Threads : pc[t] # "idle" => Of(t) # d

\* Every report merged is counted, the registry holds no more devices than it may, though
\* several threads register and update devices at once, and what a query tells of a device
\* lies between what was there when it was asked and what is there now, though it reads
\* the device without the lock (upsert, lookup, to_json).
RegistryExact ==
    /\ Cardinality(DOMAIN devices) <= MaxDevices
    /\ DOMAIN accepted = DOMAIN devices
    /\ \A d \in DOMAIN devices : devices[d].count = accepted[d]
    /\ \A d \in DOMAIN query :
         query[d].read => query[d].asked <= query[d].count
                          /\ query[d].count <= accepted[d]

\* When the reports of a device have been dealt with, the last notification subscribers
\* got carries its readings, unless sending the last one failed, although two threads may
\* publish in the other order than they merged: what an overtaken thread sends last was
\* read when it was sent (_vsoa_publish, to_json).
LastUpdateCurrent ==
    \A d \in DOMAIN devices :
        Settled(d) => d \in unsent \/ update[d].raw = devices[d].raw

\* The same of the scene engine: the readings it evaluated last are those of the device,
\* all of them unless a rule has raised and cut the evaluation short, so that no rule is
\* left with the state of an overtaken report (on_uplink).
LastEvaluationCurrent ==
    \A d \in DOMAIN devices : Settled(d) =>
        /\ \A i \in DOMAIN evaluated[d] : evaluated[d][i] = devices[d].raw[Conditions[i]]
        /\ Len(evaluated[d]) = Len(Conditions) \/ d \in cut

\* A report that was overtaken has the last word nowhere.
LastOneCurrent == LastUpdateCurrent /\ LastEvaluationCurrent
=============================================================================
