---------------------------- MODULE PlatformEvents ----------------------------
(***************************************************************************)
(* What becomes of an event in the IoT platform (record_event in           *)
(* iot_test_platform/backend/app.py): it is stored, may raise an alert and *)
(* is broadcast to the browsers.                                           *)
(*                                                                         *)
(* Every message from the MQTT and VSOA threads is a task of its own on the*)
(* event loop, and the tasks interleave wherever they await: at each call  *)
(* they give to a worker thread, of which there are few, and at each send  *)
(* to a socket.  The hub is a Python set; a task that goes through it while*)
(* a socket comes or goes gets a RuntimeError.  The database has one lock. *)
(*                                                                         *)
(* All events are about one device with one threshold rule, and alerts are *)
(* those of that rule; the rule may be edited at any time, so reading it   *)
(* may find a breach or not.  "capture" is a scene's trigger that has a    *)
(* camera image saved.                                                     *)
(***************************************************************************)
EXTENDS Naturals, FiniteSets

CONSTANTS Events,     \* bound of the model: events in hand at a time
          Sockets,
          Workers,    \* worker threads of asyncio.to_thread
          MaxStuck    \* bound of the model: commands that hang

ASSUME EventsAssumption ==
    /\ "nobody" \notin Events
    /\ Workers \in Nat \ {0}
    /\ MaxStuck \in Nat

NoTask == "nobody"

VARIABLES task,      \* per event: where its task is, and what its message is
          active,    \* the table alerts: how many are active
          dbLock,    \* Database.lock
          hub,       \* SocketHub.clients
          socket,    \* the state of a socket
          cast,      \* the broadcast of an event's task, while it goes on
          stuck      \* worker threads lost to commands that hang

dbVars == <<active, dbLock>>
hubVars == <<hub, socket, cast>>
eventsVars == <<task, active, dbLock, hub, socket, cast, stuck>>

Kinds == {"plain", "capture"}
Working == {"insert", "trigger", "save", "camera", "rules", "check", "raise", "broadcast", "send"}
Ended == {"none", "raised"}

\* A broadcast: the hub when it began, the sockets the iterator gave, those the event was
\* sent to, those to take out; and, as history, whether the hub changed meanwhile.
NoCast == [members |-> {}, seen |-> {}, sent |-> {}, stale |-> {}, disturbed |-> FALSE]

EventsTypeOK ==
    /\ task \in [Events -> [at : Working \cup Ended, kind : Kinds]]
    /\ active \in 0 .. 1
    /\ dbLock \in Events \cup {NoTask}
    /\ \A e \in Events : (task[e].at = "raise") <=> (dbLock = e)
    /\ socket \in [Sockets -> {"out", "on", "broken"}]
    /\ hub \subseteq {s \in Sockets : socket[s] \in {"on", "broken"}}
    /\ cast \in [Events -> [members : SUBSET Sockets, seen : SUBSET Sockets,
                            sent : SUBSET Sockets, stale : SUBSET Sockets, disturbed : BOOLEAN]]
    /\ \A e \in Events : task[e].at # "send" => cast[e] = NoCast
    /\ stuck \in 0 .. MaxStuck

EventsInit ==
    /\ task = [e \in Events |-> [at |-> "none", kind |-> "plain"]]
    /\ active = 0 /\ dbLock = NoTask
    /\ hub = {} /\ socket = [s \in Sockets |-> "out"] /\ cast = [e \in Events |-> NoCast]
    /\ stuck = 0

Goto(e, where) == task' = [task EXCEPT ![e].at = where]
DbUnlocked == TRUE     \* a slip: Database.lock is not taken
DbFree == dbLock = NoTask

\* A worker thread has nothing to do: those that hang are lost.
Worker == stuck + (IF dbLock = NoTask THEN 0 ELSE 1) < Workers

-----------------------------------------------------------------------------
\* _on_message of either service gives record_event to the event loop.
Arrive(e, kind) ==
    /\ task[e].at \in Ended
    /\ task' = [task EXCEPT ![e].at = "insert", ![e].kind = kind]
    /\ UNCHANGED <<dbVars, hubVars, stuck>>

\* insert_event.
Insert(e) ==
    /\ task[e].at = "insert" /\ Worker /\ DbFree
    /\ Goto(e, IF task[e].kind = "capture" THEN "trigger" ELSE "rules")
    /\ UNCHANGED <<dbVars, hubVars, stuck>>

\* insert_scene_trigger.
Trigger(e) ==
    /\ task[e].at = "trigger" /\ Worker /\ DbFree
    /\ task' = [task EXCEPT ![e] = [at |-> "save", kind |-> "plain"]]
    /\ UNCHANGED <<dbVars, hubVars, stuck>>

\* save_latest_camera_image; when it raises there is an alert.
Save(e) ==
    /\ task[e].at = "save" /\ Worker
    /\ Goto(e, "rules") \/ Goto(e, "camera")
    /\ UNCHANGED <<dbVars, hubVars, stuck>>

\* threshold_rules, read without the lock.
ReadRules(e) ==
    /\ task[e].at = "rules" /\ Worker
    /\ Goto(e, "check") \/ Goto(e, "broadcast")
    /\ UNCHANGED <<dbVars, hubVars, stuck>>

\* create_alert for the camera, on the event loop itself, which waits for the lock.
CameraAlert(e) ==
    /\ task[e].at = "camera" /\ DbFree
    /\ Goto(e, "rules")
    /\ UNCHANGED <<dbVars, hubVars, stuck>>

CheckAlertOutside(e) ==     \* a slip: the lock is taken for the insertion only
    /\ task[e].at = "check" /\ Worker /\ DbFree
    /\ Goto(e, IF active > 0 THEN "broadcast" ELSE "raise")
    /\ UNCHANGED <<dbVars, hubVars, stuck>>

\* create_alert: an alert of this type that is active is enough.
CheckAlert(e) ==
    /\ task[e].at = "check" /\ Worker /\ DbFree
    /\ IF active > 0
       THEN Goto(e, "broadcast") /\ UNCHANGED dbLock
       ELSE Goto(e, "raise") /\ dbLock' = e
    /\ UNCHANGED <<active, hubVars, stuck>>

RaiseAlertLocked(e) ==     \* a slip: the lock is not let go
    /\ task[e].at = "raise"
    /\ active' = active + 1
    /\ Goto(e, "broadcast")
    /\ UNCHANGED <<dbLock, hubVars, stuck>>

RaiseAlert(e) ==
    /\ task[e].at = "raise"
    /\ active' = active + 1 /\ dbLock' = NoTask
    /\ Goto(e, "broadcast")
    /\ UNCHANGED <<hubVars, stuck>>

-----------------------------------------------------------------------------
\* The hub becomes another set, under the broadcasts in progress.
HubBecomes(clients) ==
    /\ hub' = clients
    /\ cast' = [e \in Events |-> [cast[e] EXCEPT !.disturbed =
                                     @ \/ (task[e].at = "send" /\ clients # hub)]]

Broadcast(e) ==
    /\ task[e].at = "broadcast"
    /\ Goto(e, "send") /\ cast' = [cast EXCEPT ![e].members = hub]
    /\ UNCHANGED <<dbVars, hub, socket, stuck>>

\* The iterator compares sizes only.
Same(e) == Cardinality(hub) = Cardinality(cast[e].members)

SendDiscards(e, s) ==     \* a slip: a stale socket taken out inside the loop
    /\ task[e].at = "send" /\ Same(e) /\ s \in hub \ cast[e].seen
    /\ IF socket[s] = "on"
       THEN hub' = hub /\ cast' = [cast EXCEPT ![e].seen = @ \cup {s}, ![e].sent = @ \cup {s}]
       ELSE hub' = hub \ {s} /\ cast' = [cast EXCEPT ![e].seen = @ \cup {s}]
    /\ UNCHANGED <<task, dbVars, socket, stuck>>

\* The next socket; a broken one may be noticed.
Send(e, s) ==
    /\ task[e].at = "send" /\ Same(e) /\ s \in hub \ cast[e].seen
    /\ \/ /\ socket[s] = "on"
          /\ cast' = [cast EXCEPT ![e].seen = @ \cup {s}, ![e].sent = @ \cup {s}]
       \/ /\ socket[s] = "broken"
          /\ \/ cast' = [cast EXCEPT ![e].seen = @ \cup {s}, ![e].sent = @ \cup {s}]
             \/ cast' = [cast EXCEPT ![e].seen = @ \cup {s}, ![e].stale = @ \cup {s}]
    /\ UNCHANGED <<task, dbVars, hub, socket, stuck>>

\* RuntimeError: Set changed size during iteration, out of record_event.
CutShort(e) ==
    /\ task[e].at = "send" /\ ~Same(e)
    /\ Goto(e, "raised") /\ cast' = [cast EXCEPT ![e] = NoCast]
    /\ UNCHANGED <<dbVars, hub, socket, stuck>>

\* The iterator has come to the end, which is anywhere when the set is another one; the
\* stale sockets are taken out.
Finish(e) ==
    /\ task[e].at = "send" /\ Same(e)
    /\ hub \subseteq cast[e].seen \/ hub # cast[e].members
    /\ Goto(e, "none")
    /\ hub' = hub \ cast[e].stale
    /\ cast' = [d \in Events |->
                  IF d = e THEN NoCast
                  ELSE [cast[d] EXCEPT !.disturbed =
                          @ \/ (task[d].at = "send" /\ hub' # hub)]]
    /\ UNCHANGED <<dbVars, socket, stuck>>

Task(e) ==
    \/ Insert(e) \/ Trigger(e) \/ Save(e) \/ ReadRules(e) \/ CameraAlert(e) \/ CheckAlert(e)
    \/ RaiseAlert(e) \/ Broadcast(e) \/ (\E s \in Sockets : Send(e, s)) \/ CutShort(e) \/ Finish(e)

-----------------------------------------------------------------------------
\* websocket_endpoint: a browser comes, or comes again, ...
ConnectSocket(s) ==
    /\ socket[s] = "out"
    /\ socket' = [socket EXCEPT ![s] = "on"]
    /\ HubBecomes(hub \cup {s})
    /\ UNCHANGED <<task, dbVars, stuck>>

\* ... its connection breaks, ...
Break(s) ==
    /\ socket[s] = "on"
    /\ socket' = [socket EXCEPT ![s] = "broken"]
    /\ UNCHANGED <<task, dbVars, hub, cast, stuck>>

\* ... and receive_text tells.
Leave(s) ==
    /\ socket[s] = "broken"
    /\ socket' = [socket EXCEPT ![s] = "out"]
    /\ HubBecomes(hub \ {s})
    /\ UNCHANGED <<task, dbVars, stuck>>

\* acknowledge_alert, by its id.
AcknowledgeAlert ==
    /\ DbFree /\ active > 0
    /\ active' = active - 1
    /\ UNCHANGED <<task, dbLock, hubVars, stuck>>

\* A command hangs (PlatformCommand), and with it the worker thread it is on.
CommandHangs ==
    /\ stuck < MaxStuck /\ Worker
    /\ stuck' = stuck + 1
    /\ UNCHANGED <<task, dbVars, hubVars>>

\* The platform stops at any point: the database is left, and events half dealt with.
EventsRestart ==
    /\ task' = [e \in Events |-> [at |-> "none", kind |-> "plain"]]
    /\ dbLock' = NoTask /\ stuck' = 0
    /\ hub' = {} /\ cast' = [e \in Events |-> NoCast] /\ socket' = [s \in Sockets |-> "out"]
    /\ UNCHANGED active

EventsNext ==
    \/ \E e \in Events : Task(e) \/ \E k \in Kinds : Arrive(e, k)
    \/ \E s \in Sockets : ConnectSocket(s) \/ Break(s) \/ Leave(s)
    \/ AcknowledgeAlert \/ CommandHangs \/ EventsRestart

EventsSpec == EventsInit /\ [][EventsNext]_eventsVars

\* The event loop takes its tasks in turn and the queue of the workers is first in, first
\* out: a task that can go on again and again, other tasks having had the worker, does.
EventsFairSpec == EventsSpec /\ \A e \in Events : SF_eventsVars(Task(e))

-----------------------------------------------------------------------------
\* When a task has dealt with a breach there is exactly one active alert of the device
\* and rule, whether two tasks found the breach at once, or the last alert was just
\* acknowledged (create_alert, acknowledge_alert).
OneActive ==
    [][\A e \in Events :
         task[e].at \in {"check", "raise"} /\ task'[e].at = "broadcast"
           => active' = 1]_eventsVars

\* A broadcast comes to its end having reached every socket that was in the hub and still
\* works, whatever state the other sockets are in, unless the hub changed in the middle of
\* it or the platform stopped (SocketHub.broadcast).
Delivered ==
    [][\A e \in Events :
         task[e].at = "send" /\ task'[e].at # "send" /\ ~cast[e].disturbed
           => \/ EventsRestart
              \/ /\ task'[e].at = "none"
                 /\ \A s \in cast[e].members : socket[s] = "on" => s \in cast[e].sent]_eventsVars

\* An event that arrives is dealt with, unless hanging commands
\* have taken every worker thread (record_event, send_command).
Recorded ==
    \A e \in Events : task[e].at \in Working ~> task[e].at \in Ended \/ stuck = Workers
=============================================================================
