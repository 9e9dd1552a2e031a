--------------------------- MODULE PlatformCommand ---------------------------
(***************************************************************************)
(* The commands of the IoT platform (iot_test_platform/backend/app.py):    *)
(* their rows in the database (create_device_command, acknowledge_command) *)
(* and the link to the bridge they are sent over (VsoaService), which the  *)
(* platform connects, a thread of its own connects again, and health       *)
(* probes use beside the commands.  A command of a directly driven device  *)
(* is published over MQTT instead (MqttService).                           *)
(*                                                                         *)
(* Every connect has a generation: a stop event and a thread.  Every       *)
(* connection is a client of its own, used as VsoaClient describes it: a   *)
(* fetch ends with the answer or without one, and may never end when the   *)
(* client is closed under it.  The number of a connection nobody has any   *)
(* more is used again.  Data: a bridge answers well or badly.  Of the MQTT *)
(* connections there is the one that the topic is routed to; paho keeps    *)
(* it, and keeps what it is given while it has no broker.  Whether it is   *)
(* up is looked at anew each time and may change in between: a choice.     *)
(***************************************************************************)
EXTENDS Naturals

CONSTANTS Commands,
          Direct,       \* those that may be for a directly driven device
          MaxConnect,   \* bound of the model: generations
          MaxClient,    \* bound of the model: connections
          MaxRestart    \* bound of the model: restarts of the platform

ASSUME PlatformAssumption ==
    /\ {"nobody", "probe"} \cap Commands = {}
    /\ Direct \subseteq Commands
    /\ {MaxConnect, MaxClient, MaxRestart} \subseteq Nat
    \* There is always a connection left to try: the service, the fetch under way and
    \* every thread but the one that tries have one at most.
    /\ MaxClient >= MaxConnect + 2

Generations == 1 .. MaxConnect
Links == 1 .. MaxClient
None == 0
Nobody == "nobody"

VARIABLES row,        \* the status of a command in the database
          handler,    \* where create_device_command is with it
          result,     \* what send_command, or publish, returned
          probe,      \* where probe_health is: in a fetch over the client of the service
                      \* ("asking"), over one replaced ("behind") or closed meanwhile
          fetchLock,  \* _fetch_lock
          on,         \* the connection of a command that is asking or sent
          bridge,     \* history: what the bridge, or the broker, has done with it
          service,    \* VsoaService: its client, and `connected'
          busy,       \* the event loop, or the start of the program, is in connect
          generation, \* the last connect
          stopped,    \* generations whose _stop_reconnect is set
          keeper,     \* per generation: its thread, and the client it has
          wire,       \* the state of a connection
          bridgeUp,   \* the bridge accepts connections
          overtaken,  \* history: a stopped thread has changed the service
          restarts

fetchVars == <<probe, fetchLock, on>>
commandVars == <<row, handler, result, fetchLock, on>>
linkVars == <<service, busy, generation, stopped, keeper, overtaken>>
vars == <<row, handler, result, probe, fetchLock, on, bridge, service, busy, generation, stopped,
          keeper, wire, bridgeUp, overtaken, restarts>>

InFetch == {"asking", "sent", "hung"}
Probes == {"asking", "behind", "closed", "hung"}

TypeOK ==
    /\ row \in [Commands -> {"none", "pending", "acknowledged", "failed"}]
    /\ handler \in [Commands -> {"idle", "sending", "locking", "returned", "publishing",
                                        "picked", "orphan", "published", "done", "lost"}
                                       \cup InFetch]
    /\ result \in [Commands -> {"none", "ok", "error", "empty", "raised"}]
    /\ probe \in Probes \cup {"idle"}
    /\ fetchLock \in Commands \cup {"probe", Nobody} /\ on \in Links \cup {None}
    /\ \A c \in Commands : (handler[c] \in InFetch) <=> (fetchLock = c)
    /\ (probe \in Probes) <=> (fetchLock = "probe")
    /\ (on # None) <=> \E c \in Commands : handler[c] \in {"asking", "sent"}
    /\ bridge \in [Commands -> {"none", "asked", "ok", "error", "unsure", "queued", "late"}]
    /\ \A c \in Commands :
         bridge[c] = "queued" => handler[c] \in {"returned", "published", "done"}
    /\ service \in [client : Links \cup {None}, connected : BOOLEAN]
    /\ {busy, bridgeUp, overtaken} \subseteq BOOLEAN
    /\ generation \in Generations \cup {0} /\ stopped \subseteq Generations
    /\ keeper \in [Generations ->
                     [at : {"none", "run", "back", "wait", "opened", "install", "gone"},
                      cur : Links \cup {None}]]
    /\ wire \in [Links -> {"none", "up", "down", "closed"}]
    /\ restarts \in 0 .. MaxRestart

Init ==
    /\ row = [c \in Commands |-> "none"] /\ handler = [c \in Commands |-> "idle"]
    /\ result = [c \in Commands |-> "none"]
    /\ probe = "idle" /\ fetchLock = Nobody /\ on = None
    /\ bridge = [c \in Commands |-> "none"]
    /\ service = [client |-> None, connected |-> FALSE]
    /\ busy = FALSE /\ generation = 0 /\ stopped = {}
    /\ keeper = [g \in Generations |-> [at |-> "none", cur |-> None]]
    /\ wire = [k \in Links |-> "none"]
    /\ bridgeUp \in BOOLEAN
    /\ overtaken = FALSE /\ restarts = 0

-----------------------------------------------------------------------------
\* The connections w, of which those are forgotten that nobody has any more.
Wired(w) ==
    wire' = [k \in Links |->
               IF k \in {service'.client, on'} \cup {keeper'[g].cur : g \in Generations}
               THEN w[k] ELSE "none"]

\* A probe's client is no longer the service's.
ProbeIs(at) == probe' = IF probe = "asking" THEN at ELSE probe

\* VsoaService.disconnect
Disconnected ==
    /\ ProbeIs("closed")
    /\ stopped' = stopped \cup ({generation} \ {0})
    /\ service' = [client |-> None, connected |-> FALSE]

\* connect, up to the connection: what there was is disconnected.
Connect ==
    /\ ~busy /\ generation < MaxConnect
    /\ Disconnected
    /\ busy' = TRUE /\ generation' = generation + 1
    /\ UNCHANGED <<commandVars, bridge, keeper, bridgeUp, overtaken, restarts>>
    /\ Wired([k \in Links |-> IF k = service.client THEN "closed" ELSE wire[k]])

Unused == {k \in Links : wire[k] = "none"}
Fresh(k) == k \in Unused /\ \A l \in Unused : k <= l

\* _open_client succeeds: the service is connected and a thread keeps it so.
ConnectSucceeds(k) ==
    /\ busy /\ bridgeUp /\ Fresh(k)
    /\ wire' = [wire EXCEPT ![k] = "up"]
    /\ service' = [client |-> k, connected |-> TRUE]
    /\ keeper' = [keeper EXCEPT ![generation] = [at |-> "run", cur |-> k]]
    /\ ProbeIs("behind")
    /\ busy' = FALSE /\ overtaken' = FALSE
    /\ UNCHANGED <<commandVars, bridge, generation, stopped, bridgeUp, restarts>>

\* It fails: there is no thread, and nobody tries again.
ConnectFails ==
    /\ busy /\ ~bridgeUp
    /\ busy' = FALSE
    /\ UNCHANGED <<commandVars, probe, bridge, service, generation, stopped, keeper, wire, bridgeUp,
                   overtaken, restarts>>

ConnectEnds == ConnectFails \/ \E k \in Links : ConnectSucceeds(k)

-----------------------------------------------------------------------------
\* What the thread had is nothing to it when it waits or is over.
Move(g, at) == keeper' = [keeper EXCEPT ![g] =
    [at |-> at, cur |-> IF at \in {"wait", "gone"} THEN None ELSE @.cur]]

\* _run_with_reconnect: run has returned or raised.
RunEnds(g) ==
    /\ keeper[g].at = "run"
    /\ g \in stopped \/ wire[keeper[g].cur] # "up"
    /\ Move(g, IF g \in stopped THEN "gone"
               ELSE IF service.client = keeper[g].cur THEN "back" ELSE "wait")
    /\ UNCHANGED <<commandVars, probe, bridge, service, busy, generation, stopped, bridgeUp,
                   overtaken, restarts>>
    /\ Wired(wire)

\* The service was found to have the client that was lost.
MarkLost(g) ==
    /\ keeper[g].at = "back"
    /\ service' = [service EXCEPT !.connected = FALSE]
    /\ Move(g, "wait")
    /\ overtaken' = (overtaken \/ g \in stopped)
    /\ UNCHANGED <<commandVars, probe, bridge, busy, generation, stopped, bridgeUp, restarts>>
    /\ Wired(wire)

GiveUp(g) ==     \* a slip: a failed attempt is the last one
    /\ keeper[g].at = "wait" /\ (g \in stopped \/ ~bridgeUp)
    /\ Move(g, "gone")
    /\ UNCHANGED <<commandVars, probe, bridge, service, busy, generation, stopped, wire, bridgeUp,
                   overtaken, restarts>>

\* stop_event.wait ends the thread; without it another attempt is made, which changes
\* nothing when it fails.
StopSeen(g) ==
    /\ keeper[g].at = "wait" /\ g \in stopped
    /\ Move(g, "gone")
    /\ UNCHANGED <<commandVars, probe, bridge, service, busy, generation, stopped, wire, bridgeUp,
                   overtaken, restarts>>

Reopen(g, k) ==
    /\ keeper[g].at = "wait" /\ bridgeUp /\ Fresh(k)
    /\ wire' = [wire EXCEPT ![k] = "up"]
    /\ keeper' = [keeper EXCEPT ![g] = [at |-> "opened", cur |-> k]]
    /\ UNCHANGED <<commandVars, probe, bridge, service, busy, generation, stopped, bridgeUp,
                   overtaken, restarts>>

\* The stop event is looked at before the new client is put in ...
Recheck(g) ==
    /\ keeper[g].at = "opened"
    /\ Move(g, IF g \in stopped THEN "gone" ELSE "install")
    /\ UNCHANGED <<commandVars, probe, bridge, service, busy, generation, stopped, bridgeUp,
                   overtaken, restarts>>
    /\ Wired(IF g \in stopped THEN [wire EXCEPT ![keeper[g].cur] = "closed"] ELSE wire)

\* ... and again before it is run, when it is in already.
Install(g) ==
    /\ keeper[g].at = "install"
    /\ service' = [client |-> keeper[g].cur, connected |-> TRUE]
    /\ ProbeIs("behind")
    /\ Move(g, IF g \in stopped THEN "gone" ELSE "run")
    /\ overtaken' = (g \in stopped)
    /\ UNCHANGED <<commandVars, bridge, busy, generation, stopped, bridgeUp, restarts>>
    /\ Wired(wire)

Keeper(g) ==
    \/ RunEnds(g) \/ MarkLost(g) \/ StopSeen(g) \/ Recheck(g) \/ Install(g)
    \/ \E k \in Links : Reopen(g, k)

-----------------------------------------------------------------------------
\* The bridge goes, and every connection with it; connections lost alone are not
\* distinguished.
BridgeStops ==
    /\ bridgeUp
    /\ bridgeUp' = FALSE
    /\ wire' = [k \in Links |-> IF wire[k] = "up" THEN "down" ELSE wire[k]]
    /\ UNCHANGED <<commandVars, probe, bridge, linkVars, restarts>>

BridgeStarts ==
    /\ ~bridgeUp
    /\ bridgeUp' = TRUE
    /\ UNCHANGED <<commandVars, probe, bridge, linkVars, wire, restarts>>

\* The bridge answers what it was asked, in time or not: it has published the command, or
\* refused it, or is unsure.  It says then that publishing failed or took too long, while
\* an attempt that has not ended, or paho, may publish it yet (_publish_single_attempt).
Answers == {"ok", "error", "unsure"}

BridgeAnswers(c, answer) ==
    /\ bridge[c] = "asked" /\ bridgeUp
    /\ bridge' = [bridge EXCEPT ![c] = answer]
    /\ UNCHANGED <<commandVars, probe, linkVars, wire, bridgeUp, restarts>>

PublishedLate(c) ==
    /\ bridge[c] = "unsure"
    /\ bridge' = [bridge EXCEPT ![c] = "late"]
    /\ UNCHANGED <<commandVars, probe, linkVars, wire, bridgeUp, restarts>>

-----------------------------------------------------------------------------
SucceedsIfTold(res) == res = "ok"     \* a slip: no answer counts as a failure

\* acknowledge_command: a result without error_code, success and ok counts as a success.
Succeeds(res) == res \in {"ok", "empty"}

Verdict(c, res) ==
    row' = [row EXCEPT ![c] = IF Succeeds(res) THEN "acknowledged" ELSE "failed"]

\* create_device_command for a device behind the bridge: the row is made, and refused at
\* once when the service is not connected.
Create(c) ==
    /\ ~busy /\ generation > 0 /\ handler[c] = "idle"
    /\ IF service.connected
       THEN /\ row' = [row EXCEPT ![c] = "pending"]
            /\ handler' = [handler EXCEPT ![c] = "sending"]
       ELSE /\ Verdict(c, "raised")
            /\ handler' = [handler EXCEPT ![c] = "done"]
    /\ UNCHANGED <<result, fetchVars, bridge, linkVars, wire, bridgeUp, restarts>>

Return(c, res) ==
    /\ handler' = [handler EXCEPT ![c] = "returned"]
    /\ result' = [result EXCEPT ![c] = res]

\* send_command, on a thread of its own: it looks at the service before the lock ...
Check(c) ==
    /\ handler[c] = "sending"
    /\ IF service.connected /\ service.client # None
       THEN handler' = [handler EXCEPT ![c] = "locking"] /\ UNCHANGED result
       ELSE Return(c, "raised")
    /\ UNCHANGED <<row, fetchVars, bridge, linkVars, wire, bridgeUp, restarts>>

\* The client of the service can be asked: it is there and has not been closed.
Usable == service.client \in {k \in Links : wire[k] # "closed"}

\* The fetch is over, or hangs.
LeaveLink ==
    /\ on' = None
    /\ UNCHANGED <<service, keeper>>
    /\ Wired(wire)
Release == fetchLock' = Nobody /\ LeaveLink

\* ... and takes the client of the service when it has the lock: none raises, a closed
\* one refuses the fetch, which is the empty result.
Lock(c) ==
    /\ handler[c] = "locking" /\ fetchLock = Nobody
    /\ IF Usable
       THEN /\ handler' = [handler EXCEPT ![c] = "asking"]
            /\ fetchLock' = c /\ on' = service.client
            /\ UNCHANGED result
       ELSE /\ Return(c, IF service.client = None THEN "raised" ELSE "empty")
            /\ UNCHANGED <<fetchLock, on>>
    /\ UNCHANGED <<row, probe, bridge, linkVars, wire, bridgeUp, restarts>>

\* The request goes out and is pending; pending on a client that has been closed, nothing
\* ends it.
Ask(c) ==
    /\ handler[c] = "asking" /\ wire[on] # "closed"
    /\ handler' = [handler EXCEPT ![c] = "sent"]
    /\ bridge' = IF wire[on] = "up" THEN [bridge EXCEPT ![c] = "asked"] ELSE bridge
    /\ UNCHANGED <<row, result, fetchVars, linkVars, wire, bridgeUp, restarts>>

Hang(c) ==
    /\ handler[c] = "asking" /\ wire[on] = "closed"
    /\ handler' = [handler EXCEPT ![c] = "hung"]
    /\ LeaveLink
    /\ UNCHANGED <<row, result, probe, fetchLock, bridge, busy, generation, stopped, overtaken,
                   bridgeUp, restarts>>

\* The answer arrives if a thread runs the client.
Answered(c) ==
    /\ handler[c] = "sent" /\ bridge[c] \in Answers \cup {"late"}
    /\ wire[on] = "up"
    /\ \E g \in Generations : keeper[g].at = "run" /\ keeper[g].cur = on
    /\ Return(c, IF bridge[c] = "ok" THEN "ok" ELSE "error")
    /\ Release
    /\ UNCHANGED <<row, probe, bridge, busy, generation, stopped, overtaken, bridgeUp,
                   restarts>>

\* The time is over, or the connection: the result is empty.
Missed(c) ==
    /\ handler[c] = "sent"
    /\ Return(c, "empty")
    /\ Release
    /\ UNCHANGED <<row, probe, bridge, busy, generation, stopped, overtaken, bridgeUp,
                   restarts>>

\* Back on the event loop: the row gets its verdict.
Acknowledge(c) ==
    /\ handler[c] = "returned" /\ ~busy
    /\ Verdict(c, result[c])
    /\ handler' = [handler EXCEPT ![c] = "done"]
    /\ result' = [result EXCEPT ![c] = "none"]
    /\ UNCHANGED <<fetchVars, bridge, linkVars, wire, bridgeUp, restarts>>

Sending(c) == Check(c) \/ Lock(c) \/ Ask(c) \/ Hang(c) \/ Answered(c) \/ Missed(c) \/ Acknowledge(c)

\* probe_health, on a thread of its own, fetches under the same lock, and what it learns is
\* only shown.  (The bound of the model: one at a time.  It looks at the service before it
\* waits for the lock, and nothing keeps what it saw.)
ProbeLock ==
    /\ probe = "idle" /\ Usable
    /\ fetchLock = Nobody
    /\ fetchLock' = "probe" /\ probe' = "asking"
    /\ UNCHANGED <<row, handler, result, on, bridge, linkVars, wire, bridgeUp, restarts>>

ProbeKeepsLock ==     \* a slip: the lock kept when the fetch raises
    /\ probe \in {"asking", "behind", "closed"}
    /\ probe' = "idle"
    /\ UNCHANGED <<row, handler, result, fetchLock, on, bridge, linkVars, wire, bridgeUp, restarts>>

\* The fetch ends, however it does; on a client that was closed under it it may hang.
ProbeEnds ==
    /\ probe \in {"asking", "behind", "closed"}
    /\ \/ fetchLock' = Nobody /\ probe' = "idle"
       \/ probe = "closed" /\ probe' = "hung" /\ UNCHANGED fetchLock
    /\ UNCHANGED <<row, handler, result, on, bridge, linkVars, wire, bridgeUp, restarts>>

\* A command of a directly driven device, with MqttService.  (The bound of the model: it
\* is one of the Direct.)
CreateDirect(c) ==
    /\ c \in Direct /\ ~busy /\ generation > 0 /\ handler[c] = "idle"
    /\ \/ /\ row' = [row EXCEPT ![c] = "pending"]
          /\ handler' = [handler EXCEPT ![c] = "publishing"]
       \/ /\ Verdict(c, "error")
          /\ handler' = [handler EXCEPT ![c] = "done"]
    /\ UNCHANGED <<result, fetchVars, bridge, linkVars, wire, bridgeUp, restarts>>

NotPublished(c) == Return(c, "error")

\* publish, on a thread of its own: it goes through the connections for one that is
\* connected ...
Pick(c) ==
    /\ handler[c] = "publishing"
    /\ \/ handler' = [handler EXCEPT ![c] = "picked"] /\ UNCHANGED result
       \/ NotPublished(c)
    /\ UNCHANGED <<row, fetchVars, bridge, linkVars, wire, bridgeUp, restarts>>

\* ... and publishes with its client.  The row of a command that was published stays
\* pending; one that was not, or was when the connection was gone already, may be in paho's
\* queue.
Publish(c) ==
    /\ \/ /\ handler[c] = "picked"
          /\ bridge' = [bridge EXCEPT ![c] = "ok"]
          /\ handler' = [handler EXCEPT ![c] = "published"] /\ UNCHANGED result
       \/ /\ handler[c] = "picked"
          /\ \E b \in {"none", "queued"} : bridge' = [bridge EXCEPT ![c] = b]
          /\ \/ NotPublished(c)
             \/ handler' = [handler EXCEPT ![c] = "published"] /\ UNCHANGED result
       \/ handler[c] = "orphan" /\ NotPublished(c) /\ UNCHANGED bridge
    /\ UNCHANGED <<row, fetchVars, linkVars, wire, bridgeUp, restarts>>

Publishing(c) == Pick(c) \/ Publish(c)

\* MqttService.disconnect.  A publish that goes through the connections may raise when they
\* change, and then the row has no handler any more; one that has gone through them has a
\* client without a connection, and what that client had queued is lost.
MqttDisconnected ==
    /\ \E torn \in SUBSET {c \in Commands : handler[c] = "publishing"} :
         handler' = [c \in Commands |-> IF c \in torn THEN "lost"
                                        ELSE IF handler[c] = "picked" THEN "orphan"
                                        ELSE handler[c]]
    /\ bridge' = [c \in Commands |-> IF bridge[c] = "queued" THEN "none" ELSE bridge[c]]

\* connect begins with it too.
MqttChanges ==
    /\ ~busy /\ generation > 0
    /\ MqttDisconnected
    /\ UNCHANGED <<row, result, fetchVars, linkVars, wire, bridgeUp, restarts>>

\* _on_connect accepted: paho sends what it has queued.  (Rejected, nothing changes.)
OnConnect ==
    /\ bridge' = [c \in Commands |-> IF bridge[c] = "queued" THEN "late" ELSE bridge[c]]
    /\ UNCHANGED <<commandVars, probe, linkVars, wire, bridgeUp, restarts>>

-----------------------------------------------------------------------------
\* The platform is stopped at any point and started again: the rows are what is left,
\* and nobody takes up a command that was being handled.
Restart ==
    /\ restarts < MaxRestart /\ generation \in 1 .. MaxConnect - 1
    /\ restarts' = restarts + 1
    /\ handler' = [c \in Commands |-> IF handler[c] \in {"idle", "done", "published"}
                                      THEN handler[c] ELSE "lost"]
    /\ bridge' = [c \in Commands |-> IF bridge[c] = "queued" THEN "none" ELSE bridge[c]]
    /\ result' = [c \in Commands |-> "none"]
    /\ probe' = "idle" /\ fetchLock' = Nobody /\ on' = None
    /\ service' = [client |-> None, connected |-> FALSE]
    /\ keeper' = [g \in Generations |-> IF g <= generation THEN [at |-> "gone", cur |-> None]
                                                           ELSE keeper[g]]
    /\ stopped' = 1 .. generation
    /\ wire' = [k \in Links |-> "none"]
    /\ busy' = TRUE /\ generation' = generation + 1 /\ overtaken' = FALSE
    /\ UNCHANGED <<row, bridgeUp>>

Next ==
    \/ Connect \/ ConnectEnds
    \/ \E g \in Generations : Keeper(g)
    \/ BridgeStops \/ BridgeStarts
    \/ \E c \in Commands : \/ Create(c) \/ CreateDirect(c) \/ Sending(c) \/ Publishing(c)
                           \/ PublishedLate(c) \/ \E a \in Answers : BridgeAnswers(c, a)
    \/ ProbeLock \/ ProbeEnds
    \/ MqttChanges \/ OnConnect
    \/ Restart

Spec == Init /\ [][Next]_vars

\* The threads of the platform go on, a connect ends, and who waits for _fetch_lock has it
\* some time if it is released again and again; nothing is promised of the bridge.
FairSpec ==
    /\ Spec
    /\ WF_vars(ConnectEnds) /\ WF_vars(ProbeEnds)
    /\ \A g \in Generations : WF_vars(Keeper(g))
    /\ \A c \in Commands : WF_vars(Sending(c) \/ Publishing(c)) /\ SF_vars(Lock(c))

-----------------------------------------------------------------------------
\* A command recorded as failed was refused: by the service before it was sent, by the
\* bridge, or by paho; never for want of an answer, and never one the bridge has reported
\* done (create_device_command, send_command, acknowledge_command, MqttService.publish).
\* Who sends it again may still do it twice, in two cases: the bridge was unsure, and paho
\* keeps a command it has refused for a broker it has lost.
FailedWasRefused ==
    \A c \in Commands :
      row[c] = "failed" => bridge[c] \in {"none", "error"} \cup {"unsure", "queued", "late"}

\* A command gets a verdict or, if directly driven, is published, whatever becomes of the
\* links, unless the platform is restarted, the connections to the brokers are changed
\* under its publish, or a fetch, of a command or of a probe, hangs on a client that was
\* closed under it, and with it every fetch behind it.
CommandDecided ==
    \A c \in Commands :
      row[c] = "pending" ~> \/ row[c] # "pending"
                            \/ handler[c] \in {"published", "lost"}
                            \/ probe = "hung" \/ \E d \in Commands : handler[d] = "hung"

Kept == /\ service.connected /\ service.client # None
        /\ \E g \in Generations \ stopped : keeper[g] = [at |-> "run", cur |-> service.client]

\* When the bridge stays, the service ends up connected by a client that a thread runs,
\* however often the link was lost, made again and connected anew before, provided the last
\* connect succeeded and no stopped thread has changed the service since it was last put
\* right.
LinkComesBack ==
    <>[]bridgeUp =>
      <>[](Kept \/ overtaken \/ generation = 0 \/ keeper[generation].at = "none")

-----------------------------------------------------------------------------
\* What the documentation says and the code does not do (a violation run).

\* iot_test_platform/docs/device_integration_contract.md: a command is acknowledged or
\* failed by its ACK; without one it is not shown as done.
AcknowledgedWasAnswered ==
    \A c \in Commands : row[c] = "acknowledged" => bridge[c] = "ok"
=============================================================================
