------------------------------ MODULE Downlink ------------------------------
(***************************************************************************)
(* The downlink command path of the bridge: a command arrives on one of    *)
(* two channels, is validated, looked up in the device registry, checked   *)
(* against the idempotence cache, turned into an MQTT message and          *)
(* published.                                                              *)
(*   - RPC (src/src/downlink/rpc_server.py): handlers run one at a time on *)
(*     the event loop of the VSOA server.  Every publish attempt has a     *)
(*     thread of its own and the handler waits for it no longer than a     *)
(*     timeout.  An attempt given up on keeps running.                     *)
(*   - Pub/Sub (src/src/downlink/pubsub_handler.py): callbacks run one at  *)
(*     a time on the client's thread, which itself makes the one attempt.  *)
(* Both share the registry, the cache and the broker connections, each of  *)
(* which publishes under a lock (src/src/mqtt_handler.py).                 *)
(*                                                                         *)
(* The cache appears as the set of identifiers it holds.  Forget stands    *)
(* for expiry and for eviction at capacity, whose timing DedupCache models.*)
(***************************************************************************)
EXTENDS CommandMessage, FiniteSets

CONSTANTS RpcRequests,    \* requests to /bridge/send_command
          PubSubMessages, \* messages on /ctrl/cmd
          Ids,            \* command identifiers
          Unhashable,     \* identifiers, of commands and devices, that are no dict key
          Bodies,         \* what a command may carry (CommandMessage)
          MaxRetries,     \* retry.max_retries
          MaxForget       \* bound of the model: times an identifier is forgotten

Requests == RpcRequests \cup PubSubMessages

ASSUME DownlinkAssumption ==
    /\ RpcRequests \cap PubSubMessages = {}
    /\ Unhashable \subseteq Ids \cup Devices
    /\ MaxRetries \in Nat
    /\ MaxForget \in Nat

VARIABLES known,      \* devices in the registry
          seen,       \* identifiers in the cache
          connected,  \* per broker: MQTTHandler._connected
          cmd,        \* the command a request carries
          stage,      \* where the handling of a request is
          answer,     \* code of the reply or ACK
          attempt,    \* per request and try: the publish attempt
          try,        \* index of the current attempt
          epoch,      \* history: times an identifier was forgotten
          admittedIn  \* history: epoch in which the request passed the cache

bridgeVars == <<known, seen, connected>>
requestVars == <<cmd, stage, answer, attempt, try>>
history == <<epoch, admittedIn>>
vars == <<known, seen, connected, cmd, stage, answer, attempt, try, epoch, admittedIn>>

Command == [id : Ids, dev : Devices, body : Bodies]
NoCommand == <<>>

Refusals == {"invalid", "unknown", "duplicate", "internal", "offline"}
Codes == Refusals \cup {"ok", "failed", "timeout"}
Handling == {"lookup", "dedup", "build", "join", "backoff"}

\* "sent": the MQTT client took the message; "acked": the broker confirmed it.
AttemptStates == {"none", "waiting", "locked", "sent", "acked", "refused"}
Attempt == [st : AttemptStates, late : BOOLEAN]
Tries == 0 .. MaxRetries
NotAdmitted == -1

TypeOK ==
    /\ known \subseteq Devices
    /\ seen \subseteq Ids
    /\ connected \in [Brokers -> BOOLEAN]
    /\ cmd \in [Requests -> Command \cup {NoCommand}]
    /\ stage \in [Requests -> Handling \cup {"new", "queued", "answered", "raised"}]
    /\ answer \in [Requests -> Codes \cup {"none"}]
    /\ attempt \in [Requests -> [Tries -> Attempt]]
    /\ try \in [Requests -> Tries]
    /\ epoch \in [Ids -> Nat]
    /\ admittedIn \in [Requests -> Nat \cup {NotAdmitted}]
    /\ \A r \in Requests : (stage[r] = "new") <=> (cmd[r] = NoCommand)

Init ==
    /\ known = {}
    /\ seen = {}
    /\ connected = [b \in Brokers |-> FALSE]
    /\ cmd = [r \in Requests |-> NoCommand]
    /\ stage = [r \in Requests |-> "new"]
    /\ answer = [r \in Requests |-> "none"]
    /\ attempt = [r \in Requests |-> [k \in Tries |-> [st |-> "none", late |-> FALSE]]]
    /\ try = [r \in Requests |-> 0]
    /\ epoch = [i \in Ids |-> 0]
    /\ admittedIn = [r \in Requests |-> NotAdmitted]

-----------------------------------------------------------------------------
Rpc(r) == r \in RpcRequests
SameChannel(r, s) == Rpc(r) <=> Rpc(s)
Broker(r) == Handler(Message(cmd[r]).topic)
Accepted(r) == Valid(cmd[r].body, Rpc(r))
RouterConnected == \E b \in Brokers : connected[b]
Alive(a) == a.st \in {"waiting", "locked"}
Published(a) == a.st \in {"sent", "acked"}

\* Move the handling of r on, or end it with a reply or an ACK.
GoTo(r, st) == stage' = [stage EXCEPT ![r] = st] /\ UNCHANGED answer
Answer(r, code) ==
    /\ stage' = [stage EXCEPT ![r] = "answered"]
    /\ answer' = [answer EXCEPT ![r] = code]

StartAttempt(r, k) ==
    /\ attempt' = [attempt EXCEPT ![r][k].st = "waiting"]
    /\ try' = [try EXCEPT ![r] = k]
    /\ GoTo(r, "join")

AfterFailureOnceMore(r, code) ==   \* a slip: one retry too many
    IF Rpc(r) /\ try[r] <= MaxRetries THEN GoTo(r, "backoff") ELSE Answer(r, code)

\* After a failed try: back off and try again, or give up with the last error.
\* The Pub/Sub channel makes one try only.
AfterFailure(r, code) ==
    IF Rpc(r) /\ try[r] < MaxRetries THEN GoTo(r, "backoff") ELSE Answer(r, code)

-----------------------------------------------------------------------------
\* A client sends a command; the same identifier may come on both channels.
Submit(r, c) ==
    /\ stage[r] = "new"
    /\ cmd' = [cmd EXCEPT ![r] = c]
    /\ GoTo(r, "queued")
    /\ UNCHANGED <<bridgeVars, attempt, try, history>>

\* The channel's one thread takes the next command and validates it.  A handler that
\* raised has taken the thread with it: the event loop of the VSOA server, or the client's,
\* whose end is the end of the bridge (Bridge).
Receive(r) ==
    /\ stage[r] = "queued"
    /\ \A s \in Requests : SameChannel(r, s) => stage[s] \notin Handling \cup {"raised"}
    /\ IF ~Accepted(r) THEN Answer(r, "invalid") ELSE GoTo(r, "lookup")
    /\ UNCHANGED <<bridgeVars, cmd, attempt, try, history>>

Lookup(r) ==
    /\ stage[r] = "lookup" /\ cmd[r].dev \notin Unhashable
    /\ IF cmd[r].dev \in known THEN GoTo(r, "dedup") ELSE Answer(r, "unknown")
    /\ UNCHANGED <<bridgeVars, cmd, attempt, try, history>>

CheckAndMarkLate(r) ==   \* a slip: checked here, marked nowhere
    /\ stage[r] = "dedup" /\ cmd[r].id \notin Unhashable
    /\ IF cmd[r].id \in seen
       THEN Answer(r, "duplicate") /\ UNCHANGED admittedIn
       ELSE /\ admittedIn' = [admittedIn EXCEPT ![r] = epoch[cmd[r].id]]
            /\ GoTo(r, "build")
    /\ UNCHANGED <<bridgeVars, cmd, attempt, try, epoch>>

CheckAndMark(r) ==
    /\ stage[r] = "dedup" /\ cmd[r].id \notin Unhashable
    /\ IF cmd[r].id \in seen
       THEN Answer(r, "duplicate") /\ UNCHANGED <<seen, admittedIn>>
       ELSE /\ seen' = seen \cup {cmd[r].id}
            /\ admittedIn' = [admittedIn EXCEPT ![r] = epoch[cmd[r].id]]
            /\ GoTo(r, "build")
    /\ UNCHANGED <<known, connected, cmd, attempt, try, epoch>>

\* build_mqtt_message raises: the RPC handler reports an internal error, the
\* Pub/Sub handler acknowledges success.
BuildFails(r) ==
    /\ stage[r] = "build"
    /\ ~Builds(cmd[r])
    /\ Answer(r, IF Rpc(r) THEN "internal" ELSE "ok")
    /\ UNCHANGED <<bridgeVars, cmd, attempt, try, history>>

\* The RPC handler first asks whether any broker is connected, whichever the
\* message is routed to; the Pub/Sub handler does not ask.
StartPublish(r) ==
    /\ stage[r] = "build"
    /\ Builds(cmd[r])
    /\ IF Rpc(r) /\ ~RouterConnected
       THEN Answer(r, "offline") /\ UNCHANGED <<attempt, try>>
       ELSE StartAttempt(r, 0)
    /\ UNCHANGED <<bridgeVars, cmd, history>>

\* The join of an RPC request whose timeout_ms is null, or not a number, raises.
Joins(r) == Rpc(r) => cmd[r].body.timeout # "null"

JoinShared(r) ==   \* a slip: one result cell shared by the attempts of a request
    /\ stage[r] = "join" /\ Joins(r)
    /\ \/ (\E k \in Tries : Published(attempt[r][k])) /\ Answer(r, "ok")
       \/ attempt[r][try[r]].st = "refused" /\ AfterFailure(r, "failed")
    /\ UNCHANGED <<bridgeVars, cmd, attempt, try, history>>

\* The attempt has ended in time: report success, or go on after the failure.
Join(r) ==
    /\ stage[r] = "join" /\ Joins(r)
    /\ LET a == attempt[r][try[r]] IN
       \/ Published(a) /\ Answer(r, "ok")
       \/ a.st = "refused" /\ AfterFailure(r, "failed")
    /\ UNCHANGED <<bridgeVars, cmd, attempt, try, history>>

TimeOutLastOnly(r) ==   \* a slip: only the last try joined with a timeout
    /\ stage[r] = "join"
    /\ Rpc(r) /\ Joins(r)
    /\ try[r] = MaxRetries
    /\ Alive(attempt[r][try[r]])
    /\ attempt' = [attempt EXCEPT ![r][try[r]].late = TRUE]
    /\ AfterFailure(r, "timeout")
    /\ UNCHANGED <<bridgeVars, cmd, try, history>>

\* join(timeout) gives up on an attempt that is still running.
TimeOut(r) ==
    /\ stage[r] = "join"
    /\ Rpc(r) /\ Joins(r)
    /\ Alive(attempt[r][try[r]])
    /\ attempt' = [attempt EXCEPT ![r][try[r]].late = TRUE]
    /\ AfterFailure(r, "timeout")
    /\ UNCHANGED <<bridgeVars, cmd, try, history>>

Retry(r) ==
    /\ stage[r] = "backoff"
    /\ StartAttempt(r, try[r] + 1)
    /\ UNCHANGED <<bridgeVars, cmd, history>>

\* validate lets a list or an object through as an identifier, but no dict can be asked
\* for it, neither the registry's nor the cache's; and nothing catches what they raise.
LookupRaises(r) == stage[r] = "lookup" /\ cmd[r].dev \in Unhashable
MarkRaises(r) == stage[r] = "dedup" /\ cmd[r].id \in Unhashable
JoinRaises(r) == stage[r] = "join" /\ ~Joins(r)

Raise(r) ==
    /\ LookupRaises(r) \/ MarkRaises(r) \/ JoinRaises(r)
    /\ GoTo(r, "raised")
    /\ UNCHANGED <<bridgeVars, cmd, attempt, try, history>>

-----------------------------------------------------------------------------
\* The publishing thread takes the lock of the broker's handler.
Acquire(r, k) ==
    /\ attempt[r][k].st = "waiting"
    /\ \A s \in Requests, j \in Tries :
         attempt[s][j].st = "locked" => Broker(s) # Broker(r)
    /\ attempt' = [attempt EXCEPT ![r][k].st = "locked"]
    /\ UNCHANGED <<bridgeVars, cmd, stage, answer, try, history>>

\* Under the lock: refused when not connected; otherwise the MQTT client takes the
\* message or reports an error.
Publish(r, k) ==
    /\ attempt[r][k].st = "locked"
    /\ \E st \in (IF connected[Broker(r)] THEN {"sent", "refused"} ELSE {"refused"}) :
         attempt' = [attempt EXCEPT ![r][k].st = st]
    /\ UNCHANGED <<bridgeVars, cmd, stage, answer, try, history>>

\* The broker confirms a message (QoS 1), some time after the client took it.
PubAck(r, k) ==
    /\ attempt[r][k].st = "sent"
    /\ connected[Broker(r)]
    /\ attempt' = [attempt EXCEPT ![r][k].st = "acked"]
    /\ UNCHANGED <<bridgeVars, cmd, stage, answer, try, history>>

-----------------------------------------------------------------------------
\* An uplink message of the device registers it under a string; nothing unregisters one.
Register(d) ==
    /\ d \notin known \cup Unhashable
    /\ known' = known \cup {d}
    /\ UNCHANGED <<seen, connected, requestVars, history>>

LinkChange(b) ==
    /\ connected' = [connected EXCEPT ![b] = ~@]
    /\ UNCHANGED <<known, seen, requestVars, history>>

Forget(i) ==
    /\ i \in seen
    /\ epoch[i] < MaxForget
    /\ seen' = seen \ {i}
    /\ epoch' = [epoch EXCEPT ![i] = @ + 1]
    /\ UNCHANGED <<known, connected, requestVars, admittedIn>>

Handle(r) ==
    \/ Receive(r)
    \/ Lookup(r)
    \/ CheckAndMark(r)
    \/ BuildFails(r)
    \/ StartPublish(r)
    \/ Join(r)
    \/ Raise(r)
    \/ TimeOut(r)
    \/ Retry(r)

Next ==
    \/ \E r \in Requests : (\E c \in Command : Submit(r, c)) \/ Handle(r)
    \/ \E r \in Requests, k \in Tries : Acquire(r, k) \/ Publish(r, k) \/ PubAck(r, k)
    \/ \E d \in Devices : Register(d)
    \/ \E b \in Brokers : LinkChange(b)
    \/ \E i \in Ids : Forget(i)

Spec == Init /\ [][Next]_vars

\* The threads of the bridge run: a queued command is taken, a join ends at the
\* latest by its timeout, a back-off passes.  Nothing is said of the MQTT client,
\* whose publish may hang with the lock held, and nothing of a bridge whose Pub/Sub
\* thread, the main one, was ended by a handler.
BridgeLives == \A m \in PubSubMessages : stage[m] # "raised"
FairBridge == \A r \in Requests : WF_vars(BridgeLives /\ Handle(r))

\* The MQTT client also returns from publish, and a waiting thread gets the lock:
\* each thread takes it once, so the others cannot keep it from this one for ever.
FairClient == \A r \in Requests, k \in Tries :
                WF_vars(Acquire(r, k)) /\ WF_vars(Publish(r, k))

FairSpec == Spec /\ FairBridge

-----------------------------------------------------------------------------
\* What every request that passed the cache knows about its identifier.
Admissions ==
    \A r \in Requests :
      admittedIn[r] # NotAdmitted =>
        /\ cmd[r] # NoCommand
        /\ admittedIn[r] <= epoch[cmd[r].id]
        /\ admittedIn[r] = epoch[cmd[r].id] => cmd[r].id \in seen

\* At most one execution per identifier between two times the cache forgets it,
\* whichever of the two channels the copies arrive on and however their handling
\* interleaves.
OncePerWindow ==
    \A r, s \in Requests :
      (/\ r # s
       /\ admittedIn[r] # NotAdmitted /\ admittedIn[s] # NotAdmitted
       /\ cmd[r].id = cmd[s].id) => admittedIn[r] # admittedIn[s]

\* A message reaches an MQTT client only for a command that was valid, whose device
\* was registered and whose identifier the cache admitted; a refusal of the bridge
\* is therefore final: no attempt of that request is made, then or later.
OnlyAdmittedPublish ==
    \A r \in Requests :
      (\E k \in Tries : attempt[r][k].st # "none") =>
        /\ Accepted(r) /\ Builds(cmd[r])
        /\ cmd[r].dev \in known
        /\ admittedIn[r] # NotAdmitted
        /\ answer[r] \notin Refusals

\* A device is made to do what a command says at most once per window, and only for a
\* command the bridge did not refuse (handle, is_duplicate).
OneExecution == OncePerWindow /\ OnlyAdmittedPublish

\* The answer tells what became of the attempts the handler waited for: success
\* exactly when one of them was published, and then it is the only one.  A device
\* gets a command twice, or gets one that was reported failed, only through an
\* attempt the handler gave up on.
AnswerMatchesAttempts ==
    \A r \in Requests :
      LET onTime == {k \in Tries : Published(attempt[r][k]) /\ ~attempt[r][k].late}
      IN /\ Cardinality(onTime) <= 1
         /\ (answer[r] = "ok" /\ Builds(cmd[r])) => onTime # {}
         /\ answer[r] \in {"failed", "timeout"} => onTime = {}

\* A refusal as duplicate has a cause: another request carrying the identifier was
\* admitted, on this channel or the other.
DuplicateHasOriginal ==
    \A r \in Requests :
      answer[r] = "duplicate" =>
        \E s \in Requests \ {r} : cmd[s] # NoCommand /\ cmd[s].id = cmd[r].id
                                  /\ admittedIn[s] # NotAdmitted

\* The answer of the bridge is true, of the attempts made and of the refusals.
TrueAnswers == AnswerMatchesAttempts /\ DuplicateHasOriginal

\* The three commands that pass validation and make the handler raise: an identifier that
\* is a list or an object, of the device or of the command, and a timeout_ms of an RPC
\* request that is null (rpc_server.py, pubsub_handler.py).
Unanswerable(r) == {cmd[r].dev, cmd[r].id} \cap Unhashable # {} \/ ~Joins(r)

\* Such a command was handled and has ended what handles r: on the RPC channel the event
\* loop of the server, on Pub/Sub the bridge.
Lost(r) == \E s \in Requests :
             stage[s] = "raised" /\ Unanswerable(s) /\ (Rpc(s) => Rpc(r))

\* Every RPC request is answered even if the MQTT client never returns from a
\* publish: this is what the thread per attempt and the timed join are for.  Only one of
\* the commands that raise ends the answers, those to everybody after it included.
RpcAnswered ==
    \A r \in RpcRequests : stage[r] = "queued" ~> (stage[r] = "answered" \/ Lost(r))

\* A Pub/Sub command is answered provided the MQTT client returns from every publish;
\* without that its one thread waits for the broker's lock for ever.  A command that
\* raises gets no ACK, and nor does any later one.
PubSubAnswered ==
    FairClient =>
      \A r \in PubSubMessages : stage[r] = "queued" ~> (stage[r] = "answered" \/ Lost(r))

\* Nobody who sent a command is left without an answer, but for a command that raises.
Answered == RpcAnswered /\ PubSubAnswered

-----------------------------------------------------------------------------
\* What the documentation says and the code does not do (the violation runs).

\* doc/spec.md section 4.4: a success ACK stands for a message handed to MQTT.
SuccessMeansPublished ==
    \A r \in Requests : answer[r] = "ok" => \E k \in Tries : Published(attempt[r][k])
=============================================================================
