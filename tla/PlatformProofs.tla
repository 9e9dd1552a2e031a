---------------------------- MODULE PlatformProofs ----------------------------
(***************************************************************************)
(* Theorems about the IoT platform.  Its commands, for any number of       *)
(* commands, connections, generations and restarts: what is recorded as    *)
(* failed was refused, and one fetch is under way at a time.  Its events,  *)
(* for every set of events and sockets and every number of worker threads: *)
(* one active alert per cause, and broadcasts that pass nobody over.       *)
(***************************************************************************)
EXTENDS PlatformCommand, PlatformEvents, TLAPS

-----------------------------------------------------------------------------
(* Commands.                                                                   *)

Before == {"idle", "sending", "locking", "asking", "publishing", "picked", "orphan"}
Places == {"idle", "sending", "locking", "returned", "publishing", "picked", "orphan",
           "published", "done", "lost"} \cup InFetch
Undone == {"none", "error", "unsure", "queued", "late"}

\* What the steps look at: an abridged type invariant.
Shapes ==
    /\ row \in [Commands -> {"none", "pending", "acknowledged", "failed"}]
    /\ handler \in [Commands -> Places]
    /\ result \in [Commands -> {"none", "ok", "error", "empty", "raised"}]
    /\ bridge \in [Commands -> {"none", "asked", "ok", "error", "unsure", "queued", "late"}]

\* The story of a command: nothing has been asked before it is sent; a result other than
\* the empty one tells what has become of it; and a row fails when the handler is through.
Story(c) ==
    /\ handler[c] \in Before => bridge[c] = "none"
    /\ handler[c] = "returned" => result[c] # "none"
    /\ result[c] # "none" => handler[c] = "returned"
    /\ result[c] \in {"raised", "error"} => bridge[c] \in Undone
    /\ row[c] = "failed" => handler[c] = "done" /\ bridge[c] \in Undone

Inv == Shapes /\ \A c \in Commands : Story(c)

-----------------------------------------------------------------------------
\* The inductive invariant implies the property.
LEMMA InvFailed == Inv => FailedWasRefused
BY DEF Inv, Story, Undone, FailedWasRefused

\* At first no command has been made.
LEMMA InitInv == Init => Inv
BY DEF Init, Inv, Shapes, Story, Before, Places, InFetch, Undone

\* A step that changes the story of one command only.
LEMMA OneStory ==
    ASSUME Inv, Shapes', NEW c \in Commands, Story(c)',
           \A d \in Commands \ {c} : /\ row'[d] = row[d] /\ handler'[d] = handler[d]
                                     /\ result'[d] = result[d] /\ bridge'[d] = bridge[d]
    PROVE  Inv'
<1>1. ASSUME NEW d \in Commands
      PROVE  Story(d)'
  <2>1. CASE d = c
    BY <2>1
  <2>2. CASE d # c
    BY <2>2 DEF Inv, Story
  <2> QED
    BY <2>1, <2>2
<1> QED
  BY <1>1 DEF Inv

\* create_device_command: a row that fails at once had nothing sent.
LEMMA CreateStep ==
    ASSUME Inv, NEW c \in Commands, Create(c) \/ CreateDirect(c)
    PROVE  Inv'
<1>1. Shapes'
  BY DEF Inv, Shapes, Create, CreateDirect, Verdict, Succeeds, Places
<1>2. \A d \in Commands \ {c} : /\ row'[d] = row[d] /\ handler'[d] = handler[d]
                                /\ result'[d] = result[d] /\ bridge'[d] = bridge[d]
  BY DEF Inv, Shapes, Create, CreateDirect, Verdict
<1>3. Story(c)'
  BY DEF Inv, Shapes, Story, Create, CreateDirect, Verdict, Succeeds, Before, Undone
<1> QED
  BY <1>1, <1>2, <1>3, OneStory

\* send_command: it raises only before the request is sent.
LEMMA SendingStep ==
    ASSUME Inv, NEW c \in Commands, Sending(c)
    PROVE  Inv'
<1>1. CASE Check(c) \/ Lock(c)
  <2>1. Shapes'
    BY <1>1 DEF Inv, Shapes, Check, Lock, Return, Places, InFetch
  <2>2. \A d \in Commands \ {c} : /\ row'[d] = row[d] /\ handler'[d] = handler[d]
                                  /\ result'[d] = result[d] /\ bridge'[d] = bridge[d]
    BY <1>1 DEF Inv, Shapes, Check, Lock, Return
  <2>3. Story(c)'
    BY <1>1 DEF Inv, Shapes, Story, Check, Lock, Return, Before, Undone
  <2> QED
    BY <2>1, <2>2, <2>3, OneStory
<1>2. CASE Ask(c) \/ Hang(c)
  <2>1. Shapes'
    BY <1>2 DEF Inv, Shapes, Ask, Hang, Places, InFetch
  <2>2. \A d \in Commands \ {c} : /\ row'[d] = row[d] /\ handler'[d] = handler[d]
                                  /\ result'[d] = result[d] /\ bridge'[d] = bridge[d]
    BY <1>2 DEF Inv, Shapes, Ask, Hang
  <2>3. Story(c)'
    BY <1>2 DEF Inv, Shapes, Story, Ask, Hang, Before, Undone
  <2> QED
    BY <2>1, <2>2, <2>3, OneStory
<1>3. CASE Answered(c) \/ Missed(c)
  <2>1. Shapes'
    BY <1>3 DEF Inv, Shapes, Answered, Missed, Return, Places
  <2>2. \A d \in Commands \ {c} : /\ row'[d] = row[d] /\ handler'[d] = handler[d]
                                  /\ result'[d] = result[d] /\ bridge'[d] = bridge[d]
    BY <1>3 DEF Inv, Shapes, Answered, Missed, Return
  <2>3. Story(c)'
    BY <1>3 DEF Inv, Shapes, Story, Answered, Missed, Answers, Return, Before, Undone
  <2> QED
    BY <2>1, <2>2, <2>3, OneStory
<1>4. CASE Acknowledge(c)
  <2>1. Shapes'
    BY <1>4 DEF Inv, Shapes, Acknowledge, Verdict, Succeeds, Places
  <2>2. \A d \in Commands \ {c} : /\ row'[d] = row[d] /\ handler'[d] = handler[d]
                                  /\ result'[d] = result[d] /\ bridge'[d] = bridge[d]
    BY <1>4 DEF Inv, Shapes, Acknowledge, Verdict
  <2>3. Story(c)'
    BY <1>4 DEF Inv, Shapes, Story, Acknowledge, Verdict, Succeeds, Before, Undone
  <2> QED
    BY <2>1, <2>2, <2>3, OneStory
<1> QED
  BY <1>1, <1>2, <1>3, <1>4 DEF Sending

\* MqttService.publish: what it reports as not published is nowhere, or with paho.
LEMMA PublishingStep ==
    ASSUME Inv, NEW c \in Commands, Publishing(c)
    PROVE  Inv'
<1>1. Shapes'
  BY DEF Inv, Shapes, Publishing, Pick, Publish, NotPublished, Return, Places
<1>2. \A d \in Commands \ {c} : /\ row'[d] = row[d] /\ handler'[d] = handler[d]
                                /\ result'[d] = result[d] /\ bridge'[d] = bridge[d]
  BY DEF Inv, Shapes, Publishing, Pick, Publish, NotPublished, Return
<1>3. CASE Pick(c)
  <2>1. Story(c)'
    BY <1>3 DEF Inv, Shapes, Story, Pick, NotPublished, Return, Before, Undone
  <2> QED
    BY <1>1, <1>2, <2>1, OneStory
<1>4. CASE Publish(c)
  <2>1. Story(c)'
    BY <1>4 DEF Inv, Shapes, Story, Publish, NotPublished, Return, Before, Undone
  <2> QED
    BY <1>1, <1>2, <2>1, OneStory
<1> QED
  BY <1>3, <1>4 DEF Publishing

\* The bridge decides only what it was asked, and that was not recorded as failed; what
\* it was unsure of it has not reported done.
LEMMA BridgeStep ==
    ASSUME Inv, NEW c \in Commands,
           PublishedLate(c) \/ \E answer \in Answers : BridgeAnswers(c, answer)
    PROVE  Inv'
<1>1. Shapes'
  BY DEF Inv, Shapes, Answers, BridgeAnswers, PublishedLate, commandVars
<1>2. \A d \in Commands \ {c} : /\ row'[d] = row[d] /\ handler'[d] = handler[d]
                                /\ result'[d] = result[d] /\ bridge'[d] = bridge[d]
  BY DEF Inv, Shapes, BridgeAnswers, PublishedLate, commandVars
<1>3. Story(c)'
  BY DEF Inv, Shapes, Story, Answers, BridgeAnswers, PublishedLate, commandVars, Before, Undone
<1> QED
  BY <1>1, <1>2, <1>3, OneStory

\* The connections to the brokers come and go: what paho had queued is lost or sent.
LEMMA MqttStep ==
    ASSUME Inv, MqttChanges \/ OnConnect
    PROVE  Inv'
<1>1. CASE MqttChanges
  <2>1. Shapes'
    BY <1>1 DEF Inv, Shapes, MqttChanges, MqttDisconnected, Places
  <2>2. ASSUME NEW c \in Commands
        PROVE  Story(c)'
    BY <1>1 DEF Inv, Shapes, Story, MqttChanges, MqttDisconnected, Before, Undone
  <2> QED
    BY <2>1, <2>2 DEF Inv
<1>2. CASE OnConnect
  <2>1. Shapes'
    BY <1>2 DEF Inv, Shapes, OnConnect, commandVars
  <2>2. ASSUME NEW c \in Commands
        PROVE  Story(c)'
    BY <1>2 DEF Inv, Shapes, Story, OnConnect, commandVars, Before, Undone
  <2> QED
    BY <2>1, <2>2 DEF Inv
<1> QED
  BY <1>1, <1>2

\* A restart leaves the rows, and no handler but those that are through.
LEMMA RestartStep ==
    ASSUME Inv, Restart
    PROVE  Inv'
<1>1. Shapes'
  BY DEF Inv, Shapes, Restart, Places
<1>2. ASSUME NEW c \in Commands
      PROVE  Story(c)'
  BY DEF Inv, Shapes, Story, Restart, Before, Undone
<1> QED
  BY <1>1, <1>2 DEF Inv

\* The links are made and lost, and probed, without a look at the commands.
LEMMA LinkStep ==
    ASSUME Inv,
           \/ Connect \/ ConnectEnds \/ BridgeStops \/ BridgeStarts \/ ProbeLock \/ ProbeEnds
           \/ \E g \in Generations : Keeper(g)
           \/ UNCHANGED vars
    PROVE  Inv'
<1>1. UNCHANGED <<row, handler, result, bridge>>
  BY DEF Connect, ConnectEnds, ConnectFails, ConnectSucceeds, BridgeStops, BridgeStarts,
         ProbeLock, ProbeEnds, Keeper, RunEnds, MarkLost, StopSeen, Recheck, Install, Reopen,
         commandVars, vars
<1> QED
  BY <1>1 DEF Inv, Shapes, Story

\* Every step keeps the invariant.
LEMMA NextInv == Inv /\ [Next]_vars => Inv'
BY CreateStep, SendingStep, PublishingStep, BridgeStep, MqttStep, RestartStep, LinkStep
   DEF Next

\* A command recorded as failed was refused, by the platform, the bridge or paho, whatever
\* became of links, threads and the platform itself meanwhile: it was neither reported done
\* nor left unanswered (create_device_command, send_command, MqttService.publish,
\* acknowledge_command).
THEOREM OnlyRefusedFails == Spec => []FailedWasRefused
BY InvFailed, InitInv, NextInv, PTL DEF Spec

-----------------------------------------------------------------------------
\* The parts of the type invariant: of the commands, ...
Rows ==
    /\ Shapes
    /\ on \in Links \cup {None}
    /\ fetchLock \in Commands \cup {"probe", Nobody}
    /\ probe \in Probes \cup {"idle"}

\* ... the lock, which the one command, or the probe, in a fetch holds, ...
Locked ==
    /\ \A c \in Commands : (handler[c] \in InFetch) <=> (fetchLock = c)
    /\ (probe \in Probes) <=> (fetchLock = "probe")
    /\ (on # None) <=> \E c \in Commands : handler[c] \in {"asking", "sent"}

\* ... what paho keeps, ...
Queued ==
    \A c \in Commands :
      bridge[c] = "queued" => handler[c] \in {"returned", "published", "done"}

\* ... and the links.
LinkTypes ==
    /\ service \in [client : Links \cup {None}, connected : BOOLEAN]
    /\ {busy, bridgeUp, overtaken} \subseteq BOOLEAN
    /\ generation \in Generations \cup {0} /\ stopped \subseteq Generations
    /\ keeper \in [Generations ->
                     [at : {"none", "run", "back", "wait", "opened", "install", "gone"},
                      cur : Links \cup {None}]]
    /\ wire \in [Links -> {"none", "up", "down", "closed"}]
    /\ restarts \in 0 .. MaxRestart

Types == Rows /\ Locked /\ Queued /\ LinkTypes

\* The parts make the type invariant.
LEMMA Parts == Types => TypeOK
BY DEF Types, TypeOK, Rows, Shapes, Places, Locked, Queued, LinkTypes

\* Connections that are forgotten were connections.
LEMMA WiredTypes ==
    ASSUME NEW w \in [Links -> {"none", "up", "down", "closed"}], Wired(w)
    PROVE  wire' \in [Links -> {"none", "up", "down", "closed"}]
BY DEF Wired

\* What a fetch or a publication does to its command keeps the parts that are about
\* commands.
LEMMA CommandTypes ==
    ASSUME Types, NEW c \in Commands, Create(c) \/ CreateDirect(c) \/ Sending(c) \/ Publishing(c)
    PROVE  Types'
<1> USE PlatformAssumption DEF PlatformAssumption, Types
<1>1. LinkTypes'
  <2>1. CASE Hang(c) \/ Answered(c) \/ Missed(c)
    <3>1. wire' \in [Links -> {"none", "up", "down", "closed"}]
      BY <2>1, WiredTypes DEF LinkTypes, Hang, Answered, Missed, LeaveLink, Release
    <3> QED
      BY <2>1, <3>1 DEF LinkTypes, Hang, Answered, Missed, LeaveLink, Release
  <2>2. CASE ~(Hang(c) \/ Answered(c) \/ Missed(c))
    BY <2>2 DEF LinkTypes, Create, CreateDirect, Sending, Check, Lock, Ask, Acknowledge,
                Publishing, Pick, Publish, linkVars
  <2> QED
    BY <2>1, <2>2
<1>2. CASE Create(c) \/ CreateDirect(c)
  <2>1. Rows'
    BY <1>2 DEF Rows, Shapes, Places, Create, CreateDirect, Verdict, Succeeds, fetchVars
  <2>2. Locked'
    BY <1>2 DEF Rows, Shapes, Locked, InFetch, Create, CreateDirect, fetchVars
  <2>3. Queued'
    BY <1>2 DEF Rows, Shapes, Queued, Create, CreateDirect
  <2> QED
    BY <1>1, <2>1, <2>2, <2>3
<1>3. CASE Check(c)
  <2>1. Rows'
    BY <1>3 DEF Rows, Shapes, Places, Check, Return, fetchVars
  <2>2. Locked'
    BY <1>3 DEF Rows, Shapes, Locked, InFetch, Check, Return, fetchVars
  <2>3. Queued'
    BY <1>3 DEF Rows, Shapes, Queued, Check, Return
  <2> QED
    BY <1>1, <2>1, <2>2, <2>3
<1>4. CASE Lock(c)
  <2>0. Usable => service.client \in Links /\ service.client # None
    BY DEF Usable, Links, None
  <2>1. Rows'
    BY <1>4, <2>0 DEF Rows, Shapes, Places, InFetch, Lock, Return
  <2>2. Locked'
    <3>1. CASE Usable
      <4>1. /\ handler' = [handler EXCEPT ![c] = "asking"] /\ fetchLock' = c /\ on' # None
            /\ fetchLock = Nobody /\ probe' = probe
        BY <1>4, <2>0, <3>1 DEF Lock
      <4>2. \A d \in Commands : (handler'[d] \in InFetch) <=> (fetchLock' = d)
        BY <4>1 DEF Rows, Shapes, Locked, InFetch, Nobody
      <4>3. (probe' \in Probes) <=> (fetchLock' = "probe")
        BY <4>1 DEF Locked, Nobody
      <4>4. handler'[c] = "asking"
        BY <4>1 DEF Rows, Shapes
      <4> QED
        BY <4>1, <4>2, <4>3, <4>4 DEF Locked
    <3>2. CASE ~Usable
      BY <1>4, <3>2 DEF Rows, Shapes, Locked, InFetch, Lock, Return
    <3> QED
      BY <3>1, <3>2
  <2>3. Queued'
    BY <1>4 DEF Rows, Shapes, Queued, Lock, Return
  <2> QED
    BY <1>1, <2>1, <2>2, <2>3
<1>5. CASE Ask(c)
  <2>1. Rows'
    BY <1>5 DEF Rows, Shapes, Places, InFetch, Ask, fetchVars
  <2>2. Locked'
    BY <1>5 DEF Rows, Shapes, Locked, InFetch, Ask, fetchVars
  <2>3. Queued'
    BY <1>5 DEF Rows, Shapes, Queued, Ask
  <2> QED
    BY <1>1, <2>1, <2>2, <2>3
<1>6. CASE Hang(c) \/ Answered(c) \/ Missed(c)
  <2>0. fetchLock = c /\ on' = None /\ probe' = probe
    BY <1>6 DEF Locked, InFetch, Hang, Answered, Missed, LeaveLink, Release
  <2>1. Rows'
    BY <1>6, <2>0 DEF Rows, Shapes, Places, InFetch, Hang, Answered, Missed, Return, Release
  <2>2. \A d \in Commands : (handler'[d] \in InFetch) <=> (fetchLock' = d)
    BY <1>6, <2>0 DEF Rows, Shapes, Locked, InFetch, Hang, Answered, Missed, Return, Release, Nobody
  <2>3. (probe' \in Probes) <=> (fetchLock' = "probe")
    BY <1>6, <2>0 DEF Locked, Hang, Answered, Missed, Release, Nobody
  <2>4. \A d \in Commands : handler'[d] \notin {"asking", "sent"}
    BY <1>6, <2>0 DEF Rows, Shapes, Locked, InFetch, Hang, Answered, Missed, Return
  <2>5. Queued'
    BY <1>6 DEF Rows, Shapes, Queued, Hang, Answered, Missed, Return
  <2> QED
    BY <1>1, <2>0, <2>1, <2>2, <2>3, <2>4, <2>5 DEF Locked
<1>7. CASE Acknowledge(c)
  <2>1. Rows'
    BY <1>7 DEF Rows, Shapes, Places, Acknowledge, Verdict, Succeeds, fetchVars
  <2>2. Locked'
    BY <1>7 DEF Rows, Shapes, Locked, InFetch, Acknowledge, fetchVars
  <2>3. Queued'
    BY <1>7 DEF Rows, Shapes, Queued, Acknowledge
  <2> QED
    BY <1>1, <2>1, <2>2, <2>3
<1>8. CASE Publishing(c)
  <2>1. Rows'
    BY <1>8 DEF Rows, Shapes, Places, Publishing, Pick, Publish, NotPublished, Return, fetchVars
  <2>2. Locked'
    BY <1>8 DEF Rows, Shapes, Locked, InFetch, Publishing, Pick, Publish, NotPublished, Return,
                fetchVars
  <2>3. Queued'
    BY <1>8 DEF Rows, Shapes, Queued, Publishing, Pick, Publish, NotPublished, Return
  <2> QED
    BY <1>1, <2>1, <2>2, <2>3
<1> QED
  BY <1>2, <1>3, <1>4, <1>5, <1>6, <1>7, <1>8 DEF Sending

\* The links are made, lost and made again by their threads.
LEMMA KeeperTypes ==
    ASSUME Types, \/ Connect \/ ConnectEnds \/ BridgeStops \/ BridgeStarts
                   \/ \E g \in Generations : Keeper(g)
    PROVE  Types'
<1> USE PlatformAssumption DEF PlatformAssumption, Types, LinkTypes
<1>1. /\ UNCHANGED <<row, handler, result, on, fetchLock, bridge>>
      /\ probe' = probe \/ ProbeIs("behind") \/ ProbeIs("closed")
  BY DEF Connect, Disconnected, ConnectEnds, ConnectFails, ConnectSucceeds, BridgeStops,
         BridgeStarts, Keeper, RunEnds, MarkLost, StopSeen, Recheck, Install, Reopen, commandVars
<1>2. Rows' /\ Locked' /\ Queued'
  <2>1. probe' \in Probes \cup {"idle"} /\ (probe' \in Probes <=> probe \in Probes)
    BY <1>1 DEF Rows, ProbeIs, Probes
  <2> QED
    BY <1>1, <2>1 DEF Rows, Shapes, Locked, Queued
<1>3. CASE Connect
  <2>1. generation' \in Generations /\ stopped' \subseteq Generations
    BY <1>3 DEF Connect, Disconnected, Generations
  <2>2. /\ keeper' = keeper /\ restarts' = restarts
        /\ busy' = TRUE /\ bridgeUp' = bridgeUp /\ overtaken' = overtaken
    BY <1>3 DEF Connect
  <2>3. service' \in [client : Links \cup {None}, connected : BOOLEAN]
    BY <1>3 DEF Connect, Disconnected
  <2>4. wire' \in [Links -> {"none", "up", "down", "closed"}]
    BY <1>3, WiredTypes DEF Connect
  <2> QED
    BY <1>2, <2>1, <2>2, <2>3, <2>4
<1>4. CASE ConnectEnds
  <2>1. CASE ConnectFails
    BY <1>2, <2>1 DEF ConnectFails
  <2>2. ASSUME NEW k \in Links, ConnectSucceeds(k) PROVE Types'
    <3>1. /\ wire' \in [Links -> {"none", "up", "down", "closed"}]
          /\ service' \in [client : Links \cup {None}, connected : BOOLEAN]
      BY <2>2 DEF ConnectSucceeds
    <3>2. keeper' \in [Generations ->
            [at : {"none", "run", "back", "wait", "opened", "install", "gone"},
             cur : Links \cup {None}]]
      BY <2>2 DEF ConnectSucceeds
    <3>3. /\ generation' = generation /\ stopped' = stopped /\ restarts' = restarts
          /\ bridgeUp' = bridgeUp /\ overtaken' = FALSE /\ busy' = FALSE
      BY <2>2 DEF ConnectSucceeds
    <3> QED
      BY <1>2, <3>1, <3>2, <3>3
  <2> QED
    BY <1>4, <2>1, <2>2 DEF ConnectEnds
<1>5. CASE BridgeStops \/ BridgeStarts
  BY <1>2, <1>5 DEF BridgeStops, BridgeStarts, linkVars
<1>6. ASSUME NEW g \in Generations, Keeper(g)
      PROVE  LinkTypes'
  <2>0. ASSUME NEW at \in {"back", "wait", "install", "run", "gone"}, Move(g, at)
        PROVE  keeper' \in [Generations ->
                 [at : {"none", "run", "back", "wait", "opened", "install", "gone"},
                  cur : Links \cup {None}]]
    BY <2>0 DEF Move
  <2>1. CASE RunEnds(g)
    <3>1. wire' \in [Links -> {"none", "up", "down", "closed"}]
      BY <2>1, WiredTypes DEF RunEnds
    <3> QED
      BY <2>0, <2>1, <3>1 DEF RunEnds
  <2>2. CASE StopSeen(g)
    BY <2>0, <2>2 DEF StopSeen
  <2>3. CASE MarkLost(g)
    <3>1. wire' \in [Links -> {"none", "up", "down", "closed"}]
      BY <2>3, WiredTypes DEF MarkLost
    <3> QED
      BY <2>0, <2>3, <3>1 DEF MarkLost
  <2>4. CASE Recheck(g)
    <3>1. [wire EXCEPT ![keeper[g].cur] = "closed"] \in [Links -> {"none", "up", "down", "closed"}]
      OBVIOUS
    <3>2. wire' \in [Links -> {"none", "up", "down", "closed"}]
      BY <2>4, <3>1, WiredTypes DEF Recheck
    <3> QED
      BY <2>0, <2>4, <3>2 DEF Recheck
  <2>5. CASE Install(g)
    <3>1. wire' \in [Links -> {"none", "up", "down", "closed"}]
      BY <2>5, WiredTypes DEF Install
    <3> QED
      BY <2>0, <2>5, <3>1 DEF Install
  <2>6. CASE \E k \in Links : Reopen(g, k)
    BY <2>6 DEF Reopen
  <2> QED
    BY <1>6, <2>1, <2>2, <2>3, <2>4, <2>5, <2>6 DEF Keeper
<1> QED
  BY <1>2, <1>3, <1>4, <1>5, <1>6

\* One fetch at a time, of a command or of a probe, and only its command has a connection;
\* paho keeps nothing of a command whose publication is still going on (_fetch_lock,
\* MqttService); and the states of rows and links, in every state.
THEOREM TypeCorrect == Spec => []TypeOK
<1> USE PlatformAssumption DEF PlatformAssumption, Types
<1>1. Init => Types
  <2>1. Init => Rows /\ Locked /\ Queued
    BY DEF Init, Rows, Shapes, Places, Locked, Queued, Probes, InFetch, Nobody, None
  <2>2. ASSUME Init PROVE LinkTypes
    <3>1. /\ busy = FALSE /\ overtaken = FALSE /\ bridgeUp \in BOOLEAN
          /\ generation = 0 /\ stopped = {} /\ restarts = 0
      BY <2>2 DEF Init
    <3>2. restarts \in 0 .. MaxRestart
      BY <3>1
    <3>3. service \in [client : Links \cup {None}, connected : BOOLEAN]
      BY <2>2 DEF Init
    <3>4. /\ keeper \in [Generations ->
              [at : {"none", "run", "back", "wait", "opened", "install", "gone"},
               cur : Links \cup {None}]]
          /\ wire \in [Links -> {"none", "up", "down", "closed"}]
      BY <2>2 DEF Init
    <3> QED
      BY <3>1, <3>2, <3>3, <3>4 DEF LinkTypes
  <2> QED
    BY <2>1, <2>2
<1>2. Types /\ [Next]_vars => Types'
  <2> SUFFICES ASSUME Types, [Next]_vars PROVE Types'
    OBVIOUS
  <2>1. ASSUME NEW c \in Commands,
               PublishedLate(c) \/ \E a \in Answers : BridgeAnswers(c, a)
        PROVE  Types'
    <3>1. Rows' /\ Locked' /\ Queued'
      BY <2>1 DEF BridgeAnswers, PublishedLate, Answers, commandVars, Rows, Shapes, Locked, Queued
    <3> QED
      BY <2>1, <3>1 DEF BridgeAnswers, PublishedLate, linkVars, LinkTypes
  <2>2. CASE MqttChanges
    <3>1. Rows' /\ LinkTypes'
      BY <2>2 DEF MqttChanges, MqttDisconnected, linkVars, fetchVars, Rows, Shapes, Places, LinkTypes
    <3>2. Locked' /\ Queued'
      BY <2>2 DEF MqttChanges, MqttDisconnected, fetchVars, Rows, Shapes, Locked, Queued, InFetch
    <3> QED
      BY <3>1, <3>2
  <2>3. CASE OnConnect
    <3>1. Rows' /\ LinkTypes'
      BY <2>3 DEF OnConnect, commandVars, linkVars, Rows, Shapes, LinkTypes
    <3>2. Locked' /\ Queued'
      BY <2>3 DEF OnConnect, commandVars, Rows, Shapes, Locked, Queued
    <3> QED
      BY <3>1, <3>2
  <2>4. CASE ProbeLock \/ ProbeEnds
    <3>1. UNCHANGED <<row, handler, result, on, bridge, linkVars, wire, bridgeUp, restarts>>
      BY <2>4 DEF ProbeLock, ProbeEnds
    <3>2. /\ fetchLock' \in {"probe", Nobody} /\ fetchLock \in {"probe", Nobody}
          /\ probe' \in Probes \cup {"idle"}
          /\ probe' \in Probes <=> fetchLock' = "probe"
      BY <2>4 DEF ProbeLock, ProbeEnds, Probes, Nobody, Locked
    <3>3. \A c \in Commands : c # "probe" /\ c # Nobody
      BY DEF Nobody
    <3>4. Rows' /\ Locked'
      BY <3>1, <3>2, <3>3 DEF Rows, Shapes, Locked
    <3> QED
      BY <3>1, <3>4 DEF linkVars, LinkTypes, Queued
  <2>5. CASE Restart
    <3>1. generation' \in Generations /\ stopped' \subseteq Generations
          /\ restarts' \in 0 .. MaxRestart
      BY <2>5 DEF Restart, LinkTypes, Generations
    <3>2. LinkTypes'
      BY <2>5, <3>1 DEF Restart, LinkTypes, None
    <3>3. Rows'
      BY <2>5 DEF Restart, Rows, Shapes, Places
    <3>4. Locked' /\ Queued'
      BY <2>5 DEF Restart, Rows, Shapes, Locked, Queued, InFetch, Probes, None, Nobody
    <3> QED
      BY <3>2, <3>3, <3>4
  <2>6. CASE UNCHANGED vars
    BY <2>6 DEF vars, Rows, Shapes, Locked, Queued, LinkTypes
  <2> QED
    BY <2>1, <2>2, <2>3, <2>4, <2>5, <2>6, CommandTypes, KeeperTypes DEF Next
<1> QED
  BY <1>1, <1>2, Parts, PTL DEF Spec

-----------------------------------------------------------------------------
(* Events.                                                                     *)

Casts == [members : SUBSET Sockets, seen : SUBSET Sockets, sent : SUBSET Sockets,
          stale : SUBSET Sockets, disturbed : BOOLEAN]

\* What the steps look at: an abridged type invariant.
EventShapes ==
    /\ task \in [Events -> [at : Working \cup Ended, kind : Kinds]]
    /\ cast \in [Events -> Casts]
    /\ socket \in [Sockets -> {"out", "on", "broken"}]
    /\ hub \subseteq Sockets

\* The lock belongs to the task between the look at the alerts and the insertion, and
\* that task has seen no active alert.
AlertInv ==
    /\ active \in {0, 1}
    /\ \A e \in Events : (task[e].at = "raise") <=> (dbLock = e)
    /\ \A e \in Events : task[e].at = "raise" => active = 0

\* A broadcast that was not disturbed goes through the hub as it is, and passed over
\* broken sockets only.
Faithful(e) ==
    /\ cast[e].members = hub
    /\ cast[e].seen \subseteq hub
    /\ \A s \in cast[e].seen : s \in cast[e].sent \/ socket[s] = "broken"

CastInv ==
    /\ \A s \in hub : socket[s] \in {"on", "broken"}
    /\ \A e \in Events : task[e].at # "send" => cast[e] = NoCast
    /\ \A e \in Events : task[e].at = "send" /\ ~cast[e].disturbed => Faithful(e)

EventsInv == EventShapes /\ AlertInv /\ CastInv

-----------------------------------------------------------------------------
\* Moving a task on keeps the shapes and every other task.
LEMMA GotoMoves ==
    ASSUME EventShapes, NEW e \in Events, NEW where \in Working \cup Ended, Goto(e, where)
    PROVE  /\ task' \in [Events -> [at : Working \cup Ended, kind : Kinds]]
           /\ task'[e].at = where
           /\ \A d \in Events \ {e} : task'[d] = task[d]
BY DEF EventShapes, Goto

\* A step that leaves hub, sockets and broadcasts alone, and brings no task into a
\* broadcast or out of one, keeps CastInv.
LEMMA CastUntouched ==
    ASSUME EventsInv, UNCHANGED hubVars,
           \A d \in Events : (task'[d].at = "send") <=> (task[d].at = "send")
    PROVE  CastInv'
BY DEF EventsInv, CastInv, Faithful, hubVars

\* A step that leaves the alerts and the lock alone, and brings no task under the lock or
\* out of it, keeps AlertInv.
LEMMA AlertUntouched ==
    ASSUME EventsInv, UNCHANGED dbVars,
           \A d \in Events : (task'[d].at = "raise") <=> (task[d].at = "raise")
    PROVE  AlertInv'
BY DEF EventsInv, AlertInv, dbVars

\* The same for a step of one task from one stage before the broadcast to another.
LEMMA PlainStep ==
    ASSUME EventsInv, UNCHANGED <<dbVars, hubVars>>, NEW e \in Events,
           task' \in [Events -> [at : Working \cup Ended, kind : Kinds]],
           task[e].at \notin {"raise", "send"}, task'[e].at \notin {"raise", "send"},
           \A d \in Events \ {e} : task'[d] = task[d]
    PROVE  EventsInv'
<1>1. EventShapes'
  BY DEF EventsInv, EventShapes, hubVars
<1>2. \A d \in Events : /\ (task'[d].at = "raise") <=> (task[d].at = "raise")
                        /\ (task'[d].at = "send") <=> (task[d].at = "send")
  OBVIOUS
<1> QED
  BY <1>1, <1>2, CastUntouched, AlertUntouched DEF EventsInv

\* A broadcast that the step of another task leaves alone stays as it was.
LEMMA OthersFaithful ==
    ASSUME EventsInv, NEW d \in Events, task'[d] = task[d], cast'[d] = cast[d],
           hub' = hub, socket' = socket
    PROVE  /\ task'[d].at # "send" => cast'[d] = NoCast
           /\ task'[d].at = "send" /\ ~cast'[d].disturbed => Faithful(d)'
BY DEF EventsInv, CastInv, Faithful

\* At first nothing is under way and nobody holds the lock.
LEMMA EventsStart == EventsInit => EventsInv
BY EventsAssumption
   DEF EventsInit, EventsInv, EventShapes, Casts, AlertInv, CastInv, NoCast, NoTask, Working,
       Ended, Kinds

\* A task goes through the database and the alerts.
LEMMA StoreStep ==
    ASSUME EventsInv, NEW e \in Events,
           \/ \E k \in Kinds : Arrive(e, k)
           \/ Insert(e) \/ Trigger(e) \/ Save(e) \/ ReadRules(e) \/ CameraAlert(e)
    PROVE  EventsInv'
<1>0. EventShapes
  BY DEF EventsInv
<1>1. ASSUME NEW k \in Kinds, Arrive(e, k)
      PROVE  EventsInv'
  <2>1. /\ task' \in [Events -> [at : Working \cup Ended, kind : Kinds]]
        /\ task'[e].at = "insert"
        /\ \A d \in Events \ {e} : task'[d] = task[d]
    BY <1>0, <1>1 DEF Arrive, EventShapes, Working
  <2> QED
    BY <1>1, <2>1, PlainStep DEF Arrive, Ended, dbVars, hubVars
<1>2. CASE Insert(e)
  <2> DEFINE next == IF task[e].kind = "capture" THEN "trigger" ELSE "rules"
  <2>1. next \in Working \cup Ended /\ next \notin {"raise", "send"} /\ Goto(e, next)
    BY <1>2 DEF Insert, Working
  <2> QED
    BY <1>0, <1>2, <2>1, GotoMoves, PlainStep DEF Insert, dbVars, hubVars
<1>3. CASE Trigger(e)
  <2>1. /\ task' \in [Events -> [at : Working \cup Ended, kind : Kinds]]
        /\ task'[e].at = "save"
        /\ \A d \in Events \ {e} : task'[d] = task[d]
    BY <1>0, <1>3 DEF Trigger, EventShapes, Working, Kinds
  <2> QED
    BY <1>3, <2>1, PlainStep DEF Trigger, dbVars, hubVars
<1>4. CASE Save(e)
  <2>1. PICK next \in {"rules", "camera"} : Goto(e, next)
    BY <1>4 DEF Save
  <2>2. next \in Working \cup Ended /\ next \notin {"raise", "send"}
    BY DEF Working
  <2> QED
    BY <1>0, <1>4, <2>1, <2>2, GotoMoves, PlainStep DEF Save, dbVars, hubVars
<1>5. CASE ReadRules(e)
  <2>1. PICK next \in {"check", "broadcast"} : Goto(e, next)
    BY <1>5 DEF ReadRules
  <2>2. next \in Working \cup Ended /\ next \notin {"raise", "send"}
    BY DEF Working
  <2> QED
    BY <1>0, <1>5, <2>1, <2>2, GotoMoves, PlainStep DEF ReadRules, dbVars, hubVars
<1>6. CASE CameraAlert(e)
  <2>1. "rules" \in Working \cup Ended
    BY DEF Working
  <2> QED
    BY <1>0, <1>6, <2>1, GotoMoves, PlainStep DEF CameraAlert, dbVars, hubVars
<1> QED
  BY <1>1, <1>2, <1>3, <1>4, <1>5, <1>6

\* The two halves of create_alert.
LEMMA AlertStep ==
    ASSUME EventsInv, NEW e \in Events, CheckAlert(e) \/ RaiseAlert(e)
    PROVE  EventsInv'
<1>0. EventShapes /\ {"raise", "broadcast"} \subseteq Working \cup Ended
  BY DEF EventsInv, Working
<1>1. CASE CheckAlert(e) /\ active > 0
  BY <1>0, <1>1, GotoMoves, PlainStep DEF CheckAlert, dbVars, hubVars
<1>2. CASE CheckAlert(e) /\ ~(active > 0)
  <2>1. /\ task' \in [Events -> [at : Working \cup Ended, kind : Kinds]]
        /\ task'[e].at = "raise"
        /\ \A d \in Events \ {e} : task'[d] = task[d]
    BY <1>0, <1>2, GotoMoves DEF CheckAlert
  <2>2. AlertInv'
    BY <1>2, <2>1, EventsAssumption DEF CheckAlert, EventsInv, AlertInv, DbFree, NoTask
  <2>3. CastInv'
    BY <1>2, <2>1, CastUntouched DEF CheckAlert
  <2> QED
    BY <1>2, <2>1, <2>2, <2>3 DEF EventsInv, EventShapes, CheckAlert, hubVars
<1>3. CASE RaiseAlert(e)
  <2>1. /\ task' \in [Events -> [at : Working \cup Ended, kind : Kinds]]
        /\ task'[e].at = "broadcast"
        /\ \A d \in Events \ {e} : task'[d] = task[d]
    BY <1>0, <1>3, GotoMoves DEF RaiseAlert
  <2>2. AlertInv'
    BY <1>3, <2>1, EventsAssumption DEF RaiseAlert, EventsInv, AlertInv, NoTask
  <2>3. CastInv'
    BY <1>3, <2>1, CastUntouched DEF RaiseAlert
  <2> QED
    BY <1>3, <2>1, <2>2, <2>3 DEF EventsInv, EventShapes, RaiseAlert, hubVars
<1> QED
  BY <1>1, <1>2, <1>3

\* The steps of a broadcast.
LEMMA BroadcastStep ==
    ASSUME EventsInv, NEW e \in Events,
           Broadcast(e) \/ (\E s \in Sockets : Send(e, s)) \/ CutShort(e) \/ Finish(e)
    PROVE  EventsInv'
<1>0. EventShapes /\ {"send", "raised", "none"} \subseteq Working \cup Ended
  BY DEF EventsInv, Working, Ended
<1>1. CASE Broadcast(e)
  <2>1. /\ task' \in [Events -> [at : Working \cup Ended, kind : Kinds]]
        /\ task'[e].at = "send" /\ task[e].at = "broadcast"
        /\ \A d \in Events \ {e} : task'[d] = task[d]
    BY <1>0, <1>1, GotoMoves DEF Broadcast
  <2>2. cast[e] = NoCast
    BY <2>1 DEF EventsInv, CastInv
  <2> DEFINE c == [cast[e] EXCEPT !.members = hub]
  <2>a. cast' = [cast EXCEPT ![e] = c]
    BY <1>1 DEF Broadcast
  <2>b. c \in Casts /\ c.members = hub /\ c.seen = {}
    <3>1. c = [NoCast EXCEPT !.members = hub] /\ hub \in SUBSET Sockets
      BY <1>0, <2>2 DEF EventShapes
    <3>2. NoCast \in Casts /\ NoCast.seen = {}
      BY DEF NoCast, Casts
    <3> HIDE DEF c
    <3>3. c \in Casts
      BY <3>1, <3>2 DEF Casts
    <3>4. c.members = hub /\ c.seen = NoCast.seen
      BY <3>1, <3>2 DEF Casts
    <3> QED BY <3>2, <3>3, <3>4
  <2>3. /\ cast' \in [Events -> Casts]
        /\ cast'[e].members = hub /\ cast'[e].seen = {}
        /\ \A d \in Events \ {e} : cast'[d] = cast[d]
    <3> HIDE DEF c
    <3> QED BY <1>0, <2>a, <2>b DEF EventShapes
  <2>4. CastInv'
    <3>1. hub' = hub /\ socket' = socket
      BY <1>1 DEF Broadcast
    <3>2. Faithful(e)'
      BY <2>3, <3>1 DEF Faithful
    <3>3. ASSUME NEW d \in Events \ {e}
          PROVE  /\ task'[d].at # "send" => cast'[d] = NoCast
                 /\ task'[d].at = "send" /\ ~cast'[d].disturbed => Faithful(d)'
      BY <2>1, <2>3, <3>1, OthersFaithful
    <3> QED
      BY <2>1, <3>1, <3>2, <3>3 DEF EventsInv, CastInv
  <2>5. AlertInv'
    BY <1>1, <2>1, AlertUntouched DEF Broadcast
  <2> QED
    BY <1>0, <1>1, <2>1, <2>3, <2>4, <2>5 DEF EventsInv, EventShapes, Broadcast
<1>2. ASSUME NEW s \in Sockets, Send(e, s)
      PROVE  EventsInv'
  <2> DEFINE sent == [cast[e] EXCEPT !.seen = @ \cup {s}, !.sent = @ \cup {s}]
             passed == [cast[e] EXCEPT !.seen = @ \cup {s}, !.stale = @ \cup {s}]
  <2>a. PICK c \in {sent, passed} :
          /\ cast' = [cast EXCEPT ![e] = c]
          /\ c = sent \/ socket[s] = "broken"
    BY <1>0, <1>2 DEF Send, EventShapes
  <2>b. cast[e] \in Casts
    BY <1>0 DEF EventShapes
  <2>c. /\ c \in Casts /\ c.members = cast[e].members
        /\ c.seen = cast[e].seen \cup {s} /\ cast[e].sent \subseteq c.sent
        /\ c = sent => s \in c.sent
    <3>1. CASE c = sent
      BY <2>b, <3>1 DEF Casts
    <3>2. CASE c = passed /\ c # sent
      BY <2>b, <3>2 DEF Casts
    <3> QED
      BY <2>a, <3>1, <3>2
  <2>d. c.disturbed = cast[e].disturbed
    <3>1. CASE c = sent
      BY <2>b, <3>1 DEF Casts
    <3>2. CASE c = passed
      BY <2>b, <3>2 DEF Casts
    <3> QED
      BY <2>a, <3>1, <3>2
  <2>1. /\ cast' \in [Events -> Casts] /\ cast'[e] = c
        /\ \A d \in Events \ {e} : cast'[d] = cast[d]
    <3>1. cast \in [Events -> Casts]
      BY <1>0 DEF EventShapes
    <3> HIDE DEF sent, passed
    <3> QED BY <2>a, <2>c, <3>1
  <2>2. CastInv'
    <3>1. hub' = hub /\ socket' = socket /\ task' = task /\ task[e].at = "send" /\ s \in hub
      BY <1>2 DEF Send
    <3>2. ASSUME ~cast'[e].disturbed PROVE Faithful(e)'
      <4>1. Faithful(e)
        BY <2>1, <2>d, <3>1, <3>2 DEF EventsInv, CastInv
      <4> HIDE DEF sent, passed
      <4> QED
        BY <2>1, <2>a, <2>c, <3>1, <4>1 DEF Faithful
    <3>3. ASSUME NEW d \in Events \ {e}
          PROVE  /\ task'[d].at # "send" => cast'[d] = NoCast
                 /\ task'[d].at = "send" /\ ~cast'[d].disturbed => Faithful(d)'
      BY <2>1, <3>1, OthersFaithful
    <3> QED
      BY <3>1, <3>2, <3>3 DEF EventsInv, CastInv
  <2>3. AlertInv'
    BY <1>2, AlertUntouched DEF Send
  <2> QED
    BY <1>0, <1>2, <2>1, <2>2, <2>3 DEF EventsInv, EventShapes, Send
<1>3. CASE CutShort(e)
  <2>1. /\ task' \in [Events -> [at : Working \cup Ended, kind : Kinds]]
        /\ task'[e].at = "raised" /\ task[e].at = "send"
        /\ \A d \in Events \ {e} : task'[d] = task[d]
    BY <1>0, <1>3, GotoMoves DEF CutShort
  <2>2. /\ cast' \in [Events -> Casts] /\ cast'[e] = NoCast
        /\ \A d \in Events \ {e} : cast'[d] = cast[d]
    BY <1>0, <1>3 DEF CutShort, EventShapes, Casts, NoCast
  <2>3. CastInv'
    <3>1. hub' = hub /\ socket' = socket
      BY <1>3 DEF CutShort
    <3>2. ASSUME NEW d \in Events \ {e}
          PROVE  /\ task'[d].at # "send" => cast'[d] = NoCast
                 /\ task'[d].at = "send" /\ ~cast'[d].disturbed => Faithful(d)'
      BY <2>1, <2>2, <3>1, OthersFaithful
    <3> QED
      BY <2>1, <2>2, <3>1, <3>2 DEF EventsInv, CastInv
  <2>4. AlertInv'
    BY <1>3, <2>1, AlertUntouched DEF CutShort
  <2> QED
    BY <1>0, <1>3, <2>1, <2>2, <2>3, <2>4 DEF EventsInv, EventShapes, CutShort
<1>4. CASE Finish(e)
  <2>1. /\ task' \in [Events -> [at : Working \cup Ended, kind : Kinds]]
        /\ task'[e].at = "none" /\ task[e].at = "send"
        /\ \A d \in Events \ {e} : task'[d] = task[d]
    BY <1>0, <1>4, GotoMoves DEF Finish
  <2> DEFINE late(d) == cast[d].disturbed \/ (task[d].at = "send" /\ hub' # hub)
  <2>a. cast' = [d \in Events |-> IF d = e THEN NoCast
                                   ELSE [cast[d] EXCEPT !.disturbed = late(d)]]
    BY <1>4 DEF Finish
  <2>b. /\ NoCast \in Casts
        /\ \A d \in Events : late(d) \in BOOLEAN /\ cast[d] \in Casts
    BY <1>0 DEF EventShapes, Casts, NoCast
  <2>c. \A d \in Events : [cast[d] EXCEPT !.disturbed = late(d)] \in Casts
    <3> HIDE DEF late
    <3> QED BY <2>b DEF Casts
  <2>d. cast' \in [Events -> Casts] /\ cast'[e] = NoCast
    BY <2>a, <2>b, <2>c
  <2>e. ASSUME NEW d \in Events \ {e}
        PROVE  /\ cast'[d] = [cast[d] EXCEPT !.disturbed = late(d)]
               /\ cast'[d].disturbed = late(d)
    <3>1. cast'[d] = [cast[d] EXCEPT !.disturbed = late(d)]
      BY <2>a
    <3> HIDE DEF late
    <3> QED BY <2>b, <3>1 DEF Casts
  <2>2. /\ cast' \in [Events -> Casts] /\ cast'[e] = NoCast
        /\ \A d \in Events \ {e} :
             /\ cast'[d] = [cast[d] EXCEPT !.disturbed = cast'[d].disturbed]
             /\ cast'[d].disturbed = late(d)
    BY <2>d, <2>e
  <2>3. hub' \subseteq hub /\ socket' = socket
    BY <1>4 DEF Finish
  <2>4. ASSUME NEW d \in Events, task'[d].at = "send", ~cast'[d].disturbed
        PROVE  Faithful(d)'
    <3>1. d # e /\ task[d].at = "send"
      BY <2>1, <2>4
    <3>2. ~cast[d].disturbed /\ hub' = hub
      BY <2>2, <2>4, <3>1
    <3>3. /\ cast'[d].members = cast[d].members /\ cast'[d].seen = cast[d].seen
          /\ cast'[d].sent = cast[d].sent
      BY <1>0, <2>2, <3>1 DEF EventShapes, Casts
    <3> QED
      BY <2>3, <3>1, <3>2, <3>3 DEF EventsInv, CastInv, Faithful
  <2>5. ASSUME NEW d \in Events, task'[d].at # "send"
        PROVE  cast'[d] = NoCast
    <3>1. CASE d = e
      BY <2>2, <3>1
    <3>2. CASE d # e
      <4>1. task[d].at # "send" /\ cast[d] = NoCast
        BY <2>1, <2>5, <3>2 DEF EventsInv, CastInv
      <4>a. cast[d].disturbed = FALSE
        BY <4>1 DEF NoCast
      <4>b. late(d) = FALSE
        BY <4>1, <4>a
      <4>2. cast'[d].disturbed = FALSE
        BY <2>2, <3>2, <4>b
      <4> QED
        BY <2>2, <3>2, <4>1, <4>2 DEF NoCast
    <3> QED
      BY <3>1, <3>2
  <2>6. AlertInv'
    BY <1>4, <2>1, AlertUntouched DEF Finish
  <2>7. CastInv'
    BY <2>3, <2>4, <2>5 DEF EventsInv, CastInv
  <2> QED
    BY <1>0, <2>1, <2>2, <2>3, <2>6, <2>7 DEF EventsInv, EventShapes
<1> QED
  BY <1>1, <1>2, <1>3, <1>4

\* Marking a broadcast with the mark it has leaves it as it is.
LEMMA SameMark ==
    ASSUME NEW r \in Casts, NEW mark, mark = r.disturbed
    PROVE  [r EXCEPT !.disturbed = mark] = r
BY DEF Casts

\* The hub changes under the broadcasts: where it really changes, they are disturbed.
LEMMA HubChanges ==
    ASSUME EventsInv, NEW clients \in SUBSET Sockets, HubBecomes(clients)
    PROVE  /\ cast' \in [Events -> Casts]
           /\ \A e \in Events : task[e].at # "send" => cast'[e] = cast[e]
           /\ \A e \in Events : task[e].at = "send" /\ ~cast'[e].disturbed
                => /\ hub' = hub /\ ~cast[e].disturbed
                   /\ cast'[e].members = cast[e].members /\ cast'[e].seen = cast[e].seen
                   /\ cast'[e].sent = cast[e].sent
<1> DEFINE late(e) == cast[e].disturbed \/ (task[e].at = "send" /\ clients # hub)
           new(e) == [cast[e] EXCEPT !.disturbed = late(e)]
<1>1. cast' = [e \in Events |-> new(e)] /\ hub' = clients
  BY DEF HubBecomes
<1>2. ASSUME NEW e \in Events
      PROVE  late(e) \in BOOLEAN /\ cast[e] \in Casts
  BY DEF EventsInv, EventShapes, Casts
<1>3. ASSUME NEW e \in Events
      PROVE  /\ new(e) \in Casts
             /\ new(e).members = cast[e].members /\ new(e).seen = cast[e].seen
             /\ new(e).sent = cast[e].sent
  <2> HIDE DEF late
  <2> QED BY <1>2 DEF Casts
<1>4. ASSUME NEW e \in Events
      PROVE  new(e).disturbed = late(e)
  <2> HIDE DEF late
  <2> QED BY <1>2 DEF Casts
<1>5. ASSUME NEW e \in Events, task[e].at # "send"
      PROVE  cast'[e] = cast[e]
  <2>1. late(e) = cast[e].disturbed
    BY <1>2, <1>5 DEF Casts
  <2> HIDE DEF late
  <2> QED
    BY <1>1, <1>2, <2>1, SameMark
<1>6. ASSUME NEW e \in Events, task[e].at = "send", ~cast'[e].disturbed
      PROVE  hub' = hub /\ ~cast[e].disturbed
  <2>1. ~late(e)
    BY <1>1, <1>4, <1>6
  <2> QED
    BY <1>1, <1>6, <2>1
<1>7. cast' \in [Events -> Casts]
  <2> HIDE DEF new
  <2> QED BY <1>1, <1>3
<1>8. \A e \in Events : /\ cast'[e].members = cast[e].members
                        /\ cast'[e].seen = cast[e].seen /\ cast'[e].sent = cast[e].sent
  <2> HIDE DEF new
  <2> QED BY <1>1, <1>3
<1> QED
  BY <1>5, <1>6, <1>7, <1>8

\* Browsers come and go.
LEMMA SocketStep ==
    ASSUME EventsInv, NEW s \in Sockets, ConnectSocket(s) \/ Break(s) \/ Leave(s)
    PROVE  EventsInv'
<1>1. CASE ConnectSocket(s) \/ Leave(s)
  <2>1. PICK clients \in {hub \cup {s}, hub \ {s}} :
          /\ HubBecomes(clients)
          /\ clients = hub \cup {s} => socket[s] = "out" /\ socket' = [socket EXCEPT ![s] = "on"]
          /\ clients # hub \cup {s} => socket' = [socket EXCEPT ![s] = "out"]
          /\ clients = hub => s \notin hub
    <3>1. CASE ConnectSocket(s)
      <4>1. s \notin hub
        BY <3>1 DEF ConnectSocket, EventsInv, CastInv
      <4> QED
        BY <3>1, <4>1 DEF ConnectSocket
    <3>2. CASE Leave(s)
      <4>1. s \notin hub \ {s} /\ s \in hub \cup {s}
        OBVIOUS
      <4> QED
        BY <3>2, <4>1 DEF Leave
    <3> QED
      BY <1>1, <3>1, <3>2
  <2>2. clients \in SUBSET Sockets /\ hub' = clients
    BY <2>1 DEF HubBecomes, EventsInv, EventShapes
  <2>3. EventShapes'
    BY <1>1, <2>1, <2>2, HubChanges DEF EventsInv, EventShapes, ConnectSocket, Leave
  <2>4. AlertInv'
    BY <1>1, AlertUntouched DEF ConnectSocket, Leave
  <2>5. \A r \in hub' : socket'[r] \in {"on", "broken"}
    BY <2>1, <2>2 DEF EventsInv, EventShapes, CastInv
  <2>6. \A e \in Events : task'[e].at # "send" => cast'[e] = NoCast
    BY <1>1, <2>1, <2>2, HubChanges DEF EventsInv, CastInv, ConnectSocket, Leave
  <2>7. ASSUME NEW e \in Events, task'[e].at = "send", ~cast'[e].disturbed
        PROVE  Faithful(e)'
    <3>1. task[e].at = "send"
      BY <1>1, <2>7 DEF ConnectSocket, Leave
    <3>2. /\ hub' = hub /\ ~cast[e].disturbed
          /\ cast'[e].members = cast[e].members /\ cast'[e].seen = cast[e].seen
          /\ cast'[e].sent = cast[e].sent
      BY <2>1, <2>2, <2>7, <3>1, HubChanges
    <3>3. s \notin hub /\ Faithful(e)
      BY <2>1, <2>2, <3>1, <3>2 DEF EventsInv, CastInv
    <3>4. \A r \in hub : socket'[r] = socket[r]
      BY <2>1, <3>3 DEF EventsInv, EventShapes
    <3> QED
      BY <3>2, <3>3, <3>4 DEF Faithful
  <2> QED
    BY <2>3, <2>4, <2>5, <2>6, <2>7 DEF EventsInv, CastInv
<1>2. CASE Break(s)
  <2>1. \A r \in Sockets : socket[r] = "broken" => socket'[r] = "broken"
    BY <1>2 DEF Break, EventsInv, EventShapes
  <2>2. /\ hub' = hub /\ cast' = cast /\ task' = task
        /\ socket' \in [Sockets -> {"out", "on", "broken"}]
        /\ \A r \in hub : socket'[r] \in {"on", "broken"}
    BY <1>2 DEF Break, EventsInv, EventShapes, CastInv
  <2>3. \A e \in Events : Faithful(e) => Faithful(e)'
    BY <2>1, <2>2 DEF Faithful, EventsInv, EventShapes
  <2>4. AlertInv'
    BY <1>2, AlertUntouched DEF Break
  <2> QED
    BY <2>2, <2>3, <2>4 DEF EventsInv, EventShapes, CastInv
<1> QED
  BY <1>1, <1>2

\* The other steps, and stuttering.
LEMMA RestStep ==
    ASSUME EventsInv, AcknowledgeAlert \/ CommandHangs \/ EventsRestart \/ UNCHANGED eventsVars
    PROVE  EventsInv'
<1>1. CASE AcknowledgeAlert
  <2>1. AlertInv'
    BY <1>1, EventsAssumption DEF AcknowledgeAlert, EventsInv, AlertInv, DbFree, NoTask
  <2>2. CastInv'
    BY <1>1, CastUntouched DEF AcknowledgeAlert
  <2> QED
    BY <1>1, <2>1, <2>2 DEF AcknowledgeAlert, EventsInv, EventShapes, hubVars
<1>2. CASE CommandHangs \/ UNCHANGED eventsVars
  BY <1>2 DEF CommandHangs, eventsVars, dbVars, hubVars, EventsInv, EventShapes, AlertInv, CastInv, Faithful
<1>3. CASE EventsRestart
  <2>1. EventShapes'
    BY <1>3 DEF EventsRestart, EventShapes, Casts, NoCast, Kinds, Working, Ended
  <2>2. AlertInv'
    BY <1>3, EventsAssumption DEF EventsRestart, EventsInv, AlertInv, NoTask
  <2>3. CastInv'
    BY <1>3 DEF EventsRestart, CastInv
  <2> QED
    BY <2>1, <2>2, <2>3 DEF EventsInv
<1> QED
  BY <1>1, <1>2, <1>3

\* Every step is one of those.
LEMMA EventsStep == EventsInv /\ [EventsNext]_eventsVars => EventsInv'
<1> SUFFICES ASSUME EventsInv, [EventsNext]_eventsVars PROVE EventsInv'
  OBVIOUS
<1>1. CASE \E e \in Events : Task(e) \/ \E k \in Kinds : Arrive(e, k)
  BY <1>1, StoreStep, AlertStep, BroadcastStep DEF Task
<1>2. CASE \E s \in Sockets : ConnectSocket(s) \/ Break(s) \/ Leave(s)
  BY <1>2, SocketStep
<1>3. CASE AcknowledgeAlert \/ CommandHangs \/ EventsRestart \/ UNCHANGED eventsVars
  BY <1>3, RestStep
<1> QED
  BY <1>1, <1>2, <1>3 DEF EventsNext

\* The lock covers the look at the alerts and the insertion, and a broadcast nobody
\* disturbed has the whole hub before it (create_alert, SocketHub.broadcast).
THEOREM EventsInvariant == EventsSpec => []EventsInv
<1> QED
  BY EventsStart, EventsStep, PTL DEF EventsSpec

\* One active alert of a device and rule when a task has dealt with a breach, for any
\* number of events at once (create_alert under Database.lock).
THEOREM OneAlert == EventsSpec => OneActive
<1>1. ASSUME EventsInv, EventsInv', [EventsNext]_eventsVars, NEW e \in Events,
             task[e].at \in {"check", "raise"}, task'[e].at = "broadcast"
      PROVE  active' = 1
  <2>1. ASSUME NEW d \in Events, Arrive(d, "plain") \/ Arrive(d, "capture") \/ Insert(d)
                                 \/ Trigger(d) \/ Save(d) \/ ReadRules(d) \/ CameraAlert(d)
        PROVE  FALSE
    BY <1>1, <2>1 DEF EventsInv, EventShapes, Arrive, Insert, Trigger, Save, ReadRules, CameraAlert,
                      Goto, Ended
  <2>2. ASSUME NEW d \in Events, CheckAlert(d)
        PROVE  active' = 1
    <3>1. d = e /\ active > 0
      BY <1>1, <2>2 DEF CheckAlert, Goto, EventsInv, EventShapes
    <3> QED
      BY <2>2, <3>1, <1>1 DEF CheckAlert, EventsInv, AlertInv
  <2>3. ASSUME NEW d \in Events, RaiseAlert(d)
        PROVE  active' = 1
    BY <1>1, <2>3 DEF RaiseAlert, EventsInv, AlertInv
  <2>4. ASSUME NEW d \in Events,
               Broadcast(d) \/ (\E s \in Sockets : Send(d, s)) \/ CutShort(d) \/ Finish(d)
        PROVE  FALSE
    BY <1>1, <2>4 DEF EventsInv, EventShapes, Broadcast, Send, CutShort, Finish, Goto
  <2>5. CASE \/ \E s \in Sockets : ConnectSocket(s) \/ Break(s) \/ Leave(s)
             \/ AcknowledgeAlert \/ CommandHangs \/ UNCHANGED eventsVars
    <3>1. task' = task
      BY <2>5 DEF ConnectSocket, Break, Leave, AcknowledgeAlert, CommandHangs, eventsVars
    <3>2. task[e].at \in {"check", "raise"} /\ task'[e].at = "broadcast"
      BY <1>1
    <3> QED
      BY <3>1, <3>2
  <2>6. CASE EventsRestart
    <3>1. task'[e].at = "none"
      BY <2>6 DEF EventsRestart
    <3>2. task'[e].at = "broadcast"
      BY <1>1
    <3> QED
      BY <3>1, <3>2
  <2> QED
    BY <1>1, <2>1, <2>2, <2>3, <2>4, <2>5, <2>6 DEF EventsNext, Task, Kinds
<1>2. EventsInv /\ EventsInv' /\ [EventsNext]_eventsVars
        => [\A e \in Events : task[e].at \in {"check", "raise"} /\ task'[e].at = "broadcast"
              => active' = 1]_eventsVars
  BY <1>1
<1> QED
  BY <1>2, EventsInvariant, PTL DEF EventsSpec, OneActive

\* A broadcast during which the hub was the same reaches every socket that works, for any
\* number of sockets and of broadcasts at once (SocketHub.broadcast).
THEOREM NobodyPassedOver == EventsSpec => Delivered
<1> DEFINE Reached(e) == \/ EventsRestart
                         \/ /\ task'[e].at = "none"
                            /\ \A s \in cast[e].members : socket[s] = "on" => s \in cast[e].sent
<1>1. ASSUME EventsInv, [EventsNext]_eventsVars, NEW e \in Events,
             task[e].at = "send", task'[e].at # "send", ~cast[e].disturbed
      PROVE  Reached(e)
  <2>1. Faithful(e)
    BY <1>1 DEF EventsInv, CastInv
  <2>2. Same(e)
    BY <2>1 DEF Faithful, Same
  <2>3. ASSUME NEW d \in Events,
               \/ Arrive(d, "plain") \/ Arrive(d, "capture") \/ Insert(d) \/ Trigger(d)
               \/ Save(d) \/ ReadRules(d) \/ CameraAlert(d)
        PROVE  FALSE
    BY <1>1, <2>3 DEF EventsInv, EventShapes, Arrive, Insert, Trigger, Save, ReadRules, CameraAlert,
                      Goto, Ended
  <2>4. ASSUME NEW d \in Events,
               CheckAlert(d) \/ RaiseAlert(d) \/ Broadcast(d) \/ \E s \in Sockets : Send(d, s)
        PROVE  FALSE
    BY <1>1, <2>4 DEF EventsInv, EventShapes, CheckAlert, RaiseAlert, Broadcast, Send, Goto
  <2>5. ASSUME NEW d \in Events, CutShort(d)
        PROVE  FALSE
    BY <1>1, <2>2, <2>5 DEF EventsInv, EventShapes, CutShort, Goto
  <2>6. ASSUME NEW d \in Events, Finish(d)
        PROVE  Reached(e)
    <3>1. d = e /\ task'[e].at = "none"
      BY <1>1, <2>6 DEF EventsInv, EventShapes, Finish, Goto
    <3>2. hub \subseteq cast[e].seen
      BY <2>1, <2>6, <3>1 DEF Finish, Faithful
    <3> QED
      BY <2>1, <3>1, <3>2 DEF Faithful
  <2>7. ASSUME \/ \E s \in Sockets : ConnectSocket(s) \/ Break(s) \/ Leave(s)
               \/ AcknowledgeAlert \/ CommandHangs \/ UNCHANGED eventsVars
        PROVE  FALSE
    <3>1. task' = task
      BY <2>7 DEF ConnectSocket, Break, Leave, AcknowledgeAlert, CommandHangs, eventsVars
    <3>2. task[e].at = "send" /\ task'[e].at # "send"
      BY <1>1
    <3> QED
      BY <3>1, <3>2
  <2> QED
    BY <1>1, <2>3, <2>4, <2>5, <2>6, <2>7 DEF EventsNext, Task, Kinds
<1>2. EventsInv /\ [EventsNext]_eventsVars
        => [\A e \in Events : task[e].at = "send" /\ task'[e].at # "send" /\ ~cast[e].disturbed
              => Reached(e)]_eventsVars
  BY <1>1
<1> QED
  BY <1>2, EventsInvariant, PTL DEF EventsSpec, Delivered

\* What EventsInv leaves open of the types.
Counters == dbLock \in Events \cup {NoTask} /\ stuck \in 0 .. MaxStuck

\* Types, with the database's lock held by the task between look and insertion, never more
\* than one active alert, and no more hanging commands than there can be.
THEOREM EventTypesKept == EventsSpec => []EventsTypeOK
<1>1. EventsInit => Counters
  BY EventsAssumption DEF EventsInit, Counters
<1>2. Counters /\ [EventsNext]_eventsVars => Counters'
  <2> SUFFICES ASSUME Counters, [EventsNext]_eventsVars PROVE Counters'
    OBVIOUS
  <2> USE DEF Counters
  <2>1. CASE UNCHANGED <<dbLock, stuck>>
    BY <2>1
  <2>2. ASSUME NEW e \in Events, CheckAlert(e) \/ RaiseAlert(e) PROVE Counters'
    BY <2>2 DEF CheckAlert, RaiseAlert
  <2>3. CASE CommandHangs
    BY <2>3, EventsAssumption DEF CommandHangs, dbVars
  <2>4. CASE EventsRestart
    BY <2>4, EventsAssumption DEF EventsRestart
  <2>5. \/ UNCHANGED <<dbLock, stuck>> \/ CommandHangs \/ EventsRestart
        \/ \E e \in Events : CheckAlert(e) \/ RaiseAlert(e)
    BY DEF EventsNext, Task, Arrive, Insert, Trigger, Save, ReadRules, CameraAlert, Broadcast, Send,
           CutShort, Finish, ConnectSocket, Break, Leave, AcknowledgeAlert, dbVars, eventsVars
  <2> QED
    BY <2>1, <2>2, <2>3, <2>4, <2>5
<1>3. EventsInv /\ Counters => EventsTypeOK
  BY DEF EventsInv, EventShapes, AlertInv, CastInv, Casts, Counters, EventsTypeOK
<1> QED
  BY <1>1, <1>2, <1>3, EventsInvariant, PTL DEF EventsSpec
=============================================================================
