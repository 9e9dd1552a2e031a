# Verification of the MQTT-VSOA bridge

TLA+ modules for the bridge between MQTT devices and the VSOA bus, the VSOA SDK it is built on
and the IoT platform that uses it: models written from the Python source, TLC configurations
that check them on small instances, and TLAPS proofs of what matters most for every value of
the constants. `PROJECT.json` lists the components, the runs, the mutated definitions each
property was tried against, which source lines every definition models, the hazards and the
theorems. Paths below are relative to the root of the repository; the bridge itself lives in
`src/`, the SDK in `vsoa/`, the platform in `iot_test_platform/`.

## The system

Devices speak MQTT to one of up to three brokers (Wi-Fi, ZigBee, LoRa). The bridge turns
their reports into a registry and VSOA queries (uplink), and commands that arrive over VSOA
into MQTT messages (downlink). It is one process with many threads. The platform is a web
server that sends commands to the bridge, or to brokers directly, and records what devices report.

| Component | State | Operations | Threads | What is hard |
|---|---|---|---|---|
| Idempotence cache, `src/downlink/dedup.py` | identifier to time stamp, lock | `check_and_mark`, `clear` | VSOA server, Pub/Sub client | the clock is read before the lock; capacity |
| RPC handler, `src/downlink/rpc_server.py` | result cell and thread per attempt | validate, look up, deduplicate, publish with retry, reply | VSOA server's one thread, a thread per attempt | attempts outlive the join; what a reply means |
| Pub/Sub handler, `src/downlink/pubsub_handler.py` | VSOA client, reconnect delay | `on_message` and its ACK, `connect`, `run_forever`, `stop` | main thread | same command on both channels; a stop during a reconnection |
| Command schema, `src/downlink/command.py`, `error_codes.py` | none | `validate`, `build_mqtt_message`, `build_ack` | any | the first two disagree on what is acceptable |
| MQTT handler and router, `src/mqtt_handler.py` | connected flag, topics, publish lock, reconnect counter | `connect`, `subscribe`, `publish`, callbacks | main, paho, publishers | a connection between two halves of a subscription; a publish that hangs with the lock held |
| Registry, `src/device_registry.py` | device to information, capacity | `upsert`, `lookup`, `list_all` | uplink threads, handlers, queries | live objects read without the lock |
| Camera reassembler, `src/uplink/camera_reassembler.py` | images in progress, completions, active sequences | `ingest`, `expire` | MQTT, TCP, watchdog | repeats, reordering, wrapping numbers, a check made outside the lock |
| Scene engine, `src/scene_engine/` | rules, file, edge and hold memory, last triggers, timers | `on_uplink`, add, update, remove, enable, reload, `stop` | uplink threads, VSOA server, timers | memory that outlives the rule, timers that outlive the activation |
| Uplink pipeline, `src/main.py`, `src/uplink/` | none of its own | adapters, reassembler, registry, scene engine, publication, queries | MQTT and TCP threads, VSOA server | two threads with reports of one device |
| TCP injection, `src/uplink/tcp_inject.py` | connections | one thread per connection | its own | shutdown joins threads that read |
| Bridge lifecycle, `src/main.py` | what has been started | start-up, signals, shutdown | main | shutdown inside shutdown, joins at the end |
| VSOA SDK client, `vsoa/client.py` | pending requests, numbers, connection, unpacker | `fetch`, `call`, `robot`, `close` | callers, robot, timer | a request made in two locked sections; time-out against late answer |
| VSOA SDK server, `vsoa/server.py` | clients, subscriptions, lock | `run`, `publish`, replies, handshake timer | event loop, timer, work queue, publishers | one lock held while packets are written |
| Platform, commands, `iot_test_platform/backend/app.py` | rows in SQLite, the link | create, send, acknowledge; connect, reconnect | event loop, workers, reconnecting thread | a row that closes before its answer; threads that outlive their stop |
| Platform, events, the same file | rows, alerts, web sockets | `record_event`, `broadcast` | event loop, workers | awaits between a look and its use |
| Tools, receiver, frontend | windows, forwarding queue | diagnostics | | |

How they interact. The two downlink handlers share the registry, the idempotence cache and the
MQTT publishers. Every uplink thread calls adapters, reassembler, registry and scene engine in
turn; the scene engine publishes through the same MQTT publishers, but neither through the cache
nor with retries. Everything the bridge says over VSOA goes through the SDK server's one lock.
The platform's commands reach the bridge through an SDK client, which its own threads keep
connected. `src/main.py` wires the bridge, and starts and stops its threads.

What makes each correct:

- cache: a command is executed once per window and refused only for a reason;
- downlink: one execution over both channels, nothing published for a refused command, an
  answer that agrees with what was published, an answer to every command that can be handled;
- reassembler: no mixing of images, no chunk lost without a reason, one delivery per image, no
  image kept for ever;
- scenes: the rules in use are those of the file, cooldown and edge hold whatever happens to the
  rule, what was started is stopped, and a stopped engine comes to rest;
- uplink: every report counts once, the last state of a device is the one published and evaluated
  last, a connected handler is subscribed;
- SDK: a request ends once and with its own answer, a publication reaches every subscriber, a
  silent peer is given up;
- links: a lost connection is made again, a stopped one stays silent, and a shutdown ends;
- platform: a command recorded as failed was refused, every command is decided, an event raises one
  alert and reaches every browser.

`PROJECT.json` names the lines where each hazard bites and the properties aimed at it.

## Modules

A step of a model is a stretch of code that no other thread can interrupt in a way that
matters: the body of a lock, one side of it, or what lies between two reads of shared state.
Names follow the source. Comments name the function an action stands for, and `map` in
`PROJECT.json` the lines. A definition marked "a slip" is not part of a specification: it is
what a definition next to it would be after a plausible mistake, and every property of the runs
was seen to fail with one of them. A variable marked "history" has no counterpart in the code. Type
invariants of modules with many variables are conjunctions of named parts (`WireOK`, `TablesOK`,
`ConnOK`, ...). The definitions of DedupCache and PlatformEvents that would clash in a proof module
carry the module's name (`CacheSpec`, `EventsSpec`, ...).

**DedupCache** (`dedup.py`). `marks` is `_cache`, `call` where each thread is. A call is split
where the code can be interrupted: `Call` reads the clock before the lock, `Admit` and `Refuse`
are the body under it (expiry, eviction of the oldest at capacity, the mark), `Return` the
answer. The history `promise` holds until when an identifier must not be admitted again: a mark
is made with the reading of its call, which may be older than the clock.

**CommandMessage** (`command.py`, the router of `mqtt_handler.py`). No state: `Valid`,
`Builds`, the topic and the broker of a command, over bodies that differ in what these functions
look at. A null `timeout_ms` is valid on RPC, and Pub/Sub does not look at the field; an
identifier is valid unless it is missing.

**Downlink** (EXTENDS CommandMessage; both handlers, and the publishing half of
`mqtt_handler.py`). `stage` is where a request is (`lookup`, `dedup`, `build`, `join`,
`backoff` and their ends), `attempt` the publish attempts, each of an RPC request on a thread
of its own that goes on when the handler has given it up; `Acquire` and `Publish` are its two
steps, around the broker's lock. RPC requests are handled one at a time on the server's thread,
Pub/Sub messages one at a time on the client's. `Raise` is a handler that raises and takes its
thread with it (`LookupRaises` and `MarkRaises` for an identifier that is a list or an object,
`Unhashable`, and `JoinRaises` for a null timeout). The cache is the set `seen`; `Forget` stands for
expiry and eviction, whose time DedupCache models. Brokers come and go.

**CameraReassembler** (`camera_reassembler.py`). `images`, `completed` and `active` are the
fields of the same names, for one device. `Refuse`, `Store` and `Assemble` are the first locked
section of `ingest`, `Discard` and `Deliver` the check of the image without the lock followed by
the second, `Expire` is the watchdog's, `Tick` time. Stamps are kept as ages, so that the state
space is finite. The CRCs are abstracted to what they accept; a chunk may be damaged and pass its
CRC16, and then the CRC32 of the image rejects it.

**SceneEngine** (`scene_engine/engine.py`, `models.py`, the management endpoints). `rules` and
`disk` are memory and file, `edge`, `since` and `last` the memories kept by scene identifier,
`timers` the stop timers. `Enter` is the look at `running` before the lock, `Uplink` the
evaluation of all rules under it, with actions that go out, go nowhere, or raise half way, and
schedules that raise; `Add`, `SetEnabled`, `Remove`, `Stop` the management calls, each with a save
that may fail, `UpdateRead` and `UpdateSet` the halves of `update_rule`, `ReloadRead` and
`ReloadSet` those of `reload`; `Wake` and `StopActions` a timer before and under the lock. A
trigger stamps its rule: of the stamp the model keeps, in each copy of the rule (memory, file,
reload or update under way), whether it is `behind`. `owed` and `hindered` say which devices a
timed activation has started and what has come in the way of stopping them, `fell` and `quiet` are
the histories of edges and starts.

**Adapters** (`src/uplink/adapters`, no state): which adapter takes a message, and the
identifier, type and measurements it makes of it, over the fields the adapters look at.

**MqttHandler** (the receiving half of `mqtt_handler.py`, set up by `main.py`). Main connects,
waits, stores the topics and subscribes if it looks connected; the network thread sets the flag
and then walks the topics. No lock orders the two.

**Uplink** (EXTENDS Adapters, MqttHandler; `_process_uplink`, `device_registry.py`, the list
query). `pc` takes a thread through adapter, `Upsert`, `Merge`, `ToJson`, `Publish`,
`SceneEnter`, `SceneReads`, `SceneLeave`. The registry's lock covers the merge alone; what is
published refers to the live readings and is read when the packet is made, the scene engine reads
the live record under its own lock, and a query reads records with no lock at all. A value is the
number of the report it came from, which tells a state that is out of date. A publication may fail
without anybody noticing (`unsent`), and a rule that raises cuts the evaluation of a report short
(`cut`).

**PubSubLink** (`pubsub_handler.py`, the loops around it in `main.py` and `mqtt_receiver.py`,
`Client.run` and `Unpacker` of the SDK). The link thread connects, subscribes, runs the event
loop, backs off and connects again with the same client, whose unpacker keeps the half of a
packet it has (`rbuf`). A packet is two chunks, so that a connection can end inside one. Another
thread may stop the link anywhere. The variable `host` says which of the two programs runs it:
they differ in what happens when the retries are used up.

**Bridge** (EXTENDS PubSubLink; `main.py`, `TcpInjectServer.stop`). Start-up in the order of
`main` with its early exits, then the link on the main thread. A `Signal` pushes a shutdown frame
on top of whatever main does, another one on top of that; unwinding `run_forever` runs shutdown
once more. `Joined` waits for the injection threads. `lockHeld` records a signal that found main
inside the client's lock, which the shutdown then waits for.

**RemoteCall** and **VsoaClient** (`vsoa/client.py`). RemoteCall is the abstract specification
of what a client promises: a request that was asked ends once, answered or missed, and a fetch
returns only then. VsoaClient is the SDK's client: `Prepare` takes a number under the lock,
`Send` looks at `connected`, makes the request pending under the lock again and writes it; `Tick`
is the timer thread, which wakes fetches but leaves removal to the loop; `LoopRecv`, `LoopIdle`,
`LoopSweep`, `LoopEof`, `LoopDown` the robot's event loop with its pings; `Disconnect`, `Close`
the two ways to end it; the peer answers late, hangs or ends. VsoaClient has the refinement
mapping: `outcome` is what the callback of a request was given (its own reply, none, or
something that is neither, which no step of RemoteCall allows), `returned` the fetches that came back:
`Promise == INSTANCE RemoteCall WITH outcome <- Outcome, returned <- Returned`.

**VsoaServer** (`vsoa/server.py`). The event loop, the worker of queued commands, the handshake
timer and the publishers share `priocli` and one lock, held while a packet is written to a
connection that takes only `Room` packets its client has not read. `Select` and `Take` are the
walk through the clients by index while they leave; a command is handled on the event loop (`rpc`,
the only kind the bridge registers), where it may raise and end the loop, or goes to the work
queue (`call`). `due` holds the clients that a publication has yet to reach, `Unlist` their
removal, `HsTimer` the ageing of handshakes, `Found`, `NotFound`, `WriteMessage` a publication on
its way through the list, `VisitRaises` the one that finds a set of topics changed under it and is
given up (`cut`).

**PlatformCommand** (`create_device_command`, `acknowledge_command`, `VsoaService`,
`MqttService` in `app.py`). `row` is the status in the database, `handler` where the endpoint is,
`fetchLock` the lock around the one fetch, which the health probe takes as well (`probe`). `bridge`
is the history of what was done with a command: an error of the bridge may mean that it refused
the command, or that it is `unsure`, an attempt or paho being still at it, and then the command may
be carried out `late`. Every connect is a generation with its stop event and
its `keeper`, the thread that runs the client and connects again; `wire` is a connection, whose number
is used again when nobody has it any more, so that links are lost and made again without bound.
Commands of directly driven devices go through `Pick` and `Publish` to the paho client, which
keeps what it could not send. `Restart` loses everything but the rows. What the platform assumes
of a client (a fetch ends with an answer, without one, or, when closed under it, never) is what
VsoaClient shows.

**PlatformEvents** (`record_event`, `create_alert`, `SocketHub.broadcast`, `Database`). Tasks
interleave at their awaits: a call on a worker thread (`Insert`, `Save`, `ReadRules`,
`CheckAlert`, `RaiseAlert`, the last two under the database's lock) or a `Send` to a socket. The
hub is a set; going through it after it changed raises (`CutShort`). `CommandHangs` is what
PlatformCommand's hung fetch means here: a worker thread less.

## Runs

| Run | Instance | What the bounds let happen | Distinct states |
|---|---|---|---|
| `dedup_cache` | 3 callers, 3 identifiers, 2 places, window 1, clock to 4; callers and identifiers symmetric | a call overtaken by a whole window, eviction inside a window, two calls for one identifier | 523,971 |
| `downlink` | an RPC and a Pub/Sub request, 3 identifiers of which 1 is a list, a board and a device that is a list, 2 brokers, 4 bodies, 1 retry, 1 forgetting | the same command on both channels, before and after it is forgotten; late attempts; a body that cannot be built; the three commands that raise; a client that hangs with the lock held | 385,736 |
| `camera` | 2 threads, images of 2 and 1 chunks, 3 sequence numbers, 2 cached | numbers wrap and are reused; completion races repeats; the third sequence pushes one out | 175,654 |
| `scene` | 2 scenes, one with three definitions (timed edge, either of two conditions with a stop that raises, a schedule that raises), one that cannot be built; 1 place, 2 timers, 1 uplink thread | update while a timer runs, a trigger between the halves of an update or a reload, a second activation before the first stops, a save that fails, a full engine | 147,372 |
| `uplink` | 1 handler, 1 injection thread, 4 messages of 2 devices by 3 adapters, 1 place, 2 reports, any number of queries, 1 loss | two threads with one device, a refused device, a query in the middle, a publication that fails, an evaluation cut short | 166,265 |
| `bridge` | both hosts, 2 retries, 1 command, 2 losses, 1 injection thread, 2 signals | retries used up, half a packet lost, a command that raises, shutdown inside shutdown, an exit at every stage | 201,773 |
| `vsoa_client` | 1 fetching thread, 1 call, 3 numbers, patience and keep-alive 1 | numbers about to wrap, time-out against late answer, close between the two sections | 48,687 |
| `vsoa_server` | 2 clients with scripts, 2 publishers, room and patience 1 | a publication blocked by a slow client, clients that leave in front of it, a subscription that changes under it, a handler that raises, a queued answer behind it | 199,139 |
| `platform_command` | 1 command, behind the bridge or direct, 1 probe at a time, 2 generations, 4 connections used again, 1 restart | a connect that overtakes a running thread, links lost and made again any number of times, a command behind a hung probe, a late publication, a restart under a command | 193,964 |
| `platform_events` | 2 events, 2 sockets, 2 workers | two breaches at once, sockets that come, go and break in a broadcast, no worker left | 189,720 |

`MaxClient` is enough for there to be always a connection left to try (its assumption says
why), so it bounds nothing. In SceneEngine no save fails while one is lost already.

Two callers in different channels, or a thread and the one that overtakes it, are enough for the
races: the locks and tables treat requests alike, and the proofs below do away with the bounds
where they exist. The bounds that only keep the state space finite are constants named `Max...`
with a comment. `NotLapped` in VsoaClient is an assumption, not a bound: the 65,536 numbers do
not go round while one caller is between its two locked sections, or while an old request can
still be answered. VsoaClient was checked once beyond its run with two fetches and four numbers
(1,215,628 states).

Deadlock is checked except in `bridge`, the two platform modules, `vsoa_client` and
`vsoa_server`, where the process, the requests or the clients come to an end.

### What the properties say

- `dedup_cache`: `NoRepeatInWindow`, nothing is admitted twice within a window unless it was
  evicted; `RefusedInWindow`, nothing is refused outside one.
- `downlink`: `OneExecution`, once per window over both channels and only what was not refused;
  `TrueAnswers`, success means exactly one attempt that ended in time, failure none, a duplicate
  has an original; `Answered`, every RPC request even if paho hangs, every Pub/Sub message if it
  does not. Three kinds of commands pass validation and raise in the handler: a `device_id` or a
  `command_id` that is a list or an object, and a null `timeout_ms` on RPC. They end the channel, on
  Pub/Sub the bridge, and whoever is lost with it is excepted; nobody else is.
- `camera`: `NoMixing`, `DeliveredOnce` (unless two threads overlapped on one sequence),
  `CacheDiscipline`, an image leaves the cache only when completed, timed out or pushed out, and
  repeats do not renew it.
- `scene`: `RulesOnDisk`, what the rules in use say is what the file says until a save fails,
  whatever triggers, updates and reloads overtake each other (the stamp of the last trigger may
  differ); `StartsOnce`, cooldown and edge memory survive whatever happens to the rule (the run has
  one device, its proof any number); `TimersEnd`, every device that a timed activation started is
  sent a stop, unless the engine is stopped or the timer's callback is hindered (rule removed,
  actions that name the device no more, device out of reach, an action that raises), and a stopped
  engine comes to rest.
- `uplink`: `HandlersHear`, a connected handler that has been set up is subscribed;
  `RegistryExact`, no report is lost between threads; `LastOneCurrent`, what subscribers and the
  scene engine saw last is the state of the device, unless that publication failed or a rule cut
  that evaluation short.
- `bridge`: `NothingCutShort`, one signal lets reports finish; `StopSilences`, a stop that found
  a client leaves no subscription that handles commands; `Reconnects`, but for half a packet left by a lost
  connection and for a command that raises; `ProcessEnds`, if the injection clients leave.
- `vsoa_client`: `ImplementsRemoteCall`, the refinement; `RequestsEnd`; `SilentPeerDropped`.
- `vsoa_server`: `PublishedToAll`, nobody is passed over unless the publication raises on topics
  that change under it, and all see one order; `HandshakeOrGone`, but for a dead event loop;
  `LockReleased`, if clients read.
- `platform_command`: `FailedWasRefused`, what is recorded as failed was refused by the platform,
  the bridge or paho, and was never reported done or left without an answer. Sending it again can
  still do it twice: the bridge answers with an error while an attempt it gave up may yet publish,
  and paho keeps what it could not send. `CommandDecided`, but for a hung fetch, of a command or of a
  probe, a restart, and connections changed under a publish; `LinkComesBack`.
- `platform_events`: `OneActive`, `Delivered`, `Recorded`.

Where a property excepts a case, the case is something the code does, described below, and the
run shows that nothing else breaks the property.

## Fairness

| Module | Weak fairness of | Why the code justifies it |
|---|---|---|
| Downlink | each `Handle(r)` while the main thread lives; `PubSubAnswered` adds, in its own statement, that paho returns and the lock is handed on | one thread handles requests in order; joins and back-offs are timed |
| SceneEngine | `Tick`, and per scene `Wake`, `StopActions` | time passes, timers fire, and the engine's lock is held for short bodies |
| VsoaClient | `Send` and the return of a fetch, `Tick`, each kind of step of the loop | threads run; the loop's wait is timed and the timer periodic. Nothing of the peer |
| VsoaServer | event loop, worker, timer, publishers, and each client's reading | the last is assumed of clients: the send time-out of the SDK has no effect |
| Bridge | start-up, link, shutdown, the end of a report | straight-line code and timed waits. Not of injection clients: `ProcessEnds` names them as a condition |
| PlatformCommand | the end of a connect and of a probe, each keeper, each command's handler; strong fairness of each command's `Lock` | threads run, connects and fetches have a time-out, and who waits for `_fetch_lock` has it some time if it is released again and again. Nothing of the bridge's answers |

PlatformEvents uses strong fairness of each task: worker threads take calls from a queue in
order, and asyncio goes round its ready tasks, so a task that can go on again and again does,
although others take the database's lock in between. DedupCache, CameraReassembler and Uplink
have safety properties only.

## Where code and documentation disagree

Two runs state what the documentation says and are expected to fail:

- `success_means_published`: a Pub/Sub command whose message cannot be built is acknowledged
  with success and nothing is published (`src/downlink/pubsub_handler.py:169`, against
  `doc/spec.md:274`). RPC answers `ERR_INTERNAL` in the same case.
- `ack_means_answer`: an empty reply of the bridge counts as an acknowledgement
  (`iot_test_platform/backend/app.py:573`, against
  `iot_test_platform/docs/device_integration_contract.md:89`).

What else was met while modelling. Where it would refute a property, the property excepts it by
name:

- A command whose `device_id` or `command_id` is a list or an object, or whose `timeout_ms` is null
  (on RPC, after the attempt was started), passes validation and raises out of the handler. On RPC
  this ends the server's loop, so no RPC is answered any more; on Pub/Sub the link and the bridge.
- The bridge answers that a publication failed or took too long while an attempt may still publish.
- Success is reported when paho has queued a message, before any broker has it.
- Two threads can deliver the same camera image.
- Each activation of a scene has a stop timer of its own, so the timer of an earlier one can end
  a later one early. It stops what the rule says then: an update that moves the action to another
  device leaves the first one on, and so does a device out of reach, or an action that raises.
- A rule that raises in an evaluation (an action that cannot be built, a schedule that is a date
  without a time zone) leaves the rules behind it unevaluated and the triggers before it unsaved; an
  update or a reload that a trigger overtakes takes the stamp of that trigger back.
- A broker of a project that is not available at start is never subscribed to later.
- The unpacker keeps half a packet over a reconnection and then understands nothing; the handler
  catches `vsoa.Error`, which does not exist, so an error in its place ends the loop.
- A stop during a back-off, or between creation of the client and its connection, leaves a
  subscription; the receiver's runner can do the same.
- Shutdown joins injection threads that sit in blocking reads; a second signal makes Python give
  the join up; a signal inside the client's lock makes main wait for itself.
- A fetch on a client closed between its two locked sections waits for ever; on the platform it
  keeps the fetch lock and a worker thread.
- A peer reset before its name is asked for ends the SDK server's loop, and so does a handler that
  raises. When a client's topics change while a publication goes through them, the publication raises
  and passes over every subscriber behind that client; `main.py:191` swallows the error.
- The platform's reconnecting thread can put a client back after a disconnect; a first connect
  that fails leaves no thread to try again; connections changed under a publish leave a row
  pending, as do direct commands and restarts; paho later sends what was recorded as failed.
- A browser that comes or goes during a broadcast can end it.

## Proofs

The theorems hold for every value of the constants that satisfies the modules' named
assumptions. They are about `Spec`, without fairness. Every one rests on an inductive invariant
that is stronger than what it states; one step per action shows that it is preserved.

**DownlinkProofs, the cache.** `CacheTypeCorrect` (the capacity is part of it), and `PromiseKept`
for the two guarantees: an open promise is backed by an entry of the cache whose stamp gives it,
and a promise without an entry has run out. The guarantees alone are not inductive, since they
speak of a mark that another thread makes from an older reading of the clock.
`CacheForgetsThenMarks` joins the cache to the handlers: a step of DedupCache changes the
identifiers it holds as Downlink's `Forget`, `Admit` and `Refuse` change `seen`, so that what is
proved of the abstract set is true of the cache.

**DownlinkProofs, the handlers.** Four invariants on top of the types. `Window`: a request
admitted in this epoch finds its identifier in the cache, hence `OncePerWindow`. The story of a
request: which attempts it may have in which stage, and that the handler's answer is what the
current attempt ended with, hence `OnlyAdmittedPublish` and `AnswerMatchesAttempts`. The origin of
what is in the cache, hence a duplicate has an original. `ExecutedOnce` and `AnswersTrue` put them
together, for any number of requests, retries, devices and brokers.

**CameraReassemblerProofs.** `ImagesInv` and `WorkerInv`: what is cached, and what a thread has
taken out, was cut from one image, which is `NeverMixed`. `DeliveryInv`: a delivery is
remembered as long as it counts, and a thread that checks a sequence another has completed or is
checking took its chunks meanwhile, which is `OneDelivery`. `WindowInv` for `TypesKept` and
`Discipline`: the list of active sequences is within its capacity and without repetition, what is
cached belongs to one of them and is incomplete. What admission and expiry do to the list
(`ActivateShape`, `RemainingShape`) is what the guarantee needs: the newest stays the newest
unless a newer one comes or it is given up itself. `Remaining` is a recursive function; that it
exists, and what it leaves, is shown with the least prefix for which it would be wrong.

**SceneEngineProofs.** `DiskInv`: until a save fails the file holds the rules and so does what a
reload has read, because management and reload share one thread, and because what a trigger
changes in a rule, in memory and in every copy that it overtakes, is a stamp and not what the rule
says (`Definitions`): of two copies either may be `behind`. `CooldownInv`: one rule per
scene in every list, and the stamp of the last trigger is no older than the last start, from
which `OncePerCooldown` follows. `EdgeInv`: the memory of an edge is down only where a report that
did not meet the condition was evaluated since that edge started the scene. It holds through
evaluation by lists of conditions, on one sensor or several, again by the least prefix
(`MemoShape`); with the cooldown it gives `StartsAreNew`. `TypesKept` adds the bounds on rules and
timers.

**VsoaClientProofs.** The refinement `RemoteCallImplemented`, for any number of threads, calls
and numbers, with `TypesKept`. `ClientInv` has four parts: a number means one request among
those pending, prepared and under way (`Numbering`); a request is pending once, and has its
callback only while it was not called (`Once`); it is called at most once, with its own reply or
none (`Story`); the fetches of a thread follow each other, and its event is set only when the
callback of the current one was called (`Events`). That a free number exists is the pigeonhole
principle, that one is the first is well-foundedness of the naturals. Time-out, answer, sweep,
loss and close all reduce to one relation, `Tells(S, r)`: the waiting requests of S are told r.
It preserves the invariant once and maps to `Answer`, `Miss` or a stuttering step.

**VsoaServerProofs.** `InOrderToAll`, that is `PublishedToAll` for any number of clients and
publishers and any room, with the publication that raises as its exception (`cut`). The guarantee
alone is not inductive: the invariant `ServerInv` says where the lock and the threads are in the
middle of a publication. `Underway` and `Holders`: only who has the lock is at a client of the
list, so the list does not move under it, and a removal by the event loop comes before a
publication or after it. `StillDue`: whom the publication has yet to reach is subscribed and
further on, because the list is without repetition. `Numbered`, `Fresh` and `Newest` are why the
messages have one order: nobody further on has the message yet, and for whoever has it, it is the
last. `TypesKept` says that no client is listed twice and that the timer watches listed clients
only, although three kinds of threads change the list. It needs the scripts to end with their end,
and the names of the threads to be different: the assumption of the module says so, and without it
the types are not an invariant.

**BridgeProofs.** `OrderlyEnd` and `StopIsSilent`, that is `NothingCutShort` and `StopSilences`,
for any number of retries, losses, commands, connections of the injection port and signals.
`BridgeInv` has two parts. `Silent`: a client that a stop has found is not held any more by a
handler, and the program never runs the link again, which is by the shutdown for the bridge and
by the stop flag for the receiver. `Process` is the shutdown: `Depth` (no more frames than signals and
one, and only a frame that joins has threads to join), `NetLeft` (a shutdown past the MQTT
handlers has waited for the network thread), `PortOpen` and `FirstShutdown` (while no signal came
the one shutdown leaves the injection port open, closes it, and then waits for every connection),
`Exiting` (behind it nothing is left to wait for). `NothingCutShort` alone looks at the end of the
process and is not inductive.

**PlatformProofs, the commands.** `Story`: nothing was asked for a command before it was sent, a
result other than an empty one tells what the bridge did, and a row fails only when its handler
is through; hence `OnlyRefusedFails`. `TypeCorrect` adds who holds the fetch lock, a command or the
probe (`Locked`), and what paho keeps (`Queued`).

**PlatformProofs, the events.** `AlertInv`: the database's lock belongs to the task between look and
insertion, which has seen no active alert; hence `OneAlert`. `CastInv`: an undisturbed broadcast
has gone through a part of the hub as it was and passed over broken sockets only; hence
`NobodyPassedOver`. Together they give `EventTypesKept`.

**UplinkProofs.** `HandlersInv`: a handler with topics and a connection is subscribed, or its
callback is still to run, or main is about to look; hence `ConnectedHears`. `RegistryInv` says
who is where: a lock belongs to the thread inside, a thread that got through `upsert` finds its
device and one about to insert finds room, so that every merge counts; hence `TypesKept` and
`RegistryKept`. `LastInv` is about threads that overtake each other: what was published last, or
evaluated last, is the device's current state, or a thread that has merged is still to publish,
or to evaluate, and the same of what an evaluation under way has read, each but for the device
whose last publication failed (`unsent`) or whose last evaluation was cut short (`cut`); hence
`LastWord`.

## Only model-checked

- Everything that must eventually happen, and so all of `Answered`, `TimersEnd`, `RequestsEnd`,
  `SilentPeerDropped`, `Reconnects`, `ProcessEnds`, `HandshakeOrGone`, `LockReleased`,
  `CommandDecided`, `LinkComesBack` and `Recorded`: the prover does not reason about `ENABLED`
  and fairness.
- What the functions of Adapters and CommandMessage compute: the proofs use it.

Every other property of a passing run, that is every invariant and every action property, is
stated by a theorem.

## Not modelled

- *SDK*: names and positions, TLS, streams, datagrams and the quick channel, passwords,
  priorities of sockets. The bridge and the platform use none of them. The patch the bridge
  applies to the SDK's `Client._pinput` is covered by its effect, the packets that are handled.
- *Bridge*: configuration (read once, in sequence; its bounds are the constants), the layout of
  topics and payloads, logging, values of sensors, the seed file of the registry (never
  passed), fields of rules that decide nothing, scene events, edits of `scenes.yaml` by hand, the
  business server's echo.
- *Platform*: metrics, retention, statistics, queries, forms and accounts: single
  statements on the database. The update at `/ctrl/ack` (`app.py:1423`): the identifier in an
  ACK is one the bridge generated, and no row has it, so it changes nothing.
- *MQTT receiver*: its window, and `VsoaForwarder`, a bounded queue in front of a socket.
- *Stand-alone entry points* (`src/uplink/main.py`, `src/downlink/main.py`): the first uses a
  class that is defined nowhere, the second an older configuration; neither starts.
- *Frontend, monitor, diagnostic scripts*: they watch the system, and nothing depends on them.

## Order of the work, and what is left

The modules were written in the order in which a fault would hurt most: cache and downlink
first, then the reassembler and the scene engine, lifecycle and link, the uplink pipeline, the
SDK below all of them, and the platform above. Proofs followed the checked modules, those whose
guarantees do not depend on fairness first. What would be next: an abstract specification of the
whole downlink (accepted, executed, answered) with Downlink, DedupCache and VsoaClient below it;
the forwarder of the receiver.
