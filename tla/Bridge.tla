-------------------------------- MODULE Bridge --------------------------------
(***************************************************************************)
(* The bridge as a process (src/main.py): what it starts and in which      *)
(* order, what ends it, and its shutdown, with the link to /ctrl/cmd of    *)
(* PubSubLink on its main thread, the network thread of the MQTT client    *)
(* and the threads of the injection port's connections.  The other host of *)
(* the link, the receiver, has none of this.                               *)
(*                                                                         *)
(* A signal runs shutdown on the main thread, wherever it is, also inside  *)
(* an earlier shutdown; sys.exit unwinds everything, and unwinding         *)
(* run_forever runs shutdown once more.  At the end the interpreter waits  *)
(* for threads that are not daemons: those of the injection port.          *)
(***************************************************************************)
EXTENDS PubSubLink

CONSTANTS Injectors,  \* connections that may be made to the injection port
          MaxSignals  \* bound of the model: signals

ASSUME BridgeAssumption == MaxSignals \in Nat

VARIABLES mode,      \* "full", "uplink" (--uplink-only) or "offline" (--no-mqtt)
          stage,     \* where main() is
          frames,    \* the shutdowns in progress, the innermost last
          inFinally, \* the one that run_forever's end calls has begun
          lockHeld,  \* the first signal found the client's lock taken by main itself
          signals,   \* counts up to MaxSignals
          net,       \* the network thread of the MQTT client
          callbacks, \* the MQTT handlers have their callback
          port,      \* the injection server
          inj        \* its connections

mainVars == <<mode, stage, frames, inFinally, lockHeld, signals>>
uplinkVars == <<net, callbacks, port, inj>>
allVars == <<vars, mainVars, uplinkVars>>

Startup == <<"mqtt", "services", "inject", "business", "link", "callbacks">>
Frame == [at : {"link", "inject", "join", "mqtt", "last"}, joins : SUBSET Injectors]
Shutdown == [at |-> "link", joins |-> {}]

\* main() with its shutdowns, and the threads beside it.
MainOK ==
    /\ mode \in {"full", "uplink", "offline"}
    /\ stage \in ToSet(Startup) \cup {"running", "failed", "exiting", "ended", "killed"}
    /\ frames \in Seq(Frame) /\ Len(frames) <= MaxSignals + 1
    /\ (frames # <<>> => stage \in {"running", "exiting"})
    /\ inFinally \in BOOLEAN /\ lockHeld \in BOOLEAN
    /\ signals \in 0 .. MaxSignals
ThreadsOK ==
    /\ net \in {"none", "idle", "busy", "leaving", "joined"} /\ callbacks \in BOOLEAN
    /\ port \in {"none", "open", "shut", "gone"}
    /\ inj \in [Injectors -> {"none", "open", "busy", "closed"}]
    /\ (port = "none" => \A i \in Injectors : inj[i] = "none")
BridgeTypeOK == TypeOK /\ MainOK /\ ThreadsOK

BridgeInit ==
    /\ Init
    /\ mode \in (IF host = "main" THEN {"full", "uplink", "offline"} ELSE {"full"})
    /\ stage = "mqtt" /\ frames = <<>> /\ inFinally = FALSE
    /\ lockHeld = FALSE /\ signals = 0
    /\ net = "none" /\ callbacks = FALSE
    /\ port = "none" /\ inj = [i \in Injectors |-> "none"]

Main == host = "main"
Go(to) == stage' = to /\ UNCHANGED <<mode, frames, inFinally, lockHeld, signals>>

-----------------------------------------------------------------------------
\* MQTTHandler.connect: the broker answers; it does not within five seconds, and the network
\* thread goes on trying; or the client raises before that thread is started.
ConnectOutcomes == {[ok |-> TRUE, net |-> "idle"], [ok |-> FALSE, net |-> "idle"],
                    [ok |-> FALSE, net |-> "none"]}

\* The brokers: without the default one the bridge gives up; one of a project may be away.
StartMqtt ==
    /\ Main /\ stage = "mqtt"
    /\ IF mode = "offline" THEN Go("services") /\ UNCHANGED net
       ELSE \E c \in ConnectOutcomes : Go(IF c.ok THEN "services" ELSE "failed") /\ net' = c.net
    /\ UNCHANGED <<vars, callbacks, port, inj>>

\* The handlers of the server, the scene engine, whose file may be unreadable, and the
\* server's thread, which says it listens before it does.
StartServices ==
    /\ Main /\ stage = "services"
    /\ Go("inject") \/ Go("failed")
    /\ UNCHANGED <<vars, uplinkVars>>

StartInject ==
    /\ Main /\ stage = "inject"
    /\ \/ Go(IF mode = "full" THEN "business" ELSE "callbacks") /\ port' = "open"
       \/ Go("failed") /\ UNCHANGED port
    /\ UNCHANGED <<vars, net, callbacks, inj>>

\* start_if_needed: the business server is there, is started, or the bridge gives up.
StartBusiness ==
    /\ Main /\ stage = "business"
    /\ \/ Go("link") /\ t' = "made"
       \/ Go("failed") /\ UNCHANGED t
    /\ UNCHANGED <<host, first, attempt, running, client, connVars, serverVars, stopVars,
                   handled, uplinkVars>>

\* connect has succeeded, or failed for the last time.
Linked ==
    /\ Main /\ stage = "link" /\ t \in {"enter", "ended", "raised"}
    /\ Go(IF t = "enter" THEN "callbacks" ELSE "failed")
    /\ UNCHANGED <<vars, uplinkVars>>

\* The callbacks, the signal handlers.
SetCallbacks ==
    /\ Main /\ stage = "callbacks"
    /\ Go("running") /\ callbacks' = TRUE
    /\ UNCHANGED <<vars, net, port, inj>>

Starting == StartMqtt \/ StartServices \/ StartInject \/ StartBusiness \/ Linked \/ SetCallbacks

\* The link's thread is the main thread, when it has come to it and no signal is handled.
LinkStep ==
    /\ Link
    /\ Main => /\ frames = <<>> /\ mode = "full"
               /\ stage = "running" \/ (stage = "link" /\ t # "enter")
    /\ UNCHANGED <<mainVars, uplinkVars>>

-----------------------------------------------------------------------------
\* Where main takes the client's lock itself.
InClient == IF frames = <<>> THEN t \in {"connect", "subscribe", "run"} /\ mode = "full"
                             ELSE Last(frames).at = "link"

\* A signal: before the handlers are set it kills the process.
Signal ==
    /\ Main /\ signals < MaxSignals /\ stage \notin {"ended", "killed"}
    /\ signals' = signals + 1
    /\ IF stage \in {"running", "exiting"}
       THEN /\ frames' = Append(frames, Shutdown)
            /\ \E h \in {FALSE} \cup (IF client.held /\ InClient THEN {TRUE} ELSE {}) :
                 lockHeld' = (lockHeld \/ h)
            /\ stopper' = IF stopper = "idle" THEN "closing" ELSE stopper
            /\ UNCHANGED stage
       ELSE stage' = "killed" /\ UNCHANGED <<frames, lockHeld, stopper>>
    /\ UNCHANGED <<host, linkVars, client, connVars, serverVars, found, handled, mode,
                   inFinally, uplinkVars>>

\* run_forever has returned or raised.
LinkEnds ==
    /\ Main /\ stage = "running" /\ t \in {"ended", "raised"} /\ frames = <<>> /\ ~inFinally
    /\ frames' = <<Shutdown>> /\ inFinally' = TRUE
    /\ UNCHANGED <<vars, mode, stage, lockHeld, signals, uplinkVars>>

Top == Last(frames)
Goto(f) == /\ frames' = Append(Front(frames), f)
           /\ UNCHANGED <<mode, stage, inFinally, lockHeld, signals>>
At(where) == Main /\ frames # <<>> /\ Top.at = where

\* shutdown: the watchdog, PubSubHandler.stop on its own thread, the business server, which
\* has no close, and the scenes.  Client.close needs the client's lock.
StopLink ==
    /\ At("link") /\ ~(lockHeld /\ client.held)
    /\ running' = FALSE
    /\ client' = NoClient /\ found' = (found \/ client.held) /\ stopper' = "closed"
    /\ IF client.held THEN Closed ELSE UNCHANGED connVars
    /\ Goto([at |-> "inject", joins |-> {}])
    /\ UNCHANGED <<host, t, first, attempt, serverVars, handled, uplinkVars>>

AwaitedAsDaemons == {}     \* a slip: the threads of the connections are daemons
\* The threads of the connections, which are not daemons.
Awaited == {i \in Injectors : inj[i] \in {"open", "busy"}}

\* TcpInjectServer.stop: no more connections; server_close waits for the threads, all but
\* those an earlier call waits for already.
StopInject ==
    LET others == UNION {frames[n].joins : n \in DOMAIN frames} IN
    /\ At("inject")
    /\ IF port \in {"open", "shut"}
       THEN port' = "shut" /\ Goto([at |-> "join", joins |-> Awaited \ others])
       ELSE UNCHANGED port /\ Goto([at |-> "mqtt", joins |-> {}])
    /\ UNCHANGED <<vars, net, callbacks, inj>>

Joined ==
    /\ At("join") /\ \A i \in Top.joins : inj[i] = "closed"
    /\ port' = "gone" /\ Goto([at |-> "mqtt", joins |-> {}])
    /\ UNCHANGED <<vars, net, callbacks, inj>>

\* MQTTHandler.disconnect: loop_stop asks the network thread to leave and waits for it.
StopMqtt ==
    /\ At("mqtt")
    /\ \/ net = "busy" /\ net' = "leaving" /\ UNCHANGED mainVars
       \/ /\ net \in {"none", "idle", "joined"}
          /\ net' = IF net = "idle" THEN "joined" ELSE net
          /\ Goto([at |-> "last", joins |-> {}])
    /\ UNCHANGED <<vars, callbacks, port, inj>>

LastReturns ==     \* a slip: no sys.exit
    /\ At("last")
    /\ frames' = Front(frames)
    /\ UNCHANGED <<vars, mode, stage, inFinally, lockHeld, signals, uplinkVars>>

\* sys.exit: everything is unwound, to run_forever's finally the first time, which shuts
\* down again.  Out of the interpreter's own waiting, it ends it.
LastStep ==
    /\ At("last")
    /\ IF stage = "exiting" THEN stage' = "ended" /\ frames' = <<>> /\ UNCHANGED inFinally
       ELSE IF inFinally THEN stage' = "exiting" /\ frames' = <<>> /\ UNCHANGED inFinally
       ELSE inFinally' = TRUE /\ frames' = <<Shutdown>> /\ UNCHANGED stage
    /\ UNCHANGED <<vars, mode, lockHeld, signals, uplinkVars>>

\* The interpreter has waited for the threads that are not daemons.  Python may give up one
\* it was waiting for when a second signal came.
Exit ==
    /\ Main /\ stage \in {"failed", "exiting"} /\ frames = <<>>
    /\ Awaited = {} \/ signals > 1
    /\ Go("ended")
    /\ UNCHANGED <<vars, uplinkVars>>

Ending == LinkEnds \/ StopLink \/ StopInject \/ Joined \/ StopMqtt \/ LastStep \/ Exit

-----------------------------------------------------------------------------
Alive == Main /\ stage \notin {"ended", "killed"}
Set(i, st) == inj' = [inj EXCEPT ![i] = st]

\* A connection to the injection port sends lines and goes; a line that makes the pipeline
\* raise ends it.
InjectOpens(i) == Alive /\ port = "open" /\ inj[i] = "none" /\ Set(i, "open")
InjectLine(i) == Alive /\ inj[i] = "open" /\ Set(i, "busy")
InjectDone(i) == Alive /\ inj[i] = "busy" /\ (Set(i, "open") \/ Set(i, "closed"))
InjectCloses(i) == Alive /\ inj[i] = "open" /\ Set(i, "closed")
Inject(i) ==
    /\ InjectOpens(i) \/ InjectLine(i) \/ InjectDone(i) \/ InjectCloses(i)
    /\ UNCHANGED <<vars, mainVars, net, callbacks, port>>

\* What comes before there is a callback is dropped.
NetMessage == Alive /\ net = "idle" /\ callbacks /\ net' = "busy"
NetDone == \/ Alive /\ net = "busy" /\ net' = "idle"
           \/ Alive /\ net = "leaving" /\ net' = "joined"
Network == (NetMessage \/ NetDone) /\ UNCHANGED <<vars, mainVars, callbacks, port, inj>>

\* The receiver's stop, and what happens around the process.
Around == (Stop \/ StopCloses \/ Environment) /\ UNCHANGED <<mainVars, uplinkVars>>

BridgeNext ==
    \/ Starting \/ LinkStep \/ Signal \/ Ending
    \/ (\E i \in Injectors : Inject(i)) \/ Network \/ Around

BridgeSpec == BridgeInit /\ [][BridgeNext]_allVars

\* The threads of the program go on; nothing is promised of the servers, and nobody need
\* send a signal or close a connection.
BridgeFairSpec ==
    /\ BridgeSpec
    /\ WF_allVars(Starting) /\ WF_allVars(LinkStep) /\ WF_allVars(Ending)
    /\ WF_allVars(StopCloses /\ UNCHANGED <<mainVars, uplinkVars>>)
    /\ WF_allVars(NetDone /\ UNCHANGED <<vars, mainVars, callbacks, port, inj>>)
    /\ \A i \in Injectors : WF_allVars(InjectDone(i) /\ UNCHANGED <<vars, mainVars, net, callbacks, port>>)

-----------------------------------------------------------------------------
\* An orderly end cuts no message short: when the process is gone, no thread was in the
\* middle of the pipeline, unless a second signal came (shutdown, TcpInjectServer.stop,
\* MQTTHandler.disconnect).
NothingCutShort ==
    stage = "ended" /\ signals <= 1
        => net \notin {"busy", "leaving"} /\ \A i \in Injectors : inj[i] # "busy"

\* A shutdown, or a start that failed, ends the process, if the clients of the injection
\* port go away: shutdown waits for each of them.  A signal that finds the main thread
\* holding the client's lock is the exception: the thread waits for itself.
ProcessEnds ==
    (\A i \in Injectors : <>[](inj[i] \in {"none", "closed"}))
        => ((frames # <<>> \/ stage \in {"failed", "exiting"})
              ~> (stage \in {"ended", "killed"} \/ lockHeld))
=============================================================================
