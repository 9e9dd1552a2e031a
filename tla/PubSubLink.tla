----------------------------- MODULE PubSubLink -----------------------------
(***************************************************************************)
(* How the subscription to /ctrl/cmd is kept up (downlink/pubsub_handler.py*)
(* with the loops around it in src/main.py and mqtt_receiver.py), over the *)
(* SDK's client and the byte stream of a business server that goes down,   *)
(* comes back and loses connections, possibly in the middle of a packet.   *)
(*                                                                         *)
(* The link thread connects, subscribes, runs the client's event loop and, *)
(* when that returns, backs off and connects again WITH THE SAME client,   *)
(* whose Unpacker keeps the bytes it has.  In the receiver another thread  *)
(* may stop the link at any point; in the bridge the link thread is the    *)
(* main thread and its end is the end of the program, which Bridge models. *)
(*                                                                         *)
(* A packet is two chunks: the first half and the second.  What a received *)
(* command does is the subject of Downlink; that its handling may raise,   *)
(* which ends the link thread, is the part of it that matters here.        *)
(***************************************************************************)
EXTENDS Naturals, Sequences, SequencesExt

CONSTANTS MaxRetries,  \* vsoa.reconnect.max_retries
          MaxPublish,  \* bound of the model: commands published
          MaxLoss      \* bound of the model: connections lost and servers gone down

ASSUME PubSubLinkAssumption ==
    /\ MaxRetries \in Nat \ {0}
    /\ {MaxPublish, MaxLoss} \subseteq Nat

VARIABLES host,      \* "main": the bridge; "receiver": VsoaCommandClientRunner
          t,         \* where the link thread is
          first,     \* it is in connect() and not in _reconnect_with_backoff()
          attempt,   \* attempts that failed in a row
          running,   \* PubSubHandler._running
          client,    \* the handler's client: [held, hears, quits]
          rbuf,      \* the bytes in its Unpacker
          conn,      \* its connection
          subs,      \* the server has its subscription
          pipe,      \* chunks on their way to it
          server,    \* "up" or "down"
          published, \* commands published so far, numbered from 1
          losses,    \* counts up to MaxLoss
          stopper,   \* where the thread that stops the link is
          found,     \* history: the stop found a client to close
          handled    \* history: commands given to on_message

linkVars == <<t, first, attempt, running>>
connVars == <<rbuf, conn, subs, pipe>>
serverVars == <<server, published, losses>>
stopVars == <<stopper, found>>
vars == <<host, linkVars, client, connVars, serverVars, stopVars, handled>>

Chunk == (0 .. MaxPublish) \X {1, 2}     \* packet 0 is the reply to SUBSCRIBE
Packet(n) == <<<<n, 1>>, <<n, 2>>>>

\* The link thread, its connection, what is counted, and the stop.
LinkOK ==
    /\ t \in {"idle", "made", "connect", "subscribe", "enter", "run", "dropped",
              "backoff", "wait", "ended", "raised"}
    /\ first \in BOOLEAN /\ attempt \in 0 .. MaxRetries - 1 /\ running \in BOOLEAN
    /\ client \in [held : BOOLEAN, hears : BOOLEAN, quits : BOOLEAN]
ConnOK ==
    /\ rbuf \in {"clean", "half", "stale", "bad"}
    /\ conn \in {"none", "open", "ended"}
    /\ subs \in BOOLEAN /\ (subs => conn = "open")
    /\ pipe \in Seq(Chunk) /\ (conn = "none" => pipe = <<>>)
    /\ server \in {"up", "down"} /\ (conn = "open" => server = "up")
CountsOK ==
    /\ published \in 0 .. MaxPublish /\ losses \in 0 .. MaxLoss
    /\ handled \in Seq(1 .. MaxPublish)
StopOK ==
    /\ host \in {"main", "receiver"}
    /\ stopper \in {"idle", "closing", "closed"} /\ found \in BOOLEAN
TypeOK == LinkOK /\ ConnOK /\ CountsOK /\ StopOK

NoClient == [held |-> FALSE, hears |-> FALSE, quits |-> FALSE]
NewClient == [held |-> TRUE, hears |-> TRUE, quits |-> FALSE]

Init ==
    /\ host \in {"main", "receiver"}
    /\ t = "idle"
    /\ first = TRUE /\ attempt = 0 /\ running = FALSE
    /\ client = NoClient
    /\ rbuf = "clean" /\ conn = "none" /\ subs = FALSE /\ pipe = <<>>
    /\ server \in {"up", "down"} /\ published = 0 /\ losses = 0
    /\ stopper = "idle" /\ found = FALSE
    /\ handled = <<>>

-----------------------------------------------------------------------------
\* The connection is gone on the client's side.  The Unpacker keeps its bytes: half a
\* packet becomes the start of whatever the next connection brings.
Closed ==
    /\ conn' = "none" /\ subs' = FALSE /\ pipe' = <<>>
    /\ rbuf' = IF rbuf = "half" THEN "stale" ELSE rbuf

EndsForGood == "ended"     \* a slip: the receiver's thread ends as the bridge does
\* After connect or run_forever: the receiver goes on to a new handler, the bridge ends.
Afterwards == IF host = "main" THEN "ended" ELSE "wait"

RunForeverEnds ==
    /\ running' = FALSE
    /\ t' = Afterwards
    /\ UNCHANGED <<first, attempt>>

OneTooMany == attempt < MaxRetries     \* a slip: off by one
RetriesLeft == attempt + 1 < MaxRetries

\* connect() failed: the bridge tries again up to max_retries times, the receiver makes
\* a new handler.  An attempt of _reconnect_with_backoff failed: the next one follows.
Failed ==
    IF RetriesLeft /\ (host = "main" \/ ~first)
    THEN /\ attempt' = attempt + 1
         /\ t' = IF first THEN "made" ELSE "backoff"
         /\ UNCHANGED <<first, running>>
    ELSE RunForeverEnds

\* An exception leaves the link thread, through run_forever if it is there: its handler
\* names vsoa.Error, which does not exist.
Raised == t' = "raised" /\ UNCHANGED <<first, attempt, running>>

-----------------------------------------------------------------------------
\* The receiver's loop: a new handler, unless the link is stopped.
MakeHandler ==
    /\ host = "receiver" /\ t = "idle"
    /\ t' = IF stopper = "idle" THEN "made" ELSE "ended"
    /\ client' = NoClient /\ attempt' = 0
    /\ UNCHANGED <<host, first, running, connVars, serverVars, stopVars, handled>>

Wait ==
    /\ t = "wait"
    /\ t' = "idle"
    /\ UNCHANGED <<host, first, attempt, running, client, connVars, serverVars, stopVars, handled>>

\* PubSubHandler.connect: a new client with on_message.
MakeClient ==
    /\ t = "made"
    /\ t' = "connect" /\ first' = TRUE
    /\ client' = NewClient
    /\ rbuf' = "clean" /\ conn' = "none" /\ subs' = FALSE /\ pipe' = <<>>
    /\ UNCHANGED <<host, attempt, running, serverVars, stopVars, handled>>

ReplacementHears == NewClient     \* a slip: on_message is set on every client
\* _do_connect_and_subscribe, when stop has taken the client away: onmessage is None.
Replacement == [NewClient EXCEPT !.hears = FALSE]

\* An attempt of _reconnect_with_backoff after its sleep.
Retry ==
    /\ t = "backoff"
    /\ t' = "connect" /\ first' = FALSE
    /\ IF client.held
       THEN UNCHANGED <<client, connVars>>
       ELSE /\ client' = Replacement
            /\ rbuf' = "clean" /\ conn' = "none" /\ subs' = FALSE /\ pipe' = <<>>
    /\ UNCHANGED <<host, attempt, running, serverVars, stopVars, handled>>

Usable == client.held /\ ~client.quits

ConnectSucceeds ==
    /\ t = "connect" /\ server = "up" /\ Usable
    /\ conn' = "open" /\ subs' = FALSE /\ pipe' = <<>>
    /\ t' = "subscribe"
    /\ UNCHANGED <<host, first, attempt, running, client, rbuf, serverVars, stopVars, handled>>

\* The attempt fails, or the client is closed under it and it fails or raises.
ConnectFails ==
    /\ t = "connect" /\ (server = "down" \/ ~Usable)
    /\ Failed \/ (~Usable /\ Raised)
    /\ Closed
    /\ UNCHANGED <<host, client, serverVars, stopVars, handled>>

\* The request is written; the server may be gone, which the client sees now or later.
Subscribe ==
    /\ t = "subscribe" /\ Usable
    /\ t' = "enter" /\ running' = TRUE
    /\ subs' = (conn = "open")
    /\ pipe' = IF conn = "open" THEN pipe \o Packet(0) ELSE pipe
    /\ UNCHANGED <<host, first, attempt, client, rbuf, conn, serverVars, stopVars, handled>>

SubscribeFails ==
    /\ t = "subscribe" /\ (conn # "open" \/ ~Usable)
    /\ Failed \/ (~Usable /\ Raised)
    /\ UNCHANGED <<host, client, connVars, serverVars, stopVars, handled>>

\* Client.run; it raises for a client that is being closed, or run_forever has none.
Enter ==
    /\ t = "enter"
    /\ IF Usable THEN t' = "run" /\ UNCHANGED <<first, attempt, running>>
                 ELSE \/ Raised
                      \/ /\ first /\ ~client.held
                         /\ t' = Afterwards /\ UNCHANGED <<first, attempt, running>>
    /\ UNCHANGED <<host, client, connVars, serverVars, stopVars, handled>>

-----------------------------------------------------------------------------
\* recv and Unpacker.input.  A packet that is complete is handled; the bytes of an old
\* connection swallow the chunk, by chance end with it, or leave a buffer that does not
\* start with the magic byte: input returns False and the client drops the connection.
\* on_message raises for the commands that Downlink calls unanswerable, and is not there
\* on a replacement.
Receive ==
    LET c == Head(pipe)
        Complete == rbuf = "half" /\ c[2] = 2
    IN
    /\ t = "run" /\ ~client.quits /\ pipe # <<>>
    /\ \/ /\ rbuf \in {"clean", "half"}
          /\ rbuf' = IF Complete THEN "clean" ELSE "half"
          /\ pipe' = Tail(pipe) /\ UNCHANGED <<conn, subs>>
          /\ IF Complete /\ c[1] > 0
             THEN IF client.hears
                  THEN handled' = Append(handled, c[1]) /\ (UNCHANGED linkVars \/ Raised)
                  ELSE Raised /\ UNCHANGED handled
             ELSE UNCHANGED <<linkVars, handled>>
       \/ /\ rbuf = "stale"
          /\ \/ rbuf' = "stale"
             \/ c[2] = 2 /\ rbuf' = "clean"
          /\ pipe' = Tail(pipe) /\ UNCHANGED <<linkVars, conn, subs, handled>>
       \/ /\ rbuf \in {"stale", "bad"}
          /\ rbuf' = "bad"
          /\ conn' = "none" /\ subs' = FALSE /\ pipe' = <<>>
          /\ t' = "dropped" /\ UNCHANGED <<first, attempt, running, handled>>
    /\ UNCHANGED <<host, client, serverVars, stopVars>>

\* The end of the stream.
Eof ==
    /\ t = "run" /\ ~client.quits /\ conn = "ended" /\ pipe = <<>>
    /\ t' = "dropped" /\ Closed
    /\ UNCHANGED <<host, first, attempt, running, client, serverVars, stopVars, handled>>

\* The event loop leaves because close asks it to.
Quit ==
    /\ t = "run" /\ client.quits
    /\ t' = "dropped"
    /\ UNCHANGED <<host, first, attempt, running, client, connVars, serverVars, stopVars, handled>>

\* run_forever after run has returned.
Dropped ==
    /\ t = "dropped"
    /\ IF running
       THEN t' = "backoff" /\ attempt' = 0 /\ first' = FALSE /\ UNCHANGED running
       ELSE RunForeverEnds
    /\ UNCHANGED <<host, client, connVars, serverVars, stopVars, handled>>

-----------------------------------------------------------------------------
\* VsoaCommandClientRunner.close and PubSubHandler.stop: Client.close asks the event loop
\* to leave and waits for it, if there is one.
Stop ==
    /\ host = "receiver" /\ stopper = "idle"
    /\ running' = FALSE
    /\ IF client.held
       THEN stopper' = "closing" /\ found' = TRUE /\ client' = [client EXCEPT !.quits = TRUE]
       ELSE stopper' = "closed" /\ UNCHANGED <<found, client>>
    /\ UNCHANGED <<host, t, first, attempt, connVars, serverVars, handled>>

StopCloses ==
    /\ host = "receiver" /\ stopper = "closing" /\ t # "run"
    /\ stopper' = "closed"
    /\ client' = [client EXCEPT !.held = FALSE]
    /\ Closed
    /\ UNCHANGED <<host, linkVars, serverVars, found, handled>>

-----------------------------------------------------------------------------
\* Server.publish: to the connection if it is subscribed.
Publish ==
    /\ server = "up" /\ published < MaxPublish
    /\ published' = published + 1
    /\ pipe' = IF subs THEN pipe \o Packet(published + 1) ELSE pipe
    /\ UNCHANGED <<host, linkVars, client, rbuf, conn, subs, server, losses, stopVars, handled>>

\* A connection is lost, alone or with its server: any part of what was sent arrives.
LoseConnection ==
    /\ subs' = FALSE
    /\ conn' = IF conn = "open" THEN "ended" ELSE conn
    /\ \E n \in 0 .. Len(pipe) : pipe' = SubSeq(pipe, 1, n)

Lose ==
    /\ losses < MaxLoss /\ losses' = losses + 1
    /\ conn = "open" /\ LoseConnection
    /\ UNCHANGED <<host, linkVars, client, rbuf, server, published, stopVars, handled>>

GoDown ==
    /\ losses < MaxLoss /\ losses' = losses + 1
    /\ server = "up" /\ server' = "down" /\ LoseConnection
    /\ UNCHANGED <<host, linkVars, client, rbuf, published, stopVars, handled>>

ComeUp ==
    /\ server = "down" /\ server' = "up"
    /\ UNCHANGED <<host, linkVars, client, connVars, published, losses, stopVars, handled>>

Link == \/ MakeHandler \/ Wait \/ MakeClient \/ Retry
        \/ ConnectSucceeds \/ ConnectFails \/ Subscribe \/ SubscribeFails
        \/ Enter \/ Receive \/ Eof \/ Quit \/ Dropped
Environment == Publish \/ Lose \/ GoDown \/ ComeUp
-----------------------------------------------------------------------------
\* Once a stop that found a client has returned, no command is handled any more, though
\* the link thread may be asleep in its back-off and connect again when it wakes
\* (stop, _do_connect_and_subscribe).
StopSilences ==
    [][stopper = "closed" /\ found => handled' = handled]_vars

Listening == t = "run" /\ conn = "open" /\ subs

\* When the server stays up, the link ends up subscribed for good, provided no
\* connection ended in the middle of a packet and no command made its handler raise (the
\* documentation makes no such exceptions: doc/spec.md, the head of pubsub_handler.py):
\* retries start afresh after every loss, and the receiver starts over when they are used
\* up (run_forever, _reconnect_with_backoff).
Reconnects ==
    /\ <>[](server = "up") /\ [](stopper = "idle")
    /\ host = "receiver" \/ (<>(t = "run") /\ [](t # "ended"))
    /\ [](rbuf \notin {"stale", "bad"} /\ t # "raised")
    => <>[]Listening
=============================================================================
