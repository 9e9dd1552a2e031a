----------------------------- MODULE BridgeProofs -----------------------------
(***************************************************************************)
(* Theorems about the bridge as a process and the link below it, for every *)
(* number of connections to the injection port, of signals, losses,        *)
(* retries and commands: its state keeps its shape, an orderly end cuts no *)
(* message short, and a stop that has returned has silenced the link.      *)
(***************************************************************************)
EXTENDS Bridge, SequenceTheorems, TLAPS

\* No more shutdowns are in progress than signals came, and one that the end of the link
\* has begun; only one that waits for connections has a list of them.
Depth ==
    /\ Len(frames) <= signals + 1
    /\ \A n \in DOMAIN frames : frames[n].joins = {} \/ frames[n].at = "join"

\* The receiver's client, once a stop has found it, does not give messages to a handler any
\* more, and no handler is made; the bridge, once its link is stopped, shuts down or is
\* past it, and never runs the link again.
Silent ==
    /\ host = "receiver" /\ found => (client.quits \/ ~client.hears) /\ t # "made"
    /\ host = "receiver" /\ found => stopper # "idle"
    /\ host = "receiver" /\ t = "made" => ~client.held
    /\ host = "main" /\ stopper = "closed" => frames # <<>> \/ stage \in {"exiting", "ended"}

\* Before there are callbacks the network thread handles no message, and a shutdown that
\* is past it has waited for it.
NetLeft ==
    /\ callbacks => stage \in {"running", "exiting", "ended"}
    /\ stage \in {"running", "exiting"} => callbacks
    /\ ~callbacks => net \in {"none", "idle"}
    /\ stage = "exiting" => net \in {"none", "joined"}
    /\ (\E n \in DOMAIN frames : frames[n].at = "last") => net \in {"none", "joined"}

\* As long as no signal came, the one shutdown is that of the link's end; it leaves the
\* port open until it stops it, then waits for every connection that is left.
Settled == port = "gone" /\ \A i \in Injectors : inj[i] \in {"none", "closed"}
PortOpen == stage \in {"business", "link", "callbacks"} => port = "open"
FirstShutdown ==
    stage = "running" /\ signals = 0 =>
      /\ frames = <<>> \/ Last(frames).at \in {"link", "inject"} => port = "open"
      /\ frames # <<>> => inFinally
      /\ frames # <<>> /\ Last(frames).at = "join" =>
           /\ port = "shut"
           /\ \A i \in Injectors : inj[i] \in {"none", "closed"} \/ i \in Last(frames).joins
      /\ frames # <<>> /\ Last(frames).at \in {"mqtt", "last"} => Settled

\* Behind that shutdown nothing is left for the interpreter to wait for, so that a signal
\* that ends its waiting interrupts nobody.
Exiting == stage = "exiting" /\ (signals = 0 \/ (signals = 1 /\ frames # <<>>)) => Settled

Process == Depth /\ NetLeft /\ PortOpen /\ FirstShutdown /\ Exiting /\ NothingCutShort
BridgeInv == BridgeTypeOK /\ Silent /\ Process

-----------------------------------------------------------------------------
LEMMA StartupSet ==
    ToSet(Startup) = {"mqtt", "services", "inject", "business", "link", "callbacks"}
<1>1. DOMAIN Startup = 1 .. 6
  BY DEF Startup
<1> QED
  BY <1>1 DEF ToSet, Startup

\* A shutdown goes on: the innermost frame is the new one, the others are as they were.
LEMMA GotoFrames ==
    ASSUME frames \in Seq(Frame), frames # <<>>, NEW f \in Frame, Goto(f)
    PROVE  /\ frames' \in Seq(Frame) /\ frames' # <<>>
           /\ Len(frames') = Len(frames) /\ DOMAIN frames' = DOMAIN frames
           /\ Last(frames') = f
           /\ \A n \in DOMAIN frames : frames'[n] = f \/ frames'[n] = frames[n]
<1> DEFINE b == Front(frames)
<1>1. /\ Len(frames) \in Nat \ {0}
      /\ DOMAIN frames = 1 .. Len(frames)
      /\ b \in Seq(Frame) /\ Len(b) = Len(frames) - 1
      /\ \A n \in 1 .. Len(frames) - 1 : b[n] = frames[n]
  <2>1. Len(frames) \in Nat \ {0} /\ DOMAIN frames = 1 .. Len(frames)
    BY EmptySeq, LenProperties
  <2>2. b = SubSeq(frames, 1, Len(frames) - 1)
    BY DEF Front
  <2> QED
    BY <2>1, <2>2, SubSeqProperties
<1>2. frames' = Append(b, f)
  BY DEF Goto
<1> HIDE DEF b
<1>3. /\ frames' \in Seq(Frame)
      /\ Len(frames') = Len(frames)
      /\ frames'[Len(frames)] = f
      /\ \A n \in 1 .. Len(frames) - 1 : frames'[n] = frames[n]
  <2>1. /\ Append(b, f) \in Seq(Frame)
        /\ Len(Append(b, f)) = Len(b) + 1
        /\ \A n \in 1 .. Len(b) : Append(b, f)[n] = b[n]
        /\ Append(b, f)[Len(b) + 1] = f
    <3>1. b \in Seq(Frame)
      BY <1>1
    <3> QED
      BY <3>1, AppendProperties
  <2>2. Len(b) + 1 = Len(frames)
    BY <1>1
  <2> QED
    BY <1>1, <1>2, <2>1, <2>2
<1>4. DOMAIN frames' = 1 .. Len(frames) /\ frames' # <<>>
  BY <1>1, <1>3, LenProperties, EmptySeq
<1>5. Last(frames') = f
  BY <1>3 DEF Last
<1> QED
  BY <1>1, <1>3, <1>4, <1>5

\* A signal, or the end of the link, begins a shutdown.
LEMMA NewShutdown ==
    ASSUME frames \in Seq(Frame), frames' = Append(frames, Shutdown)
    PROVE  /\ frames' \in Seq(Frame) /\ frames' # <<>>
           /\ Len(frames') = Len(frames) + 1
           /\ Last(frames') = Shutdown
           /\ \A n \in DOMAIN frames' :
                frames'[n] = Shutdown \/ (n \in DOMAIN frames /\ frames'[n] = frames[n])
<1>1. Shutdown \in Frame
  BY DEF Shutdown, Frame
<1>2. /\ frames' \in Seq(Frame)
      /\ Len(frames') = Len(frames) + 1
      /\ frames'[Len(frames) + 1] = Shutdown
      /\ \A n \in 1 .. Len(frames) : frames'[n] = frames[n]
  BY <1>1, AppendProperties
<1>3. /\ Len(frames) \in Nat /\ DOMAIN frames = 1 .. Len(frames)
      /\ DOMAIN frames' = 1 .. Len(frames) + 1
  BY <1>2, LenProperties
<1>4. frames' # <<>> /\ Last(frames') = Shutdown
  BY <1>2, <1>3, EmptySeq DEF Last
<1> QED
  BY <1>2, <1>3, <1>4

LEMMA OneShutdown ==
    /\ <<Shutdown>> \in Seq(Frame) /\ <<Shutdown>> # <<>> /\ Len(<<Shutdown>>) = 1
    /\ Last(<<Shutdown>>) = Shutdown
    /\ \A n \in DOMAIN <<Shutdown>> : <<Shutdown>>[n] = Shutdown
    /\ <<>> \in Seq(Frame) /\ Len(<<>>) = 0 /\ DOMAIN <<>> = {}
<1>1. Shutdown \in Frame
  BY DEF Shutdown, Frame
<1>2. Len(<<Shutdown>>) = 1 /\ <<Shutdown>>[1] = Shutdown
  OBVIOUS
<1> QED
  BY <1>1, <1>2, EmptySeq DEF Last

-----------------------------------------------------------------------------
\* The types of the link.  Each part is about its own variables.
LEMMA LinkPartsKept ==
    /\ LinkOK /\ UNCHANGED <<linkVars, client>> => LinkOK'
    /\ ConnOK /\ UNCHANGED <<connVars, server>> => ConnOK'
    /\ CountsOK /\ UNCHANGED <<published, losses, handled>> => CountsOK'
    /\ StopOK /\ UNCHANGED <<host, stopVars>> => StopOK'
<1>1. LinkOK /\ UNCHANGED <<linkVars, client>> => LinkOK'
  BY DEF LinkOK, linkVars
<1>2. ConnOK /\ UNCHANGED <<connVars, server>> => ConnOK'
  BY DEF ConnOK, connVars
<1>3. CountsOK /\ UNCHANGED <<published, losses, handled>> => CountsOK'
  BY DEF CountsOK
<1>4. StopOK /\ UNCHANGED <<host, stopVars>> => StopOK'
  BY DEF StopOK, stopVars
<1> QED
  BY <1>1, <1>2, <1>3, <1>4

LEMMA FailureTypes ==
    ASSUME LinkOK, Failed \/ Raised, client' = client
    PROVE  LinkOK'
<1>1. MaxRetries \in Nat \ {0}
  BY PubSubLinkAssumption
<1>2. attempt \in Nat /\ attempt + 1 < MaxRetries => attempt + 1 \in 0 .. MaxRetries - 1
  BY <1>1
<1>3. attempt \in Nat
  BY DEF LinkOK
<1>4. /\ t' \in {"made", "backoff", "wait", "ended", "raised"}
      /\ attempt' = attempt \/ (attempt' = attempt + 1 /\ attempt + 1 < MaxRetries)
      /\ first' = first /\ (running' = running \/ running' = FALSE)
  BY DEF Failed, RetriesLeft, RunForeverEnds, Afterwards, Raised
<1> QED
  BY <1>2, <1>3, <1>4 DEF LinkOK

LEMMA ClosedTypes ==
    ASSUME ConnOK, Closed, server' = server
    PROVE  ConnOK'
<1>1. <<>> \in Seq(Chunk)
  BY EmptySeq
<1> QED
  BY <1>1 DEF ConnOK, Closed

\* A connection lost leaves the beginning of what was under way.
LEMMA LostTypes ==
    ASSUME ConnOK, LoseConnection, rbuf' = rbuf, server' \in {"up", "down"}
    PROVE  ConnOK'
<1>1. PICK n \in 0 .. Len(pipe) : pipe' = SubSeq(pipe, 1, n)
  BY DEF LoseConnection
<1>2. pipe \in Seq(Chunk) /\ Len(pipe) \in Nat /\ DOMAIN pipe = 1 .. Len(pipe)
  BY LenProperties DEF ConnOK
<1>3. /\ \A i \in 1 .. n : pipe[i] \in Chunk
      /\ n \in Int /\ 1 \in Int
  BY <1>2
<1>4. SubSeq(pipe, 1, n) \in Seq(Chunk)
  BY <1>3, SubSeqProperties
<1>5. pipe = <<>> => SubSeq(pipe, 1, n) = <<>>
  BY <1>2, EmptySeq, SubSeqEmpty
<1> QED
  BY <1>1, <1>4, <1>5 DEF ConnOK, LoseConnection

LEMMA PacketTypes ==
    ASSUME pipe \in Seq(Chunk), NEW n \in 0 .. MaxPublish
    PROVE  pipe \o Packet(n) \in Seq(Chunk)
<1>1. <<n, 1>> \in Chunk /\ <<n, 2>> \in Chunk
  BY DEF Chunk
<1>2. Packet(n) \in Seq(Chunk)
  BY <1>1 DEF Packet
<1> QED
  BY <1>2, ConcatProperties

LEMMA ReceiveTypes ==
    ASSUME TypeOK, Receive
    PROVE  TypeOK'
<1> DEFINE c == Head(pipe)
           Complete == rbuf = "half" /\ c[2] = 2
<1>1. pipe \in Seq(Chunk) /\ pipe # <<>> /\ conn # "none"
  BY DEF TypeOK, ConnOK, Receive
<1>2. c \in Chunk /\ Tail(pipe) \in Seq(Chunk)
  BY <1>1, HeadTailProperties
<1>3. /\ c[1] \in 0 .. MaxPublish
      /\ c[1] > 0 => c[1] \in 1 .. MaxPublish
  BY <1>2, PubSubLinkAssumption DEF Chunk
<1>4. handled \in Seq(1 .. MaxPublish)
  BY DEF TypeOK, CountsOK
<1>5. c[1] > 0 => Append(handled, c[1]) \in Seq(1 .. MaxPublish)
  BY <1>3, <1>4, AppendProperties
<1>6. /\ t = "run" /\ UNCHANGED <<host, client, serverVars, stopVars>>
      /\ \/ /\ rbuf \in {"clean", "half"}
            /\ rbuf' = IF Complete THEN "clean" ELSE "half"
            /\ pipe' = Tail(pipe) /\ UNCHANGED <<conn, subs>>
            /\ IF Complete /\ c[1] > 0
               THEN IF client.hears
                    THEN handled' = Append(handled, c[1]) /\ (UNCHANGED linkVars \/ Raised)
                    ELSE Raised /\ UNCHANGED handled
               ELSE UNCHANGED <<linkVars, handled>>
         \/ /\ rbuf = "stale" /\ rbuf' \in {"stale", "clean"}
            /\ pipe' = Tail(pipe) /\ UNCHANGED <<linkVars, conn, subs, handled>>
         \/ /\ rbuf' = "bad"
            /\ conn' = "none" /\ subs' = FALSE /\ pipe' = <<>>
            /\ t' = "dropped" /\ UNCHANGED <<first, attempt, running, handled>>
  BY DEF Receive
<1> HIDE DEF c, Complete
<1>7. LinkOK'
  <2>1. LinkOK
    BY DEF TypeOK
  <2>2. UNCHANGED client
    BY <1>6
  <2>3. UNCHANGED linkVars \/ Raised \/ (t' = "dropped" /\ UNCHANGED <<first, attempt, running>>)
    BY <1>6
  <2> QED
    BY <2>1, <2>2, <2>3 DEF LinkOK, linkVars, Raised
<1>8. ConnOK'
  <2>1. ConnOK
    BY DEF TypeOK
  <2>2. server' = server /\ <<>> \in Seq(Chunk)
    BY <1>6, EmptySeq DEF serverVars
  <2>3. /\ rbuf' \in {"clean", "half", "stale", "bad"}
        /\ \/ pipe' = Tail(pipe) /\ UNCHANGED <<conn, subs>>
           \/ conn' = "none" /\ subs' = FALSE /\ pipe' = <<>>
    BY <1>6
  <2>4. CASE pipe' = Tail(pipe) /\ UNCHANGED <<conn, subs>>
    BY <1>1, <1>2, <2>1, <2>2, <2>3, <2>4 DEF ConnOK
  <2>5. CASE conn' = "none" /\ subs' = FALSE /\ pipe' = <<>>
    BY <2>1, <2>2, <2>3, <2>5 DEF ConnOK
  <2> QED
    BY <2>3, <2>4, <2>5
<1>9. CountsOK'
  <2>1. UNCHANGED handled \/ (c[1] > 0 /\ handled' = Append(handled, c[1]))
    BY <1>6
  <2>2. UNCHANGED <<published, losses>>
    BY <1>6 DEF serverVars
  <2> QED
    BY <1>5, <2>1, <2>2 DEF TypeOK, CountsOK
<1> QED
  BY <1>6, <1>7, <1>8, <1>9, LinkPartsKept DEF TypeOK

LEMMA ReplacementMute ==
    Replacement \in [held : BOOLEAN, hears : BOOLEAN, quits : BOOLEAN] /\ ~Replacement.hears
<1>1. NewClient \in [held : BOOLEAN, hears : BOOLEAN, quits : BOOLEAN]
  BY DEF NewClient
<1> QED
  BY <1>1 DEF Replacement

LEMMA LinkTypes ==
    ASSUME TypeOK, Link
    PROVE  TypeOK'
<1>1. LinkOK /\ ConnOK /\ CountsOK /\ StopOK
  BY DEF TypeOK
<1>2. MaxRetries \in Nat \ {0} /\ 0 \in 0 .. MaxRetries - 1 /\ <<>> \in Seq(Chunk)
  BY PubSubLinkAssumption, EmptySeq
<1>3. CASE MakeHandler
  <2>1. LinkOK'
    BY <1>1, <1>2, <1>3 DEF LinkOK, MakeHandler, NoClient
  <2> QED
    BY <1>1, <1>3, <2>1, LinkPartsKept DEF MakeHandler, serverVars, connVars, TypeOK
<1>4. CASE Wait
  <2>1. LinkOK'
    BY <1>1, <1>4 DEF LinkOK, Wait
  <2> QED
    BY <1>1, <1>4, <2>1, LinkPartsKept DEF Wait, serverVars, connVars, TypeOK
<1>5. CASE MakeClient
  <2>1. LinkOK'
    BY <1>1, <1>5 DEF LinkOK, MakeClient, NewClient
  <2>2. ConnOK'
    BY <1>1, <1>2, <1>5 DEF ConnOK, MakeClient, serverVars
  <2> QED
    BY <1>1, <1>5, <2>1, <2>2, LinkPartsKept DEF MakeClient, serverVars, TypeOK
<1>6. CASE Retry
  <2>1. LinkOK'
    <3>1. client' = client \/ client' = Replacement
      BY <1>6 DEF Retry
    <3>2. client' \in [held : BOOLEAN, hears : BOOLEAN, quits : BOOLEAN]
      BY <1>1, <3>1, ReplacementMute DEF LinkOK
    <3>3. t' = "connect" /\ first' = FALSE /\ attempt' = attempt /\ running' = running
      BY <1>6 DEF Retry
    <3> QED
      BY <1>1, <3>2, <3>3 DEF LinkOK
  <2>2. ConnOK'
    <3>1. server' = server
      BY <1>6 DEF Retry, serverVars
    <3>2. CASE client.held
      BY <1>1, <1>6, <3>1, <3>2, LinkPartsKept DEF Retry
    <3>3. CASE ~client.held
      BY <1>1, <1>2, <1>6, <3>1, <3>3 DEF ConnOK, Retry
    <3> QED
      BY <3>2, <3>3
  <2> QED
    BY <1>1, <1>6, <2>1, <2>2, LinkPartsKept DEF Retry, serverVars, TypeOK
<1>7. CASE ConnectSucceeds
  <2>1. LinkOK'
    BY <1>1, <1>7 DEF LinkOK, ConnectSucceeds
  <2>2. ConnOK'
    BY <1>1, <1>2, <1>7 DEF ConnOK, ConnectSucceeds, serverVars
  <2> QED
    BY <1>1, <1>7, <2>1, <2>2, LinkPartsKept DEF ConnectSucceeds, serverVars, TypeOK
<1>8. CASE ConnectFails
  <2>1. LinkOK'
    BY <1>1, <1>8, FailureTypes DEF ConnectFails
  <2>2. ConnOK'
    BY <1>1, <1>8, ClosedTypes DEF ConnectFails, serverVars
  <2> QED
    BY <1>1, <1>8, <2>1, <2>2, LinkPartsKept DEF ConnectFails, serverVars, TypeOK
<1>9. CASE Subscribe
  <2>1. LinkOK'
    BY <1>1, <1>9 DEF LinkOK, Subscribe
  <2>2. ConnOK'
    <3>1. 0 \in 0 .. MaxPublish
      BY PubSubLinkAssumption
    <3>2. pipe \o Packet(0) \in Seq(Chunk)
      BY <1>1, <3>1, PacketTypes DEF ConnOK
    <3> QED
      BY <1>1, <1>9, <3>2 DEF ConnOK, Subscribe, serverVars
  <2> QED
    BY <1>1, <1>9, <2>1, <2>2, LinkPartsKept DEF Subscribe, serverVars, TypeOK
<1>10. CASE SubscribeFails
  <2>1. LinkOK'
    BY <1>1, <1>10, FailureTypes DEF SubscribeFails
  <2> QED
    BY <1>1, <1>10, <2>1, LinkPartsKept DEF SubscribeFails, connVars, serverVars, TypeOK
<1>11. CASE Enter
  <2>1. LinkOK'
    BY <1>1, <1>11 DEF LinkOK, Enter, Raised, Afterwards
  <2> QED
    BY <1>1, <1>11, <2>1, LinkPartsKept DEF Enter, connVars, serverVars, TypeOK
<1>12. CASE Receive
  BY <1>12, ReceiveTypes
<1>13. CASE Eof
  <2>1. LinkOK'
    BY <1>1, <1>13 DEF LinkOK, Eof
  <2>2. ConnOK'
    BY <1>1, <1>13, ClosedTypes DEF Eof, serverVars
  <2> QED
    BY <1>1, <1>13, <2>1, <2>2, LinkPartsKept DEF Eof, serverVars, TypeOK
<1>14. CASE Quit
  <2>1. LinkOK'
    BY <1>1, <1>14 DEF LinkOK, Quit
  <2> QED
    BY <1>1, <1>14, <2>1, LinkPartsKept DEF Quit, connVars, serverVars, TypeOK
<1>15. CASE Dropped
  <2>1. LinkOK'
    BY <1>1, <1>2, <1>15 DEF LinkOK, Dropped, RunForeverEnds, Afterwards
  <2> QED
    BY <1>1, <1>15, <2>1, LinkPartsKept DEF Dropped, connVars, serverVars, TypeOK
<1> QED
  BY <1>3, <1>4, <1>5, <1>6, <1>7, <1>8, <1>9, <1>10, <1>11, <1>12, <1>13, <1>14, <1>15
     DEF Link

\* The receiver's stop, the business server and its connections.
LEMMA AroundTypes ==
    ASSUME TypeOK, Stop \/ StopCloses \/ Environment
    PROVE  TypeOK'
<1>1. LinkOK /\ ConnOK /\ CountsOK /\ StopOK
  BY DEF TypeOK
<1>2. MaxPublish \in Nat /\ MaxLoss \in Nat
  BY PubSubLinkAssumption
<1>3. CASE Stop
  <2>1. LinkOK'
    BY <1>1, <1>3 DEF LinkOK, Stop
  <2>2. StopOK'
    BY <1>1, <1>3 DEF StopOK, Stop
  <2> QED
    BY <1>1, <1>3, <2>1, <2>2, LinkPartsKept DEF Stop, connVars, serverVars, TypeOK
<1>4. CASE StopCloses
  <2>1. LinkOK'
    BY <1>1, <1>4 DEF LinkOK, StopCloses, linkVars
  <2>2. StopOK'
    BY <1>1, <1>4 DEF StopOK, StopCloses
  <2>3. ConnOK'
    BY <1>1, <1>4, ClosedTypes DEF StopCloses, serverVars
  <2> QED
    BY <1>1, <1>4, <2>1, <2>2, <2>3, LinkPartsKept DEF StopCloses, serverVars, TypeOK
<1>5. CASE Publish
  <2>1. published + 1 \in 0 .. MaxPublish
    BY <1>1, <1>2, <1>5 DEF CountsOK, Publish
  <2>2. pipe \o Packet(published + 1) \in Seq(Chunk)
    BY <1>1, <2>1, PacketTypes DEF ConnOK
  <2>3. ConnOK'
    BY <1>1, <1>5, <2>2 DEF ConnOK, Publish
  <2>4. CountsOK'
    BY <1>1, <1>5, <2>1 DEF CountsOK, Publish
  <2> QED
    BY <1>1, <1>5, <2>3, <2>4, LinkPartsKept DEF Publish, TypeOK
<1>6. CASE Lose \/ GoDown \/ ComeUp
  <2>1. ConnOK'
    <3>1. CASE ComeUp
      BY <1>1, <3>1 DEF ConnOK, ComeUp, connVars
    <3>2. CASE Lose \/ GoDown
      <4>1. rbuf' = rbuf /\ LoseConnection /\ server' \in {"up", "down"}
        BY <1>1, <3>2 DEF Lose, GoDown, ConnOK
      <4> QED
        BY <1>1, <4>1, LostTypes
    <3> QED
      BY <1>6, <3>1, <3>2
  <2>2. CountsOK'
    BY <1>1, <1>2, <1>6 DEF CountsOK, Lose, GoDown, ComeUp
  <2> QED
    BY <1>1, <1>6, <2>1, <2>2, LinkPartsKept DEF Lose, GoDown, ComeUp, TypeOK
<1> QED
  BY <1>3, <1>4, <1>5, <1>6 DEF Environment

-----------------------------------------------------------------------------
\* The process.  The link, the receiver's stop and the servers leave it as it is.
LEMMA ProcessKept ==
    /\ MainOK /\ UNCHANGED mainVars => MainOK'
    /\ ThreadsOK /\ UNCHANGED uplinkVars => ThreadsOK'
    /\ Process /\ UNCHANGED <<mainVars, uplinkVars>> => Process'
<1>1. MainOK /\ UNCHANGED mainVars => MainOK'
  BY DEF MainOK, mainVars
<1>2. ThreadsOK /\ UNCHANGED uplinkVars => ThreadsOK'
  BY DEF ThreadsOK, uplinkVars
<1> SUFFICES ASSUME Process, UNCHANGED <<mainVars, uplinkVars>>
             PROVE  Process'
  BY <1>1, <1>2
<1>3. UNCHANGED <<stage, frames, inFinally, signals, net, callbacks, port, inj>>
  BY DEF mainVars, uplinkVars
<1>4. Depth' /\ NetLeft' /\ PortOpen'
  BY <1>3 DEF Process, Depth, NetLeft, PortOpen
<1>5. FirstShutdown' /\ Exiting' /\ NothingCutShort'
  BY <1>3 DEF Process, FirstShutdown, Exiting, NothingCutShort, Settled
<1> QED
  BY <1>4, <1>5 DEF Process

LEMMA StartingStep ==
    ASSUME BridgeInv, Starting
    PROVE  BridgeInv'
<1>1. TypeOK /\ MainOK /\ ThreadsOK /\ Silent /\ NetLeft /\ PortOpen /\ Depth
  BY DEF BridgeInv, BridgeTypeOK, Process
<1>2. stage \in {"mqtt", "services", "inject", "business", "link", "callbacks"}
  BY DEF Starting, StartMqtt, StartServices, StartInject, StartBusiness, Linked, SetCallbacks
<1>3. frames = <<>> /\ ~callbacks /\ net \in {"none", "idle"}
  BY <1>1, <1>2 DEF MainOK, NetLeft
<1>4. Main /\ UNCHANGED <<host, stopper, found, mode, frames, inFinally, lockHeld, signals, inj>>
  BY DEF Starting, StartMqtt, StartServices, StartInject, StartBusiness, Linked, SetCallbacks,
         Go, vars, stopVars, uplinkVars
<1>5. /\ stage' \in {"services", "inject", "business", "link", "callbacks", "running", "failed"}
      /\ stage' \in {"business", "link", "callbacks", "running"} => port' = "open"
      /\ port' = port \/ port' = "open"
      /\ callbacks' <=> stage' = "running"
      /\ net' \in {"none", "idle"}
  <2>1. CASE StartMqtt
    BY <1>3, <2>1 DEF StartMqtt, Go, ConnectOutcomes
  <2>2. CASE StartServices
    BY <1>3, <2>2 DEF StartServices, Go, uplinkVars
  <2>3. CASE StartInject
    BY <1>3, <2>3 DEF StartInject, Go
  <2>4. CASE StartBusiness
    BY <1>1, <1>3, <2>4 DEF StartBusiness, Go, uplinkVars, PortOpen
  <2>5. CASE Linked
    BY <1>1, <1>3, <2>5 DEF Linked, Go, uplinkVars, PortOpen
  <2>6. CASE SetCallbacks
    BY <1>1, <1>3, <2>6 DEF SetCallbacks, Go, PortOpen
  <2> QED
    BY <2>1, <2>2, <2>3, <2>4, <2>5, <2>6 DEF Starting
<1>6. TypeOK'
  <2>1. CASE UNCHANGED vars
    BY <1>1, <2>1, LinkPartsKept DEF TypeOK, vars, serverVars, stopVars, connVars
  <2>2. CASE StartBusiness /\ t' = "made"
    <3>1. LinkOK'
      BY <1>1, <2>2 DEF TypeOK, LinkOK, StartBusiness
    <3> QED
      BY <1>1, <2>2, <3>1, LinkPartsKept DEF TypeOK, StartBusiness, serverVars, stopVars
  <2>3. CASE StartBusiness /\ t' = t
    <3>1. LinkOK'
      BY <1>1, <2>3 DEF TypeOK, LinkOK, StartBusiness
    <3> QED
      BY <1>1, <2>3, <3>1, LinkPartsKept DEF TypeOK, StartBusiness, serverVars, stopVars
  <2> QED
    BY <2>1, <2>2, <2>3
       DEF Starting, StartMqtt, StartServices, StartInject, StartBusiness, Linked, SetCallbacks
<1>7. MainOK'
  BY <1>1, <1>3, <1>4, <1>5, StartupSet DEF MainOK
<1>8. ThreadsOK'
  <2>1. callbacks' \in BOOLEAN
    <3>1. callbacks' = callbacks \/ callbacks' = TRUE
      BY DEF Starting, StartMqtt, StartServices, StartInject, StartBusiness, Linked,
             SetCallbacks, uplinkVars
    <3> QED
      BY <1>1, <3>1 DEF ThreadsOK
  <2> QED
    BY <1>1, <1>4, <1>5, <2>1 DEF ThreadsOK
<1>9. Silent'
  BY <1>1, <1>2, <1>3, <1>4 DEF Silent, Main
<1>10. Depth' /\ NetLeft' /\ PortOpen'
  BY <1>1, <1>3, <1>4, <1>5, OneShutdown DEF Depth, NetLeft, PortOpen
<1>11. FirstShutdown' /\ Exiting' /\ NothingCutShort'
  BY <1>3, <1>4, <1>5 DEF FirstShutdown, Exiting, NothingCutShort
<1> QED
  BY <1>6, <1>7, <1>8, <1>9, <1>10, <1>11 DEF BridgeInv, BridgeTypeOK, Process

\* A signal, while the program runs or leaves, begins a shutdown and leaves the threads as
\* they are; a second one is no longer orderly.
LEMMA SignalStep ==
    ASSUME BridgeInv, Signal
    PROVE  BridgeInv'
<1>1. /\ TypeOK /\ MainOK /\ ThreadsOK
      /\ Depth /\ NetLeft /\ PortOpen /\ Exiting
  BY DEF BridgeInv, BridgeTypeOK, Process
<1>2. /\ Main /\ stage \notin {"ended", "killed"} /\ signals' = signals + 1
      /\ UNCHANGED <<host, linkVars, client, connVars, serverVars, found, handled, mode,
                     inFinally, uplinkVars>>
  BY DEF Signal
<1>3. /\ signals \in Nat /\ signals' \in 1 .. MaxSignals
      /\ signals' <= 1 => signals = 0
  BY <1>1, <1>2, BridgeAssumption DEF MainOK, Signal
<1>4. TypeOK'
  <2>1. stopper' \in {"idle", "closing", "closed"}
    BY <1>1 DEF Signal, TypeOK, StopOK
  <2>2. StopOK'
    BY <1>1, <1>2, <2>1 DEF TypeOK, StopOK
  <2> QED
    BY <1>1, <1>2, <2>2, LinkPartsKept DEF TypeOK, serverVars
<1>5. UNCHANGED <<net, callbacks, port, inj>>
  BY <1>2 DEF uplinkVars
<1>6. ThreadsOK'
  BY <1>1, <1>2, ProcessKept
<1>7. CASE stage \in {"running", "exiting"}
  <2>1. stage' = stage /\ frames' = Append(frames, Shutdown) /\ lockHeld' \in BOOLEAN
    BY <1>1, <1>7 DEF Signal, MainOK
  <2>2. /\ frames' \in Seq(Frame) /\ frames' # <<>>
        /\ Len(frames') = Len(frames) + 1
        /\ \A n \in DOMAIN frames' :
             frames'[n] = Shutdown \/ (n \in DOMAIN frames /\ frames'[n] = frames[n])
    BY <1>1, <2>1, NewShutdown DEF MainOK
  <2>3. Len(frames) \in Nat /\ Len(frames) <= signals + 1
    BY <1>1, LenProperties DEF Depth, MainOK
  <2>4. Len(frames') <= signals' + 1 /\ Len(frames') <= MaxSignals + 1
    BY <1>2, <1>3, <2>2, <2>3, BridgeAssumption
  <2>5. MainOK'
    BY <1>1, <1>2, <1>3, <1>7, <2>1, <2>2, <2>4 DEF MainOK
  <2>6. Shutdown.joins = {} /\ Shutdown.at = "link"
    BY DEF Shutdown
  <2>7. Depth'
    BY <1>1, <2>2, <2>4, <2>6 DEF Depth
  <2>8. NetLeft'
    BY <1>1, <1>5, <2>1, <2>2, <2>6 DEF NetLeft
  <2>9. Silent'
    BY <1>2, <2>2 DEF Silent, Main
  <2>10. PortOpen' /\ FirstShutdown' /\ NothingCutShort'
    BY <1>2, <1>3, <1>7, <2>1 DEF PortOpen, FirstShutdown, NothingCutShort
  <2>11. Exiting'
    BY <1>1, <1>3, <1>5, <1>7, <2>1 DEF Exiting, Settled
  <2> QED
    BY <1>4, <1>6, <2>5, <2>7, <2>8, <2>9, <2>10, <2>11 DEF BridgeInv, BridgeTypeOK, Process
<1>8. CASE stage \notin {"running", "exiting"}
  <2>1. stage' = "killed" /\ UNCHANGED <<frames, lockHeld, stopper>>
    BY <1>8 DEF Signal
  <2>2. frames = <<>> /\ frames' = <<>>
    BY <1>1, <1>8, <2>1 DEF MainOK
  <2>3. MainOK'
    BY <1>1, <1>2, <1>3, <2>1, <2>2 DEF MainOK
  <2>4. Depth'
    <3>1. Len(frames') = 0 /\ DOMAIN frames' = {}
      BY <2>2, OneShutdown
    <3>2. 0 <= signals' + 1
      BY <1>2, <1>3
    <3> QED
      BY <3>1, <3>2 DEF Depth
  <2>5. NetLeft'
    BY <1>1, <1>2, <1>5, <1>8, <2>1, <2>2, OneShutdown DEF NetLeft
  <2>6. Silent'
    BY <1>2, <1>8, <2>1, <2>2 DEF Silent, Main, BridgeInv
  <2>7. PortOpen' /\ FirstShutdown' /\ NothingCutShort' /\ Exiting'
    BY <2>1 DEF PortOpen, FirstShutdown, NothingCutShort, Exiting
  <2> QED
    BY <1>4, <1>6, <2>3, <2>4, <2>5, <2>6, <2>7 DEF BridgeInv, BridgeTypeOK, Process
<1> QED
  BY <1>7, <1>8

-----------------------------------------------------------------------------
\* A step of the innermost shutdown.
LEMMA GotoStep ==
    ASSUME MainOK, Depth, frames # <<>>, NEW f \in Frame, f.joins = {} \/ f.at = "join", Goto(f)
    PROVE  /\ MainOK' /\ Depth'
           /\ stage \in {"running", "exiting"} /\ stage' = stage
           /\ frames' # <<>> /\ Last(frames') = f
           /\ inFinally' = inFinally /\ signals' = signals
           /\ \A n \in DOMAIN frames' :
                frames'[n] = f \/ (n \in DOMAIN frames /\ frames'[n] = frames[n])
<1>1. frames \in Seq(Frame)
  BY DEF MainOK
<1>2. UNCHANGED <<mode, stage, inFinally, lockHeld, signals>>
  BY DEF Goto
<1>3. /\ frames' \in Seq(Frame) /\ frames' # <<>>
      /\ Len(frames') = Len(frames) /\ DOMAIN frames' = DOMAIN frames
      /\ Last(frames') = f
      /\ \A n \in DOMAIN frames : frames'[n] = f \/ frames'[n] = frames[n]
  BY <1>1, GotoFrames
<1>4. MainOK'
  BY <1>2, <1>3 DEF MainOK
<1>5. Depth'
  BY <1>2, <1>3 DEF Depth
<1> QED
  BY <1>2, <1>3, <1>4, <1>5 DEF MainOK

\* What every step of a shutdown starts from.
LEMMA InShutdown ==
    ASSUME BridgeInv, Main, frames # <<>>
    PROVE  /\ TypeOK /\ MainOK /\ ThreadsOK /\ Silent
           /\ Depth /\ NetLeft /\ FirstShutdown /\ Exiting
           /\ Top \in Frame /\ stage \in {"running", "exiting"} /\ callbacks
           /\ \E n \in DOMAIN frames : frames[n] = Top
<1>1. /\ TypeOK /\ MainOK /\ ThreadsOK /\ Silent
      /\ Depth /\ NetLeft /\ FirstShutdown /\ Exiting
  BY DEF BridgeInv, BridgeTypeOK, Process
<1>2. stage \in {"running", "exiting"}
  BY <1>1 DEF MainOK
<1>3. callbacks
  BY <1>1, <1>2 DEF NetLeft
<1>4. Len(frames) \in DOMAIN frames /\ frames[Len(frames)] \in Frame
  BY <1>1, EmptySeq, LenProperties DEF MainOK
<1> QED
  BY <1>1, <1>2, <1>3, <1>4 DEF Top, Last

LEMMA FrameTypes ==
    /\ \A a \in {"link", "inject", "join", "mqtt", "last"} : \A s \in SUBSET Injectors :
         /\ [at |-> a, joins |-> s] \in Frame
         /\ [at |-> a, joins |-> s].at = a /\ [at |-> a, joins |-> s].joins = s
BY DEF Frame

LEMMA StopLinkStep ==
    ASSUME BridgeInv, StopLink
    PROVE  BridgeInv'
<1> DEFINE f == [at |-> "inject", joins |-> {}]
<1>1. /\ TypeOK /\ MainOK /\ ThreadsOK /\ Silent
      /\ Depth /\ NetLeft /\ FirstShutdown /\ Exiting
      /\ stage \in {"running", "exiting"} /\ callbacks
  BY InShutdown DEF StopLink, At
<1>2. f \in Frame /\ f.at = "inject" /\ f.joins = {}
  BY FrameTypes
<1>3. Goto(f) /\ Main /\ frames # <<>> /\ Last(frames).at = "link"
  BY DEF StopLink, At, Top
<1> HIDE DEF f
<1>4. /\ MainOK' /\ Depth' /\ stage' = stage
      /\ frames' # <<>> /\ Last(frames') = f
      /\ inFinally' = inFinally /\ signals' = signals
      /\ \A n \in DOMAIN frames' :
           frames'[n] = f \/ (n \in DOMAIN frames /\ frames'[n] = frames[n])
  BY <1>1, <1>2, <1>3, GotoStep
<1>5. /\ host' = host /\ UNCHANGED uplinkVars
      /\ UNCHANGED <<net, callbacks, port, inj>>
  BY DEF StopLink, uplinkVars
<1>6. TypeOK'
  <2>1. LinkOK'
    BY <1>1 DEF TypeOK, LinkOK, StopLink, NoClient
  <2>2. ConnOK'
    <3>1. server' = server
      BY DEF StopLink, serverVars
    <3>2. Closed \/ UNCHANGED connVars
      BY DEF StopLink
    <3> QED
      BY <1>1, <3>1, <3>2, ClosedTypes, LinkPartsKept DEF TypeOK
  <2>3. StopOK'
    <3>1. found' = (found \/ client.held) /\ client.held \in BOOLEAN
      BY <1>1 DEF StopLink, TypeOK, LinkOK
    <3> QED
      BY <1>1, <3>1 DEF TypeOK, StopOK, StopLink
  <2> QED
    BY <1>1, <2>1, <2>2, <2>3, LinkPartsKept DEF TypeOK, StopLink, serverVars
<1>7. ThreadsOK'
  BY <1>1, <1>5, ProcessKept
<1>8. Silent'
  BY <1>3, <1>4, <1>5 DEF Silent, Main
<1>9. NetLeft'
  BY <1>1, <1>2, <1>4, <1>5 DEF NetLeft
<1>10. PortOpen' /\ NothingCutShort'
  BY <1>1, <1>4 DEF PortOpen, NothingCutShort
<1>11. FirstShutdown'
  BY <1>1, <1>2, <1>3, <1>4, <1>5 DEF FirstShutdown
<1>12. Exiting'
  BY <1>1, <1>3, <1>4, <1>5 DEF Exiting, Settled
<1> QED
  BY <1>4, <1>6, <1>7, <1>8, <1>9, <1>10, <1>11, <1>12 DEF BridgeInv, BridgeTypeOK, Process

\* The other steps do not concern the link.
LEMMA LinkKept ==
    ASSUME TypeOK, UNCHANGED vars
    PROVE  TypeOK'
BY LinkPartsKept DEF TypeOK, vars, serverVars, connVars, stopVars

LEMMA StopInjectStep ==
    ASSUME BridgeInv, StopInject
    PROVE  BridgeInv'
<1> DEFINE others == UNION {frames[n].joins : n \in DOMAIN frames}
<1>1. /\ TypeOK /\ MainOK /\ ThreadsOK /\ Silent
      /\ Depth /\ NetLeft /\ FirstShutdown /\ Exiting
      /\ stage \in {"running", "exiting"} /\ callbacks
  BY InShutdown DEF StopInject, At
<1>2. /\ Main /\ frames # <<>> /\ Last(frames).at = "inject"
      /\ UNCHANGED vars /\ UNCHANGED <<net, callbacks, inj>>
      /\ \/ port \in {"open", "shut"} /\ port' = "shut"
            /\ Goto([at |-> "join", joins |-> Awaited \ others])
         \/ port \notin {"open", "shut"} /\ port' = port
            /\ Goto([at |-> "mqtt", joins |-> {}])
  BY DEF StopInject, At, Top
<1>3. signals = 0 => others = {}
  <2>1. frames \in Seq(Frame) /\ Len(frames) \in Nat \ {0} /\ DOMAIN frames = 1 .. Len(frames)
    BY <1>1, <1>2, EmptySeq, LenProperties DEF MainOK
  <2>2. signals = 0 => DOMAIN frames = {1} /\ Last(frames) = frames[1]
    BY <1>1, <2>1 DEF Depth, Last
  <2>3. signals = 0 => \A n \in DOMAIN frames : frames[n].joins = {}
    BY <1>1, <1>2, <2>2 DEF Depth
  <2> QED
    BY <2>3
<1>4. Awaited \ others \in SUBSET Injectors
  BY DEF Awaited
<1> HIDE DEF others
<1>5. PICK f \in Frame :
        /\ Goto(f) /\ (f.joins = {} \/ f.at = "join") /\ f.at \in {"join", "mqtt"}
        /\ f.at = "join" => port \in {"open", "shut"} /\ port' = "shut" /\ f.joins = Awaited \ others
        /\ f.at = "mqtt" => port \notin {"open", "shut"} /\ port' = port
  <2>1. CASE port \in {"open", "shut"}
    BY <1>2, <1>4, <2>1, FrameTypes
  <2>2. CASE port \notin {"open", "shut"}
    BY <1>2, <2>2, FrameTypes
  <2> QED
    BY <2>1, <2>2
<1>6. /\ MainOK' /\ Depth' /\ stage' = stage
      /\ frames' # <<>> /\ Last(frames') = f
      /\ inFinally' = inFinally /\ signals' = signals
      /\ \A n \in DOMAIN frames' :
           frames'[n] = f \/ (n \in DOMAIN frames /\ frames'[n] = frames[n])
  BY <1>1, <1>2, <1>5, GotoStep
<1>7. TypeOK'
  BY <1>1, <1>2, LinkKept
<1>8. ThreadsOK'
  BY <1>1, <1>2, <1>5 DEF ThreadsOK
<1>9. UNCHANGED <<host, stopper, found>>
  BY <1>2 DEF vars, stopVars
<1>10. Silent'
  BY <1>2, <1>6, <1>9 DEF Silent, Main
<1>11. NetLeft'
  BY <1>1, <1>2, <1>5, <1>6 DEF NetLeft
<1>12. PortOpen' /\ NothingCutShort'
  BY <1>1, <1>6 DEF PortOpen, NothingCutShort
<1>13. FirstShutdown'
  <2> SUFFICES ASSUME stage = "running", signals = 0
               PROVE  /\ inFinally /\ f.at = "join" /\ port' = "shut"
                      /\ \A i \in Injectors : inj[i] \in {"none", "closed"} \/ i \in f.joins
    BY <1>2, <1>6 DEF FirstShutdown
  <2>1. port = "open" /\ inFinally
    BY <1>1, <1>2 DEF FirstShutdown
  <2>2. f.at = "join" /\ port' = "shut" /\ f.joins = Awaited
    BY <1>3, <1>5, <2>1
  <2>3. \A i \in Injectors : inj[i] \in {"none", "closed"} \/ i \in Awaited
    BY <1>1 DEF ThreadsOK, Awaited
  <2> QED
    BY <2>1, <2>2, <2>3
<1>14. Exiting'
  BY <1>1, <1>2, <1>5, <1>6 DEF Exiting, Settled
<1> QED
  BY <1>6, <1>7, <1>8, <1>10, <1>11, <1>12, <1>13, <1>14 DEF BridgeInv, BridgeTypeOK, Process

LEMMA JoinedStep ==
    ASSUME BridgeInv, Joined
    PROVE  BridgeInv'
<1> DEFINE f == [at |-> "mqtt", joins |-> {}]
<1>1. /\ TypeOK /\ MainOK /\ ThreadsOK /\ Silent
      /\ Depth /\ NetLeft /\ FirstShutdown /\ Exiting
      /\ stage \in {"running", "exiting"} /\ callbacks
  BY InShutdown DEF Joined, At
<1>2. f \in Frame /\ f.at = "mqtt" /\ f.joins = {}
  BY FrameTypes
<1>3. /\ Goto(f) /\ Main /\ frames # <<>> /\ Last(frames).at = "join"
      /\ \A i \in Last(frames).joins : inj[i] = "closed"
      /\ port' = "gone" /\ UNCHANGED vars /\ UNCHANGED <<net, callbacks, inj>>
  BY DEF Joined, At, Top
<1> HIDE DEF f
<1>4. /\ MainOK' /\ Depth' /\ stage' = stage
      /\ frames' # <<>> /\ Last(frames') = f
      /\ inFinally' = inFinally /\ signals' = signals
      /\ \A n \in DOMAIN frames' :
           frames'[n] = f \/ (n \in DOMAIN frames /\ frames'[n] = frames[n])
  BY <1>1, <1>2, <1>3, GotoStep
<1>5. TypeOK'
  BY <1>1, <1>3, LinkKept
<1>6. ThreadsOK'
  BY <1>1, <1>3 DEF ThreadsOK
<1>7. UNCHANGED <<host, stopper, found>>
  BY <1>3 DEF vars, stopVars
<1>8. Silent'
  BY <1>3, <1>4, <1>7 DEF Silent, Main
<1>9. NetLeft'
  BY <1>1, <1>2, <1>3, <1>4 DEF NetLeft
<1>10. PortOpen' /\ NothingCutShort'
  BY <1>1, <1>4 DEF PortOpen, NothingCutShort
<1>11. FirstShutdown'
  <2> SUFFICES ASSUME stage = "running", signals = 0
               PROVE  inFinally /\ \A i \in Injectors : inj[i] \in {"none", "closed"}
    BY <1>2, <1>3, <1>4 DEF FirstShutdown, Settled
  <2> QED
    BY <1>1, <1>3 DEF FirstShutdown
<1>12. Exiting'
  BY <1>1, <1>3, <1>4 DEF Exiting, Settled
<1> QED
  BY <1>4, <1>5, <1>6, <1>8, <1>9, <1>10, <1>11, <1>12 DEF BridgeInv, BridgeTypeOK, Process

\* The network thread is asked to leave, or has left.
LEMMA StopMqttStep ==
    ASSUME BridgeInv, StopMqtt
    PROVE  BridgeInv'
<1> DEFINE f == [at |-> "last", joins |-> {}]
<1>1. /\ TypeOK /\ MainOK /\ ThreadsOK /\ Silent
      /\ Depth /\ NetLeft /\ FirstShutdown /\ Exiting
      /\ stage \in {"running", "exiting"} /\ callbacks
  BY InShutdown DEF StopMqtt, At
<1>2. f \in Frame /\ f.at = "last" /\ f.joins = {}
  BY FrameTypes
<1>3. /\ Main /\ frames # <<>> /\ Last(frames).at = "mqtt"
      /\ UNCHANGED vars /\ UNCHANGED <<callbacks, port, inj>>
      /\ \/ net = "busy" /\ net' = "leaving" /\ UNCHANGED mainVars
         \/ /\ net \in {"none", "idle", "joined"}
            /\ net' = (IF net = "idle" THEN "joined" ELSE net) /\ Goto(f)
  BY DEF StopMqtt, At, Top
<1> HIDE DEF f
<1>4. TypeOK' /\ UNCHANGED <<host, stopper, found>>
  BY <1>1, <1>3, LinkKept DEF vars, stopVars
<1>5. ThreadsOK'
  BY <1>1, <1>3 DEF ThreadsOK
<1>6. CASE net = "busy" /\ net' = "leaving" /\ UNCHANGED mainVars
  <2>1. UNCHANGED <<stage, frames, inFinally, signals>>
    BY <1>6 DEF mainVars
  <2>2. MainOK'
    BY <1>1, <1>6, ProcessKept
  <2>3. Depth' /\ Silent'
    BY <1>1, <1>3, <1>4, <2>1 DEF Depth, Silent, Main
  <2>4. NetLeft' /\ PortOpen' /\ NothingCutShort'
    BY <1>1, <1>3, <1>6, <2>1 DEF NetLeft, PortOpen, NothingCutShort
  <2>5. FirstShutdown' /\ Exiting'
    BY <1>1, <1>3, <2>1 DEF FirstShutdown, Exiting, Settled
  <2> QED
    BY <1>4, <1>5, <2>2, <2>3, <2>4, <2>5 DEF BridgeInv, BridgeTypeOK, Process
<1>7. CASE net \in {"none", "idle", "joined"}
  <2>1. net' \in {"none", "joined"} /\ (net \in {"none", "joined"} => net' = net) /\ Goto(f)
    BY <1>3, <1>7
  <2>2. /\ MainOK' /\ Depth' /\ stage' = stage
        /\ frames' # <<>> /\ Last(frames') = f
        /\ inFinally' = inFinally /\ signals' = signals
    BY <1>1, <1>2, <1>3, <2>1, GotoStep
  <2>3. Silent'
    BY <1>3, <1>4, <2>2 DEF Silent, Main
  <2>4. NetLeft' /\ PortOpen' /\ NothingCutShort'
    BY <1>1, <1>3, <2>1, <2>2 DEF NetLeft, PortOpen, NothingCutShort
  <2>5. FirstShutdown'
    <3> SUFFICES ASSUME stage = "running", signals = 0
                 PROVE  inFinally /\ Settled /\ Settled'
      BY <1>2, <2>2 DEF FirstShutdown
    <3> QED
      BY <1>1, <1>3 DEF FirstShutdown, Settled
  <2>6. Exiting'
    BY <1>1, <1>3, <2>2 DEF Exiting, Settled
  <2> QED
    BY <1>4, <1>5, <2>2, <2>3, <2>4, <2>5, <2>6 DEF BridgeInv, BridgeTypeOK, Process
<1> QED
  BY <1>3, <1>6, <1>7

\* run_forever is over; its end begins a shutdown.
LEMMA LinkEndsStep ==
    ASSUME BridgeInv, LinkEnds
    PROVE  BridgeInv'
<1>1. /\ TypeOK /\ MainOK /\ ThreadsOK
      /\ NetLeft /\ FirstShutdown
  BY DEF BridgeInv, BridgeTypeOK, Process
<1>2. /\ Main /\ stage = "running" /\ frames = <<>>
      /\ frames' = <<Shutdown>> /\ inFinally' = TRUE
      /\ UNCHANGED <<vars, mode, stage, lockHeld, signals, uplinkVars>>
  BY DEF LinkEnds
<1>3. UNCHANGED <<host, stopper, found, net, callbacks, port, inj>>
  BY <1>2 DEF vars, stopVars, uplinkVars
<1>4. TypeOK' /\ ThreadsOK'
  BY <1>1, <1>2, LinkKept, ProcessKept
<1>5. /\ frames' \in Seq(Frame) /\ frames' # <<>> /\ Len(frames') = 1
      /\ Last(frames') = Shutdown /\ \A n \in DOMAIN frames' : frames'[n] = Shutdown
      /\ Shutdown.at = "link" /\ Shutdown.joins = {}
  BY <1>2, OneShutdown DEF Shutdown
<1>6. /\ signals \in Nat /\ signals' = signals
      /\ 1 <= signals + 1 /\ 1 <= MaxSignals + 1
  BY <1>1, <1>2, BridgeAssumption DEF MainOK
<1>7. MainOK' /\ Depth'
  BY <1>1, <1>2, <1>5, <1>6 DEF MainOK, Depth
<1>8. NetLeft' /\ PortOpen' /\ NothingCutShort'
  BY <1>1, <1>2, <1>3, <1>5 DEF NetLeft, PortOpen, NothingCutShort
<1>9. FirstShutdown' /\ Exiting'
  BY <1>1, <1>2, <1>3, <1>5 DEF FirstShutdown, Exiting
<1>10. Silent'
  BY <1>2, <1>3, <1>5 DEF Silent, Main
<1> QED
  BY <1>4, <1>7, <1>8, <1>9, <1>10 DEF BridgeInv, BridgeTypeOK, Process

\* sys.exit at the end of a shutdown.
LEMMA SysExitStep ==
    ASSUME BridgeInv, LastStep
    PROVE  BridgeInv'
<1>1. /\ TypeOK /\ MainOK /\ ThreadsOK /\ Silent
      /\ Depth /\ NetLeft /\ FirstShutdown /\ Exiting
      /\ stage \in {"running", "exiting"} /\ callbacks
      /\ \E n \in DOMAIN frames : frames[n] = Top
  BY InShutdown DEF LastStep, At
<1>2. /\ Main /\ frames # <<>> /\ Last(frames).at = "last"
      /\ UNCHANGED <<vars, mode, lockHeld, signals, uplinkVars>>
      /\ UNCHANGED <<host, stopper, found, net, callbacks, port, inj>>
  BY DEF LastStep, At, Top, vars, stopVars, uplinkVars
<1>3. net \in {"none", "joined"}
  BY <1>1, <1>2 DEF NetLeft, Top
<1>4. TypeOK' /\ ThreadsOK'
  BY <1>1, <1>2, LinkKept, ProcessKept
<1>5. /\ signals \in Nat /\ signals' = signals
      /\ 0 <= signals + 1 /\ 1 <= signals + 1 /\ 0 <= MaxSignals + 1 /\ 1 <= MaxSignals + 1
  BY <1>1, <1>2, BridgeAssumption DEF MainOK
<1>6. signals = 0 => Settled
  BY <1>1, <1>2 DEF FirstShutdown, Exiting
<1>7. CASE stage = "running" /\ ~inFinally
  <2>1. inFinally' = TRUE /\ frames' = <<Shutdown>> /\ stage' = stage
    BY <1>7 DEF LastStep
  <2>2. /\ frames' \in Seq(Frame) /\ frames' # <<>> /\ Len(frames') = 1
        /\ \A n \in DOMAIN frames' : frames'[n] = Shutdown
        /\ Shutdown.at = "link" /\ Shutdown.joins = {}
    BY <2>1, OneShutdown DEF Shutdown
  <2>3. MainOK' /\ Depth'
    BY <1>1, <1>2, <1>5, <2>1, <2>2 DEF MainOK, Depth
  <2>4. NetLeft' /\ PortOpen' /\ NothingCutShort'
    BY <1>1, <1>2, <1>7, <2>1, <2>2 DEF NetLeft, PortOpen, NothingCutShort
  <2>5. FirstShutdown' /\ Exiting'
    BY <1>1, <1>2, <1>7, <2>1 DEF FirstShutdown, Exiting
  <2>6. Silent'
    BY <1>2, <2>2 DEF Silent, Main
  <2> QED
    BY <1>4, <2>3, <2>4, <2>5, <2>6 DEF BridgeInv, BridgeTypeOK, Process
<1>8. CASE stage = "exiting" \/ inFinally
  <2>1. /\ frames' = <<>> /\ inFinally' = inFinally
        /\ \/ stage = "exiting" /\ stage' = "ended"
           \/ stage = "running" /\ stage' = "exiting"
    BY <1>1, <1>8 DEF LastStep
  <2>2. frames' \in Seq(Frame) /\ Len(frames') = 0 /\ DOMAIN frames' = {}
    BY <2>1, OneShutdown
  <2>3. MainOK' /\ Depth'
    BY <1>1, <1>2, <1>5, <2>1, <2>2 DEF MainOK, Depth
  <2>4. NetLeft' /\ PortOpen'
    BY <1>1, <1>2, <1>3, <2>1, <2>2 DEF NetLeft, PortOpen
  <2>5. FirstShutdown' /\ Exiting'
    BY <1>2, <1>6, <2>1 DEF FirstShutdown, Exiting, Settled
  <2>6. Silent'
    BY <1>2, <2>1 DEF Silent, Main
  <2>7. NothingCutShort'
    <3> SUFFICES ASSUME stage = "exiting", signals <= 1
                 PROVE  \A i \in Injectors : inj[i] # "busy"
      BY <1>2, <1>3, <2>1 DEF NothingCutShort
    <3>1. signals = 0 \/ (signals = 1 /\ frames # <<>>)
      BY <1>2, <1>5
    <3> QED
      BY <1>1, <3>1 DEF Exiting, Settled
  <2> QED
    BY <1>4, <2>3, <2>4, <2>5, <2>6, <2>7 DEF BridgeInv, BridgeTypeOK, Process
<1> QED
  BY <1>1, <1>7, <1>8 DEF MainOK

\* The interpreter has waited, or the start has failed.
LEMMA ExitStep ==
    ASSUME BridgeInv, Exit
    PROVE  BridgeInv'
<1>1. /\ TypeOK /\ MainOK /\ ThreadsOK /\ Silent
      /\ Depth /\ NetLeft /\ PortOpen
  BY DEF BridgeInv, BridgeTypeOK, Process
<1>2. /\ Main /\ stage \in {"failed", "exiting"} /\ frames = <<>>
      /\ Awaited = {} \/ signals > 1
      /\ stage' = "ended" /\ UNCHANGED <<mode, frames, inFinally, lockHeld, signals>>
      /\ UNCHANGED <<vars, uplinkVars>>
      /\ UNCHANGED <<host, stopper, found, net, callbacks, port, inj>>
  BY DEF Exit, Go, vars, stopVars, uplinkVars
<1>3. TypeOK' /\ ThreadsOK'
  BY <1>1, <1>2, LinkKept, ProcessKept
<1>4. MainOK' /\ Depth' /\ PortOpen'
  BY <1>1, <1>2 DEF MainOK, Depth, PortOpen
<1>5. net \in {"none", "idle", "joined"}
  BY <1>1, <1>2 DEF NetLeft
<1>6. NetLeft'
  BY <1>1, <1>2 DEF NetLeft
<1>7. Silent' /\ FirstShutdown' /\ Exiting'
  BY <1>2 DEF Silent, Main, FirstShutdown, Exiting
<1>8. NothingCutShort'
  <2>1. signals \in Nat
    BY <1>1, BridgeAssumption DEF MainOK
  <2>2. signals <= 1 => \A i \in Injectors : inj[i] # "busy"
    BY <1>2, <2>1 DEF Awaited
  <2> QED
    BY <1>2, <1>5, <2>2 DEF NothingCutShort
<1> QED
  BY <1>3, <1>4, <1>6, <1>7, <1>8 DEF BridgeInv, BridgeTypeOK, Process

LEMMA EndingStep ==
    ASSUME BridgeInv, Ending
    PROVE  BridgeInv'
BY LinkEndsStep, StopLinkStep, StopInjectStep, JoinedStep, StopMqttStep, SysExitStep, ExitStep
   DEF Ending

-----------------------------------------------------------------------------
\* A connection to the injection port.
LEMMA InjectStep ==
    ASSUME BridgeInv, NEW i \in Injectors, Inject(i)
    PROVE  BridgeInv'
<1>1. /\ TypeOK /\ MainOK /\ ThreadsOK /\ Silent /\ Process
      /\ Depth /\ NetLeft /\ PortOpen /\ FirstShutdown /\ Exiting
  BY DEF BridgeInv, BridgeTypeOK, Process
<1>2. /\ Main /\ stage \notin {"ended", "killed"}
      /\ UNCHANGED <<vars, mainVars, net, callbacks, port>>
      /\ UNCHANGED <<host, t, client, stopper, found, stage, frames, inFinally, signals>>
  BY DEF Inject, InjectOpens, InjectLine, InjectDone, InjectCloses, Alive,
         vars, stopVars, linkVars, mainVars
<1>3. PICK st \in {"open", "busy", "closed"} :
        /\ Set(i, st)
        /\ \/ port = "open" /\ inj[i] = "none"
           \/ inj[i] \in {"open", "busy"}
  BY DEF Inject, InjectOpens, InjectLine, InjectDone, InjectCloses
<1>4. /\ inj' \in [Injectors -> {"none", "open", "busy", "closed"}]
      /\ inj' = [inj EXCEPT ![i] = st]
      /\ inj'[i] = st /\ \A j \in Injectors : j # i => inj'[j] = inj[j]
  BY <1>1, <1>3 DEF ThreadsOK, Set
<1>5. TypeOK' /\ MainOK'
  BY <1>1, <1>2, LinkKept, ProcessKept
<1>6. ThreadsOK'
  <2>1. port # "none"
    BY <1>1, <1>3 DEF ThreadsOK
  <2> QED
    BY <1>1, <1>2, <1>4, <2>1 DEF ThreadsOK
<1>7. Silent' /\ Depth' /\ NetLeft' /\ PortOpen' /\ NothingCutShort'
  BY <1>1, <1>2 DEF Silent, Depth, NetLeft, PortOpen, NothingCutShort
<1>8. ~Settled
  BY <1>3 DEF Settled
<1>9. Exiting'
  BY <1>1, <1>2, <1>8 DEF Exiting
<1>10. FirstShutdown'
  <2> SUFFICES ASSUME stage = "running", signals = 0, frames # <<>>, Last(frames).at = "join"
               PROVE  \A j \in Injectors : inj'[j] \in {"none", "closed"} \/ j \in Last(frames).joins
    BY <1>1, <1>2, <1>8 DEF FirstShutdown
  <2>1. /\ port = "shut"
        /\ \A j \in Injectors : inj[j] \in {"none", "closed"} \/ j \in Last(frames).joins
    BY <1>1 DEF FirstShutdown
  <2>2. i \in Last(frames).joins
    BY <1>3, <2>1
  <2> QED
    BY <1>4, <2>1, <2>2
<1> QED
  BY <1>5, <1>6, <1>7, <1>9, <1>10 DEF BridgeInv, BridgeTypeOK, Process

\* The network thread of the MQTT client.
LEMMA NetworkStep ==
    ASSUME BridgeInv, Network
    PROVE  BridgeInv'
<1>1. /\ TypeOK /\ MainOK /\ ThreadsOK /\ Silent
      /\ Depth /\ NetLeft /\ PortOpen /\ FirstShutdown /\ Exiting
  BY DEF BridgeInv, BridgeTypeOK, Process
<1>2. /\ Main /\ stage \notin {"ended", "killed"}
      /\ UNCHANGED <<vars, mainVars, callbacks, port, inj>>
      /\ UNCHANGED <<host, t, client, stopper, found, stage, frames, inFinally, signals>>
  BY DEF Network, NetMessage, NetDone, Alive, vars, stopVars, linkVars, mainVars
<1>3. \/ net = "idle" /\ callbacks /\ net' = "busy"
      \/ net = "busy" /\ net' = "idle"
      \/ net = "leaving" /\ net' = "joined"
  BY DEF Network, NetMessage, NetDone
<1>4. TypeOK' /\ MainOK'
  BY <1>1, <1>2, LinkKept, ProcessKept
<1>5. ThreadsOK'
  BY <1>1, <1>2, <1>3 DEF ThreadsOK
<1>6. NetLeft'
  BY <1>1, <1>2, <1>3 DEF NetLeft
<1>7. Silent' /\ Depth' /\ PortOpen' /\ NothingCutShort'
  BY <1>1, <1>2 DEF Silent, Depth, PortOpen, NothingCutShort
<1>8. FirstShutdown' /\ Exiting'
  BY <1>1, <1>2 DEF FirstShutdown, Exiting, Settled
<1> QED
  BY <1>4, <1>5, <1>6, <1>7, <1>8 DEF BridgeInv, BridgeTypeOK, Process

-----------------------------------------------------------------------------
\* What the link does of itself leaves a stopped client silent: no handler is made any
\* more, and a replacement of the client hears nothing.
LEMMA LinkSilent ==
    ASSUME TypeOK, Silent, Link, UNCHANGED mainVars
    PROVE  Silent'
<1>1. UNCHANGED <<host, stopper, found, frames, stage>>
  BY DEF Link, MakeHandler, Wait, MakeClient, Retry, ConnectSucceeds, ConnectFails, Subscribe,
         SubscribeFails, Enter, Receive, Eof, Quit, Dropped, stopVars, mainVars
<1>2. CASE host # "receiver"
  BY <1>1, <1>2 DEF Silent
<1> SUFFICES ASSUME host = "receiver"
             PROVE  /\ found => (client'.quits \/ ~client'.hears) /\ t' # "made"
                    /\ t' = "made" => ~client'.held
  BY <1>1, <1>2 DEF Silent
<1>3. found => (client.quits \/ ~client.hears) /\ stopper # "idle" /\ t # "made"
  BY DEF Silent
<1>4. CASE MakeHandler
  BY <1>3, <1>4 DEF MakeHandler, NoClient
<1>5. CASE MakeClient
  BY <1>3, <1>5 DEF MakeClient
<1>6. CASE Retry
  BY <1>3, <1>6, ReplacementMute DEF Retry
<1>7. CASE ConnectFails \/ SubscribeFails
  <2>1. client' = client /\ (Failed \/ Raised)
    BY <1>7 DEF ConnectFails, SubscribeFails
  <2>2. t' # "made"
    BY <2>1 DEF Failed, RunForeverEnds, Afterwards, Raised
  <2> QED
    BY <1>3, <2>1, <2>2
<1>8. CASE ~(MakeHandler \/ MakeClient \/ Retry \/ ConnectFails \/ SubscribeFails)
  <2>1. client' = client /\ t' # "made"
    BY <1>3, <1>8 DEF Link, Wait, ConnectSucceeds, Subscribe, Enter, Receive, Eof, Quit, Dropped,
                      Raised, Afterwards, RunForeverEnds, linkVars
  <2> QED
    BY <1>3, <2>1
<1> QED
  BY <1>4, <1>5, <1>6, <1>7, <1>8

LEMMA LinkGoesOn ==
    ASSUME BridgeInv, LinkStep
    PROVE  BridgeInv'
<1>1. TypeOK /\ MainOK /\ ThreadsOK /\ Silent /\ Process
  BY DEF BridgeInv, BridgeTypeOK
<1>2. Link /\ UNCHANGED <<mainVars, uplinkVars>>
  BY DEF LinkStep
<1>3. TypeOK' /\ MainOK' /\ ThreadsOK' /\ Process'
  BY <1>1, <1>2, LinkTypes, ProcessKept
<1>4. Silent'
  BY <1>1, <1>2, LinkSilent
<1> QED
  BY <1>3, <1>4 DEF BridgeInv, BridgeTypeOK

LEMMA AroundStep ==
    ASSUME BridgeInv, Around
    PROVE  BridgeInv'
<1>1. TypeOK /\ MainOK /\ ThreadsOK /\ Silent /\ Process
  BY DEF BridgeInv, BridgeTypeOK
<1>2. (Stop \/ StopCloses \/ Environment) /\ UNCHANGED <<mainVars, uplinkVars>>
  BY DEF Around
<1>3. TypeOK' /\ MainOK' /\ ThreadsOK' /\ Process'
  BY <1>1, <1>2, AroundTypes, ProcessKept
<1>4. Silent'
  <2>1. UNCHANGED <<host, t, frames, stage>>
    BY <1>2 DEF Stop, StopCloses, Environment, Publish, Lose, GoDown, ComeUp, linkVars, mainVars
  <2>2. client \in [held : BOOLEAN, hears : BOOLEAN, quits : BOOLEAN]
    BY <1>1 DEF TypeOK, LinkOK
  <2>3. CASE Stop
    <3>1. CASE client.held
      <4>1. found' = TRUE /\ client'.quits /\ client'.held = client.held /\ stopper' = "closing"
        BY <2>2, <2>3, <3>1 DEF Stop
      <4> QED
        BY <1>1, <2>1, <2>3, <3>1, <4>1 DEF Silent, Stop
    <3>2. CASE ~client.held
      <4>1. UNCHANGED <<found, client>> /\ stopper' = "closed" /\ host = "receiver"
        BY <2>3, <3>2 DEF Stop
      <4> QED
        BY <1>1, <2>1, <4>1 DEF Silent
    <3> QED
      BY <3>1, <3>2
  <2>4. CASE StopCloses
    <3>1. /\ client'.held = FALSE /\ client'.hears = client.hears /\ client'.quits = client.quits
          /\ found' = found /\ stopper' = "closed" /\ host = "receiver"
      BY <2>2, <2>4 DEF StopCloses
    <3> QED
      BY <1>1, <2>1, <3>1 DEF Silent
  <2>5. CASE Environment
    <3>1. UNCHANGED <<client, found, stopper>>
      BY <2>5 DEF Environment, Publish, Lose, GoDown, ComeUp, stopVars
    <3> QED
      BY <1>1, <2>1, <3>1 DEF Silent
  <2> QED
    BY <1>2, <2>3, <2>4, <2>5
<1> QED
  BY <1>3, <1>4 DEF BridgeInv, BridgeTypeOK

-----------------------------------------------------------------------------
LEMMA BridgeStarts ==
    ASSUME BridgeInit
    PROVE  BridgeInv
<1>1. Init /\ stage = "mqtt" /\ frames = <<>> /\ inFinally = FALSE
      /\ lockHeld = FALSE /\ signals = 0 /\ net = "none" /\ callbacks = FALSE /\ port = "none"
      /\ inj = [i \in Injectors |-> "none"] /\ mode \in {"full", "uplink", "offline"}
  BY DEF BridgeInit
<1>2. /\ 0 \in 0 .. MaxRetries - 1 /\ 0 \in 0 .. MaxPublish /\ 0 \in 0 .. MaxLoss
      /\ 0 \in 0 .. MaxSignals /\ 0 <= 0 + 1 /\ 0 <= MaxSignals + 1
      /\ <<>> \in Seq(Chunk) /\ <<>> \in Seq(1 .. MaxPublish) /\ <<>> \in Seq(Frame)
      /\ Len(<<>>) = 0 /\ DOMAIN <<>> = {}
  BY PubSubLinkAssumption, BridgeAssumption, EmptySeq, OneShutdown
<1>3. LinkOK
  BY <1>1, <1>2 DEF Init, LinkOK, NoClient
<1>4. ConnOK /\ CountsOK /\ StopOK
  BY <1>1, <1>2 DEF Init, ConnOK, CountsOK, StopOK
<1>5. MainOK /\ Depth
  BY <1>1, <1>2, StartupSet DEF MainOK, Depth
<1>6. ThreadsOK
  BY <1>1 DEF ThreadsOK
<1>7. Silent
  BY <1>1 DEF Init, Silent
<1>8. NetLeft /\ PortOpen /\ FirstShutdown /\ Exiting /\ NothingCutShort
  BY <1>1, <1>2 DEF NetLeft, PortOpen, FirstShutdown, Exiting, NothingCutShort
<1> QED
  BY <1>3, <1>4, <1>5, <1>6, <1>7, <1>8 DEF BridgeInv, BridgeTypeOK, TypeOK, Process

LEMMA BridgeStep ==
    ASSUME BridgeInv, [BridgeNext]_allVars
    PROVE  BridgeInv'
<1>1. CASE UNCHANGED allVars
  <2>1. UNCHANGED <<vars, mainVars, uplinkVars>>
    BY <1>1 DEF allVars
  <2>2. UNCHANGED <<host, t, client, stopper, found, stage, frames>>
    BY <2>1 DEF vars, linkVars, stopVars, mainVars
  <2>3. Silent'
    BY <2>2 DEF BridgeInv, Silent
  <2> QED
    BY <2>1, <2>3, LinkKept, ProcessKept DEF BridgeInv, BridgeTypeOK
<1> QED
  BY <1>1, StartingStep, LinkGoesOn, SignalStep, EndingStep, InjectStep, NetworkStep, AroundStep
     DEF BridgeNext

\* The inductive invariant: the state keeps its shape, a client that was stopped is silent,
\* and what a shutdown has passed it has waited for (main, PubSubHandler.stop,
\* TcpInjectServer.stop, MQTTHandler.disconnect).
THEOREM BridgeInvariant == BridgeSpec => []BridgeInv
<1>1. BridgeInit => BridgeInv
  BY BridgeStarts
<1>2. BridgeInv /\ [BridgeNext]_allVars => BridgeInv'
  BY BridgeStep
<1> QED
  BY <1>1, <1>2, PTL DEF BridgeSpec

\* The bridge and its link keep their types; there are never more shutdowns in progress
\* than signals and one (main, run_forever).
THEOREM TypesKept == BridgeSpec => []BridgeTypeOK
<1>1. BridgeInv => BridgeTypeOK
  BY DEF BridgeInv
<1> QED
  BY <1>1, BridgeInvariant, PTL

\* An orderly end cuts no message short: neither the network thread nor one of the
\* injection port was in the pipeline when the process ended (shutdown,
\* TcpInjectServer.stop, MQTTHandler.disconnect).
THEOREM OrderlyEnd == BridgeSpec => []NothingCutShort
<1>1. BridgeInv => NothingCutShort
  BY DEF BridgeInv, Process
<1> QED
  BY <1>1, BridgeInvariant, PTL

\* The only step that hands a command over is one of the running link with a client that
\* hears, which a stop that has returned has left neither host.
LEMMA NothingHandled ==
    ASSUME BridgeInv, [BridgeNext]_allVars, stopper = "closed", found
    PROVE  handled' = handled
<1>1. TypeOK /\ Silent
  BY DEF BridgeInv, BridgeTypeOK
<1>2. CASE LinkStep
  <2>1. Link
    BY <1>2 DEF LinkStep
  <2>2. host = "receiver"
    BY <1>1, <1>2 DEF LinkStep, Silent, TypeOK, StopOK, Main
  <2>3. client.quits \/ ~client.hears
    BY <1>1, <2>2 DEF Silent
  <2>4. CASE Receive
    BY <2>3, <2>4 DEF Receive
  <2> QED
    BY <2>1, <2>4 DEF Link, MakeHandler, Wait, MakeClient, Retry, ConnectSucceeds, ConnectFails,
                      Subscribe, SubscribeFails, Enter, Eof, Quit, Dropped
<1>3. CASE Starting
  BY <1>3 DEF Starting, StartMqtt, StartServices, StartInject, StartBusiness, Linked, SetCallbacks, vars
<1>4. CASE Signal
  BY <1>4 DEF Signal
<1>5. CASE Ending
  BY <1>5 DEF Ending, LinkEnds, StopLink, StopInject, Joined, StopMqtt, LastStep, Exit, vars
<1>6. CASE (\E i \in Injectors : Inject(i)) \/ Network
  BY <1>6 DEF Inject, Network, vars
<1>7. CASE Around
  BY <1>7 DEF Around, Stop, StopCloses, Environment, Publish, Lose, GoDown, ComeUp
<1>8. CASE UNCHANGED allVars
  BY <1>8 DEF allVars, vars
<1> QED
  BY <1>2, <1>3, <1>4, <1>5, <1>6, <1>7, <1>8 DEF BridgeNext

\* Once a stop that found a client has returned, no command is handled any more, in the
\* bridge and in the receiver (PubSubHandler.stop, Client.close).
THEOREM StopIsSilent == BridgeSpec => StopSilences
<1>1. BridgeInv /\ [BridgeNext]_allVars
        => [stopper = "closed" /\ found => handled' = handled]_vars
  BY NothingHandled
<1> QED
  BY <1>1, BridgeInvariant, PTL DEF BridgeSpec, StopSilences
=============================================================================
