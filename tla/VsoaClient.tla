----------------------------- MODULE VsoaClient -----------------------------
(***************************************************************************)
(* A client of the VSOA SDK (vsoa/client.py) that runs as a robot, and the *)
(* server it talks to.  Three kinds of thread share the client:            *)
(*   - callers of fetch, which block until their callback wakes them, and  *)
(*     of call, which do not block;                                        *)
(*   - the robot thread: connect, event loop, keep-alive pings, reconnect; *)
(*   - the timer thread of the SDK, which ages the pending requests.       *)
(* A request is prepared (its number taken) in one locked section and sent *)
(* and made pending in another, after a look at `connected' without the    *)
(* lock; everything else may happen in between.                            *)
(*                                                                         *)
(* Left out: streams, TLS, the quick (UDP) channel, datagrams, and requests*)
(* without a callback, whose numbers are never pending.  Bytes, framing and*)
(* what is received by a subscriber are the subject of PubSubLink.         *)
(***************************************************************************)
EXTENDS Integers, Sequences, FiniteSets

CONSTANTS Threads,     \* threads that fetch, one request after the other
          MaxFetch,    \* bound of the model: fetches of a thread
          Calls,       \* requests made by call, each once
          Ping,        \* the keep-alive pings of the robot
          Space,       \* size of the number space: 0x10000 in the code
          Patience,    \* timeout of an RPC, in ticks of the SDK's timer
          KeepAlive,   \* time between pings and timeout of a ping, in ticks
          MaxPingLost  \* CLIENT_AUTO_MAX_PING_LOST

Fetches == Threads \X (1 .. MaxFetch)
Requests == Fetches \cup Calls
None == <<>>

ASSUME VsoaClientAssumption ==
    /\ Calls \cap Fetches = {}
    /\ {Ping, None} \cap Requests = {}
    /\ Space \in Nat \ {0, 1}
    /\ {Patience, KeepAlive} \subseteq Nat \ {0}
    /\ {MaxFetch, MaxPingLost} \subseteq Nat

VARIABLES connected, \* Client.__connected
          sock,      \* "none", "open", "hung": open to a server that has gone silent,
                     \* or "ended": shut down by either side
          listed,    \* the client is in client_list: the timer ticks it
          loop,      \* where the robot thread is
          pendings,  \* __pendings
          seqno,     \* __seqno
          emitted,   \* the event pipe is readable
          pingLost,  \* ClientAuto.ping_lost
          stage,     \* where a request is
          number,    \* the number a request took
          event,     \* per thread: the event its fetches wait for
          reply,     \* the request whose reply the callback was given
          called,    \* history: how often the callback was called
          asked,     \* requests the server has and has not answered
          inbox      \* replies on their way to the client

clientVars == <<connected, sock, listed>>
robotVars == <<loop, pingLost>>
callerVars == <<stage, number>>
callbackVars == <<event, reply, called>>
peerVars == <<asked, inbox>>
vars == <<connected, sock, listed, loop, pendings, seqno, emitted, pingLost,
          stage, number, event, reply, called, asked, inbox>>

Numbers == 0 .. Space - 1
Pending == [req : Requests \cup {Ping}, seq : Numbers,
            alive : 0 .. (Patience + KeepAlive), live : BOOLEAN]
Wire == [req : Requests \cup {Ping}, seq : Numbers]

TypeOK ==
    /\ {connected, listed, emitted} \subseteq BOOLEAN
    /\ sock \in {"none", "open", "hung", "ended"}
    /\ loop \in {"connect", "loop", "down", "exited"}
    /\ pendings \in Seq(Pending) /\ Len(pendings) <= Space
    /\ seqno \in Numbers /\ number \in [Requests -> Numbers]
    /\ pingLost \in 0 .. MaxPingLost + 1
    /\ stage \in [Requests -> {"new", "prepared", "sent", "returned"}]
    /\ event \in [Threads -> BOOLEAN]
    /\ reply \in [Requests -> Requests \cup {Ping, None}]
    /\ called \in [Requests -> Nat]
    /\ asked \subseteq Wire /\ inbox \in Seq(Wire)
    /\ (loop = "loop") => connected

Init ==
    /\ connected = FALSE /\ sock = "none" /\ listed = TRUE
    /\ loop = "connect" /\ pendings = <<>> /\ emitted = FALSE
    /\ seqno = Space - 1     \* about to wrap
    /\ pingLost = 0
    /\ stage = [q \in Requests |-> "new"]
    /\ number = [q \in Requests |-> 0]
    /\ event = [t \in Threads |-> FALSE]
    /\ reply = [q \in Requests |-> None]
    /\ called = [q \in Requests |-> 0]
    /\ asked = {} /\ inbox = <<>>

-----------------------------------------------------------------------------
InUse == {pendings[i].seq : i \in DOMAIN pendings}

\* The number a request gets: the next one that no pending request has; when none of
\* the Space - 1 numbers tried is free, the last one tried.
FreeAfter(n) ==
    LET free == {k \in 0 .. Space - 2 : (n + k) % Space \notin InUse}
        k == IF free = {} THEN Space - 2 ELSE CHOOSE k \in free : \A l \in free : k <= l
    IN (n + k) % Space

NextUnmasked(n) == n + 1     \* a slip: no mask
NumberAfter(n) == (n + 1) % Space

\* The callbacks of the requests in S are called with their replies r: a fetch has its
\* event set, and the result it finds is r.
CallBack(S, r) ==
    /\ called' = [q \in Requests |-> IF q \in S THEN called[q] + 1 ELSE called[q]]
    /\ reply' = [q \in Requests |-> IF q \in S THEN r ELSE reply[q]]
    /\ event' = [t \in Threads |-> event[t] \/ \E q \in S \cap Fetches : q[1] = t]

\* The requests pending at the places I whose callback is still there.
Live(I) == {pendings[i].req : i \in {j \in I : pendings[j].live}} \ {Ping}

\* The pending requests at the places I stay, in their order.
KeepOnly(I) ==
    \E at \in [1 .. Cardinality(I) -> I] :
      /\ \A j, k \in DOMAIN at : j < k => at[j] < at[k]
      /\ pendings' = [k \in DOMAIN at |-> pendings[at[k]]]

\* __ptimeout: the list is emptied and every RPC in it is told.  A ping is not.
PendingsTimeout == pendings' = <<>> /\ CallBack(Live(DOMAIN pendings), None)

-----------------------------------------------------------------------------
\* Requests a thread may start: a fetch after the thread's fetch before it.
MayStart(q) ==
    /\ stage[q] = "new"
    /\ q \in Fetches /\ q[2] > 1 => stage[<<q[1], q[2] - 1>>] = "returned"

\* event.clear(), before the request of a fetch is made.
ClearEvent(q) == event' = [t \in Threads |-> event[t] /\ ~(q \in Fetches /\ q[1] = t)]

\* The replies on their way.
InTransit == {inbox[i] : i \in DOMAIN inbox}

\* Assumed of a space of 65536 numbers: it does not go round between the two locked
\* sections of a request, nor while the server may still answer an old request.
NotLapped(n) ==
    /\ \A q \in Requests : stage[q] = "prepared" => number[q] # n
    /\ \A w \in asked \cup InTransit : w.seq # n

\* fetch and call up to the first locked section: connected, room among the pending
\* requests, event cleared, number taken.  A request that is refused leaves no trace.
Prepare(q) ==
    /\ MayStart(q) /\ connected /\ Len(pendings) < Space - 1
    /\ NotLapped(FreeAfter(seqno))
    /\ stage' = [stage EXCEPT ![q] = "prepared"]
    /\ number' = [number EXCEPT ![q] = FreeAfter(seqno)]
    /\ seqno' = NumberAfter(FreeAfter(seqno))
    /\ ClearEvent(q)
    /\ UNCHANGED <<clientVars, robotVars, pendings, emitted, reply, called, peerVars>>

\* The second locked section: the packet is sent, whatever comes of it, and the request
\* is pending, even when the connection was lost since `connected' was looked at.
Send(q) ==
    /\ stage[q] = "prepared"
    /\ stage' = [stage EXCEPT ![q] = "sent"]
    /\ pendings' = Append(pendings, [req |-> q, seq |-> number[q], alive |-> Patience, live |-> TRUE])
    /\ number' = [number EXCEPT ![q] = 0]
    /\ asked' = IF sock = "open" THEN asked \cup {[req |-> q, seq |-> number[q]]} ELSE asked
    /\ UNCHANGED <<clientVars, robotVars, seqno, emitted, callbackVars, inbox>>

\* event.wait() returns; fetch answers with what the callback left.
FetchReturn(q) ==
    /\ q \in Fetches /\ stage[q] = "sent" /\ event[q[1]]
    /\ stage' = [stage EXCEPT ![q] = "returned"]
    /\ UNCHANGED <<clientVars, robotVars, pendings, seqno, emitted, number, callbackVars, peerVars>>

-----------------------------------------------------------------------------
Due(p) == p.alive <= 1

WakesLoop(p) == Due(p)

AgedKeepsCallback(p) ==     \* a slip: the fetch that was told keeps its callback
    [p EXCEPT !.alive = IF @ > 1 THEN @ - 1 ELSE 0]

\* Pending.timer, and the loss of its callback by a fetch that is due.
Aged(p) == [p EXCEPT !.alive = IF @ > 1 THEN @ - 1 ELSE 0,
                     !.live = @ /\ ~(Due(p) /\ p.req \in Fetches)]

ToldByNoTimer == {}     \* a slip: fetches are left to the loop like other requests
ToldByTimer == Live({i \in DOMAIN pendings : Due(pendings[i])}) \cap Fetches

\* The timer thread (_ptimer): every pending request ages; one that is due wakes the
\* loop, at every tick; a fetch that is due is told here, whatever the loop is doing.
Tick ==
    /\ listed
    /\ pendings' = [i \in DOMAIN pendings |-> Aged(pendings[i])]
    /\ emitted' = (emitted \/ \E i \in DOMAIN pendings : WakesLoop(pendings[i]))
    /\ CallBack(ToldByTimer, None)
    /\ UNCHANGED <<clientVars, robotVars, seqno, callerVars, peerVars>>

-----------------------------------------------------------------------------
\* A connection is made; a failed attempt changes nothing.  What is pending stays.
Connect ==
    /\ loop = "connect"
    /\ connected' = TRUE /\ sock' = "open" /\ loop' = "loop"
    /\ pingLost' = 0 /\ asked' = {} /\ inbox' = <<>>
    /\ UNCHANGED <<listed, pendings, seqno, emitted, callerVars, callbackVars>>

\* A reply: the first request pending under its number is taken off, then called back.
LoopRecv ==
    /\ loop = "loop" /\ inbox # <<>>
    /\ \/ /\ Head(inbox).seq \notin InUse
          /\ UNCHANGED <<pendings, pingLost, callbackVars>>
       \/ \E i \in DOMAIN pendings :
             /\ pendings[i].seq = Head(inbox).seq
             /\ \A j \in 1 .. i - 1 : pendings[j].seq # Head(inbox).seq
             /\ KeepOnly(DOMAIN pendings \ {i})
             /\ CallBack(Live({i}), Head(inbox).req)
             /\ pingLost' = IF pendings[i].req = Ping THEN 0 ELSE pingLost
    /\ inbox' = Tail(inbox)
    /\ UNCHANGED <<clientVars, loop, seqno, emitted, callerVars, asked>>

\* __robot_idle, when nothing is to be read and a ping is due, which is when the ping
\* before it has timed out or is gone: its timeout is the period.  The ping takes a
\* number, is sent and is pending.  The server echoes it at once.
LoopIdle ==
    LET n == FreeAfter(seqno)
    IN
    /\ loop = "loop" /\ sock \in {"open", "hung"} /\ inbox = <<>>
    /\ \A i \in DOMAIN pendings : pendings[i].req = Ping => pendings[i].alive = 0
    /\ Len(pendings) < Space - 1
    /\ NotLapped(n)
    /\ seqno' = NumberAfter(n)
    /\ pendings' = Append(pendings, [req |-> Ping, seq |-> n, alive |-> KeepAlive, live |-> TRUE])
    /\ inbox' = IF sock = "open" THEN <<[req |-> Ping, seq |-> n]>> ELSE <<>>
    /\ UNCHANGED <<clientVars, robotVars, emitted, callerVars, callbackVars, asked>>

\* The requests that are due leave the list while it is walked: the one after a removed
\* one is passed over.
Removed ==
    LET out[i \in 0 .. Len(pendings)] ==
            i > 0 /\ pendings[i].alive = 0 /\ ~out[i - 1]
    IN {i \in DOMAIN pendings : out[i]}

LostNone(lost) == pingLost     \* a slip: a ping that is not answered counts for nothing
LostCount(lost) == IF pingLost + lost > MaxPingLost THEN MaxPingLost + 1 ELSE pingLost + lost

\* The event: what is due is removed and told; too many pings lost make the robot
\* disconnect: the socket is shut down and everything left is told.
LoopSweep ==
    LET lost == Cardinality({i \in Removed : pendings[i].req = Ping}) IN
    /\ loop = "loop" /\ emitted
    /\ emitted' = FALSE
    /\ pingLost' = LostCount(lost)
    /\ IF lost > 0 /\ pingLost' > MaxPingLost
       THEN sock' = "ended" /\ asked' = {} /\ PendingsTimeout
       ELSE /\ UNCHANGED <<sock, asked>>
            /\ KeepOnly(DOMAIN pendings \ Removed)
            /\ CallBack(Live(Removed), None)
    /\ UNCHANGED <<connected, listed, loop, seqno, callerVars,
                   inbox>>

\* The end of the stream: the socket is closed and every pending RPC told; `connected'
\* is cleared afterwards.
LoopEof ==
    /\ loop = "loop" /\ sock = "ended" /\ inbox = <<>>
    /\ sock' = "none" /\ loop' = "down"
    /\ PendingsTimeout
    /\ UNCHANGED <<connected, listed, seqno, emitted, pingLost, callerVars, peerVars>>

LoopDown ==
    /\ loop = "down"
    /\ connected' = FALSE /\ loop' = "connect"
    /\ UNCHANGED <<sock, listed, pendings, seqno, emitted, pingLost,
                   callerVars, callbackVars, peerVars>>

-----------------------------------------------------------------------------
\* Disconnect by any thread.
Disconnect ==
    /\ connected /\ sock \in {"open", "hung"}
    /\ sock' = "ended" /\ asked' = {}
    /\ PendingsTimeout
    /\ UNCHANGED <<connected, listed, robotVars, seqno, emitted, callerVars,
                   inbox>>

\* close by a thread that is not the robot: it asks the robot to leave (__tquit_req) and
\* joins it.  The robot leaves at the top of one of its loops and disconnects.
Close ==
    /\ loop \in {"connect", "loop"}
    /\ loop' = "exited"
    /\ IF loop = "loop"
       THEN sock' = "ended" /\ asked' = {} /\ PendingsTimeout
       ELSE UNCHANGED <<sock, asked, pendings, callbackVars>>
    /\ UNCHANGED <<connected, listed, seqno, emitted, pingLost, callerVars, inbox>>

\* The robot has left: what is pending is told and the timer lets go of the client.
CloseFinish ==
    /\ loop = "exited" /\ listed
    /\ connected' = FALSE /\ sock' = "none" /\ listed' = FALSE
    /\ asked' = {} /\ inbox' = <<>>
    /\ PendingsTimeout
    /\ UNCHANGED <<robotVars, seqno, emitted, callerVars>>

-----------------------------------------------------------------------------
\* The server answers what it was asked in any order (its work queues) or not at all, or
\* it hangs, or the connection ends and what was on its way arrives in part.
PeerAnswers ==
    /\ sock = "open"
    /\ \E w \in asked : /\ inbox' \in {inbox, Append(inbox, w)}
                         /\ asked' = asked \ {w}
    /\ UNCHANGED <<clientVars, robotVars, pendings, seqno, emitted, callerVars, callbackVars>>

PeerHangs ==
    /\ sock = "open"
    /\ sock' = "hung" /\ asked' = {}
    /\ UNCHANGED <<connected, listed, robotVars, pendings, seqno, emitted, callerVars, callbackVars, inbox>>

PeerEnds ==
    /\ sock \in {"open", "hung"}
    /\ sock' = "ended" /\ asked' = {}
    /\ \E n \in 0 .. Len(inbox) : inbox' = SubSeq(inbox, 1, n)
    /\ UNCHANGED <<connected, listed, robotVars, pendings, seqno, emitted, callerVars, callbackVars>>

Loop == LoopRecv \/ LoopIdle \/ LoopSweep \/ LoopEof \/ LoopDown
Peer == PeerAnswers \/ PeerHangs \/ PeerEnds
Next ==
    \/ \E q \in Requests : Prepare(q) \/ Send(q) \/ FetchReturn(q)
    \/ Tick \/ Connect \/ Loop \/ Disconnect \/ Close \/ CloseFinish \/ Peer

\* The threads of the client go on; nothing is promised of connections, of the server,
\* or of what callers start.
Fairness ==
    /\ WF_vars(\E q \in Requests : Send(q) \/ FetchReturn(q))
    /\ WF_vars(Tick) /\ WF_vars(LoopIdle) /\ WF_vars(LoopSweep)
    /\ WF_vars(LoopRecv \/ LoopEof \/ LoopDown)

Spec == Init /\ [][Next]_vars
FairSpec == Spec /\ Fairness

-----------------------------------------------------------------------------
\* What a caller has seen of its request; another's answer or a second one is no outcome.
OutcomeOf(q) ==
    CASE called[q] = 0 -> (IF stage[q] = "sent" THEN "open" ELSE "new")
      [] called[q] = 1 /\ reply[q] = q -> "answered"
      [] called[q] = 1 /\ reply[q] = None -> "missed"
      [] OTHER -> "broken"
Outcome == [q \in Requests |-> OutcomeOf(q)]
Returned == {q \in Requests : stage[q] = "returned"}

Promise == INSTANCE RemoteCall WITH
             outcome <- Outcome, returned <- Returned

\* The client implements RemoteCall: a request ends once and with its own answer or
\* none, although numbers are used again, requests of an earlier connection may still be
\* pending, and the timer, the loop, the end of the connection and close all look for
\* requests to tell; and a fetch returns only after its own callback was called.
ImplementsRemoteCall == Promise!Spec

\* A fetch does return, whatever becomes of the connection and of the robot, even when
\* its request became pending after the connection was lost: event.wait() has no
\* timeout of its own.  Only a client closed meanwhile may keep it waiting.
FetchReturns ==
    \A q \in Fetches : stage[q] = "sent" ~> (stage[q] = "returned" \/ ~listed)

\* The callback of a call is called, unless the loop never runs again.
CallEnds ==
    \A q \in Calls : stage[q] = "sent" ~> (called[q] = 1 \/ [](loop # "loop"))

\* Nobody waits for ever on a request (fetch, call).
RequestsEnd == FetchReturns /\ CallEnds

\* A server that hangs without closing the connection is given up.
SilentPeerDropped == sock = "hung" ~> sock # "hung"
=============================================================================
