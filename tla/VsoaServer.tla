------------------------------ MODULE VsoaServer ------------------------------
(***************************************************************************)
(* vsoa/server.py, the server the bridge publishes and answers with.  One  *)
(* thread runs the event loop (run), one the handshake timer (_hstimer),   *)
(* one a work queue, and any number publish; they share the list of        *)
(* clients and one lock, which is held while a packet is written.          *)
(*                                                                         *)
(* A connection is used once: a client that comes back is another one.     *)
(* Data: one topic; a packet read is one request of a client's script; of  *)
(* what is written to a client only the messages are kept and how many     *)
(* packets it has yet to read.  Left out, because nothing here uses it:    *)
(* passwords, TLS, datagrams, streams and the priorities of clients.       *)
(***************************************************************************)
EXTENDS Naturals, SequencesExt, FiniteSetsExt

CONSTANTS Clients, Publishers,
          Scripts,    \* per client, the sequences of requests it may send
          Patience,   \* timer periods a handshake may take
          Room,       \* packets a connection holds that its client has not read
          MaxPublish  \* bound of the model: messages of a publisher

None == "none"
\* A call is answered by its handler: on the event loop ("rpc", the only kind the bridge
\* has) or on the work queue ("call").
RequestKinds == {"info", "subscribe", "unsubscribe", "ping", "rpc", "call"}
End == <<"end">>     \* of a script: the client ends its connection
Requests == {s \in Seq(RequestKinds \cup {"end"}) : \A k \in DOMAIN s : s[k] = "end" => k = Len(s)}

ASSUME VsoaServerAssumption ==
    /\ \A c \in Clients : Scripts[c] \subseteq Requests
    /\ {Patience, Room} \subseteq Nat \ {0} /\ MaxPublish \in Nat
    /\ None \notin Clients /\ {None, "loop", "worker"} \cap Publishers = {}

VARIABLES link,     \* a connection: "asked", "served", "finished" or "gone"
          ended,    \* the connections their clients have ended
          shut,     \* the connections shut down by the server
          script,   \* what a client has yet to send
          unread,   \* packets it has yet to read
          got,      \* the messages written to it
          priocli,  \* _priocli
          hslist,   \* __hslist: clients that have not asked for the server's info
          hsalive,  \* _hsalive
          closed,   \* clients whose __close is set
          active,   \* clients whose _active is set
          subs,     \* clients that have subscribed to the topic
          loop,     \* the event loop: where it is, what select returned, the index it
                    \* walks _priocli with, and the request it answers
          lock,     \* who holds Server._lock
          jobs,     \* the work queue
          worker,   \* the client whose call the worker answers, if any
          pub,      \* per publisher: where it is, and how many messages it has begun
          changed,  \* the subscriptions a publisher goes through have been changed
          due,      \* history: clients the message being published has yet to reach
          cut       \* history: the last publication was given up, a subscription having
                    \* changed under it

peerVars == <<ended, script>>
wireVars == <<shut, unread, got>>
tableVars == <<link, priocli, hslist, hsalive, closed>>
queueVars == <<jobs, worker>>
pubVars == <<pub, changed>>
histVars == <<due, cut>>
vars == <<link, ended, shut, script, unread, got, priocli, hslist, hsalive, closed, active,
          subs, loop, lock, jobs, worker, pub, changed, due, cut>>

idle == [at |-> "select", ready |-> {}, i |-> 1, req |-> None]
Messages == Publishers \X (1 .. MaxPublish)

\* What travels, the server's tables, who has subscribed, and the threads.
WireOK ==
    /\ ended \subseteq Clients /\ shut \subseteq Clients
    /\ script \in [Clients -> Requests]
    /\ unread \in [Clients -> 0 .. Room]
    /\ got \in [Clients -> Seq(Messages)]
TablesOK ==
    /\ link \in [Clients -> {"asked", "served", "finished", "gone"}]
    /\ priocli \in Seq(Clients) /\ IsInjective(priocli)
    /\ {c \in Clients : link[c] \in {"served", "finished"}} = ToSet(priocli)
    /\ hslist \subseteq ToSet(priocli) /\ closed \subseteq Clients
    /\ hsalive \in [Clients -> 0 .. Patience]
SubscribersOK ==
    /\ active \subseteq Clients /\ subs \subseteq Clients /\ due \subseteq Clients
    /\ cut \in BOOLEAN
LoopStates == [at : {"select", "walk", "answer", "remove", "dead"},
               ready : SUBSET Clients, i : Nat, req : RequestKinds \cup {None}]
PubStates == [at : {"idle", "visit", "write"}, i : Nat, n : 0 .. MaxPublish]
ThreadsOK ==
    /\ loop \in LoopStates
    /\ lock \in {None, "loop", "worker"} \cup Publishers
    /\ jobs \in Seq(Clients) /\ worker \in Clients \cup {None}
    /\ pub \in [Publishers -> PubStates]
    /\ changed \in BOOLEAN
TypeOK == WireOK /\ TablesOK /\ SubscribersOK /\ ThreadsOK

Init ==
    /\ link = [c \in Clients |-> "asked"]
    /\ ended = {} /\ shut = {}
    /\ script \in {s \in [Clients -> UNION {Scripts[c] : c \in Clients}] :
                     \A c \in Clients : s[c] \in Scripts[c]}
    /\ unread = [c \in Clients |-> 0]
    /\ got = [c \in Clients |-> <<>>]
    /\ priocli = <<>> /\ hslist = {}
    /\ hsalive = [c \in Clients |-> Patience]
    /\ closed = {} /\ active = {} /\ subs = {}
    /\ loop = idle
    /\ lock = None
    /\ jobs = <<>> /\ worker = None
    /\ pub = [p \in Publishers |-> [at |-> "idle", i |-> 1, n |-> 0]]
    /\ changed = FALSE /\ due = {} /\ cut = FALSE

-----------------------------------------------------------------------------
Open(c) == link[c] = "served" /\ c \notin ended \cup shut

\* tcpsend: send() waits while the client does not read.  The time select is given
\* bounds nothing, its result is not looked at and the socket is a blocking one.
CanWrite(c) == Open(c) => unread[c] < Room

\* A packet is written, and m is in it; or writing fails and the socket is shut down.
Write(c, m) ==
    /\ CanWrite(c)
    /\ IF Open(c)
       THEN /\ unread' = [unread EXCEPT ![c] = @ + 1]
            /\ got' = [got EXCEPT ![c] = @ \o m]
            /\ shut' = shut
       ELSE /\ shut' = shut \cup {c}
            /\ UNCHANGED <<unread, got>>

-----------------------------------------------------------------------------
\* A client ends its connection, having sent all it had to send; the server has yet to
\* notice.
PeerEnds(c) ==
    /\ link[c] \in {"asked", "served"} /\ script[c] = End
    /\ ended' = ended \cup {c}
    /\ script' = [script EXCEPT ![c] = <<>>]
    /\ due' = due \ {c}
    /\ UNCHANGED <<wireVars, tableVars, active, subs, loop, lock, queueVars, pubVars, cut>>

PeerReads(c) ==
    /\ unread[c] > 0
    /\ unread' = [unread EXCEPT ![c] = @ - 1]
    /\ UNCHANGED <<peerVars, shut, got, tableVars, active, subs, loop, lock, queueVars,
                   pubVars, histVars>>

-----------------------------------------------------------------------------
\* __add_client, called by run with a connection accept returned.
Accept(c) ==
    /\ loop.at = "select" /\ lock = None
    /\ link[c] = "asked"
    /\ link' = [link EXCEPT ![c] = "served"]
    /\ priocli' = Append(priocli, c)
    /\ hslist' = hslist \cup {c}
    /\ UNCHANGED <<peerVars, wireVars, hsalive, closed, active, subs, loop, lock, queueVars,
                   pubVars, histVars>>

\* The client has gone already: getpeername raises, and nothing catches it.  The event
\* loop ends.
AcceptRaises(c) ==
    /\ loop.at = "select"
    /\ link[c] = "asked" /\ c \in ended
    /\ loop' = [loop EXCEPT !.at = "dead"]
    /\ UNCHANGED <<peerVars, wireVars, tableVars, active, subs, lock, queueVars, pubVars, histVars>>

\* The walk over _priocli by index, whatever happens to the list meanwhile: from i on to
\* the next client select has returned, or to the next select.
GoOn(ready, i, list) ==
    LET next == {k \in i .. Len(list) : list[k] \in ready} IN
    IF next = {} THEN idle
    ELSE [at |-> "walk", ready |-> ready, i |-> Min(next), req |-> None]

At(c) == loop.at = "walk" /\ priocli[loop.i] = c

\* select returns: connections at their end, and any others a request has come from.
Select(ready) ==
    /\ loop.at = "select"
    /\ ready # {} /\ ready \subseteq ToSet(priocli)
    /\ \A c \in ToSet(priocli) : IF Open(c) THEN c \in ready => script[c] \notin {<<>>, End} ELSE c \in ready
    /\ loop' = GoOn(ready, 1, priocli)
    /\ UNCHANGED <<peerVars, wireVars, tableVars, active, subs, lock, queueVars, pubVars, histVars>>

\* _pinput up to the lock: a call goes to its handler, or to the work queue if its handler
\* has one, and a subscription changes before the lock is taken, perhaps while a publisher
\* goes through the client's set.
Take(c) ==
    LET r == Head(script[c]) IN
    /\ At(c) /\ script[c] \notin {<<>>, End}
    /\ script' = [script EXCEPT ![c] = Tail(@)]
    /\ active' = active \cup {c}
    /\ loop' = IF r = "call" THEN GoOn(loop.ready, loop.i + 1, priocli)
                             ELSE [loop EXCEPT !.at = "answer", !.req = r]
    /\ jobs' = IF r = "call" THEN Append(jobs, c) ELSE jobs
    /\ subs' = CASE r = "subscribe" -> subs \cup {c}
                 [] r = "unsubscribe" -> subs \ {c}
                 [] OTHER -> subs
    /\ changed' = \/ changed
                   \/ /\ subs' # subs
                      /\ \E p \in Publishers : /\ pub[p].at = "visit" /\ pub[p].i \in DOMAIN priocli
                                             /\ priocli[pub[p].i] = c
    /\ due' = IF c \in subs' THEN due ELSE due \ {c}
    /\ UNCHANGED <<ended, wireVars, tableVars, lock, worker, pub, cut>>

\* A handler does not answer a client that is known to be closed (reply).
ToAnswer == loop.req = "rpc" => priocli[loop.i] \notin closed

CallDropped ==
    /\ loop.at = "answer" /\ ~ToAnswer
    /\ loop' = GoOn(loop.ready, loop.i + 1, priocli)
    /\ UNCHANGED <<peerVars, wireVars, tableVars, active, subs, lock, queueVars, pubVars,
                   histVars>>

\* A handler raises before it answers, and nothing catches it: the event loop ends.
HandlerRaises ==
    /\ loop.at = "answer" /\ loop.req = "rpc" /\ lock # "loop"
    /\ loop' = [loop EXCEPT !.at = "dead"]
    /\ UNCHANGED <<peerVars, wireVars, tableVars, active, subs, lock, queueVars, pubVars,
                   histVars>>

\* A reply is written with the lock held.  Holding it is a step of its own only when the
\* writing has to wait.
LoopWaits ==
    /\ loop.at = "answer" /\ lock = None /\ ToAnswer
    /\ ~CanWrite(priocli[loop.i])
    /\ lock' = "loop"
    /\ UNCHANGED <<peerVars, wireVars, tableVars, active, subs, loop, queueVars, pubVars, histVars>>

AnswerKeepsLock ==     \* a slip: the lock kept when the reply cannot be written
    LET c == priocli[loop.i] IN
    /\ loop.at = "answer" /\ lock \in {None, "loop"} /\ ToAnswer
    /\ Write(c, <<>>)
    /\ hslist' = IF loop.req = "info" THEN hslist \ {c} ELSE hslist
    /\ lock' = IF Open(c) THEN None ELSE "loop"
    /\ loop' = GoOn(loop.ready, loop.i + 1, priocli)
    /\ UNCHANGED <<peerVars, link, priocli, hsalive, closed, active, subs, queueVars, pubVars,
                   histVars>>

\* The reply of the event loop; one to a request for the server's info ends the handshake.
Answer ==
    LET c == priocli[loop.i] IN
    /\ loop.at = "answer" /\ lock \in {None, "loop"} /\ ToAnswer
    /\ Write(c, <<>>)
    /\ hslist' = IF loop.req = "info" THEN hslist \ {c} ELSE hslist
    /\ lock' = None
    /\ loop' = GoOn(loop.ready, loop.i + 1, priocli)
    /\ UNCHANGED <<peerVars, link, priocli, hsalive, closed, active, subs, queueVars, pubVars,
                   histVars>>

\* The end of a connection: _finish closes the socket at once ...
Finish(c) ==
    /\ At(c)
    /\ ~Open(c)
    /\ link' = [link EXCEPT ![c] = "finished"]
    /\ closed' = closed \cup {c}
    /\ due' = due \ {c}
    /\ loop' = [loop EXCEPT !.at = "remove"]
    /\ UNCHANGED <<peerVars, wireVars, priocli, hslist, hsalive, active, subs, lock, queueVars,
                   pubVars, cut>>

UnlistUnlocked ==     \* a slip: the lock not taken
    LET c == priocli[loop.i] IN
    /\ loop.at = "remove"
    /\ priocli' = RemoveAt(priocli, loop.i)
    /\ hslist' = hslist \ {c}
    /\ link' = [link EXCEPT ![c] = "gone"]
    /\ loop' = GoOn(loop.ready, loop.i + 1, priocli')
    /\ UNCHANGED <<peerVars, wireVars, hsalive, closed, active, subs, lock, queueVars, pubVars,
                   histVars>>

UnlistKeepsTimer ==     \* a slip: left in the list of the handshake timer
    LET c == priocli[loop.i] IN
    /\ loop.at = "remove" /\ lock = None
    /\ priocli' = RemoveAt(priocli, loop.i)
    /\ link' = [link EXCEPT ![c] = "gone"]
    /\ loop' = GoOn(loop.ready, loop.i + 1, priocli')
    /\ UNCHANGED <<peerVars, wireVars, hslist, hsalive, closed, active, subs, lock, queueVars,
                   pubVars, histVars>>

\* ... and the client leaves the list when the lock is free.  The client behind it moves
\* up and is passed over this time.
Unlist ==
    LET c == priocli[loop.i] IN
    /\ loop.at = "remove" /\ lock = None
    /\ priocli' = RemoveAt(priocli, loop.i)
    /\ hslist' = hslist \ {c}
    /\ link' = [link EXCEPT ![c] = "gone"]
    /\ loop' = GoOn(loop.ready, loop.i + 1, priocli')
    /\ UNCHANGED <<peerVars, wireVars, hsalive, closed, active, subs, lock, queueVars, pubVars,
                   histVars>>

-----------------------------------------------------------------------------
\* The worker takes a call; its handler replies, unless the client is known to be closed,
\* when the lock is free.
WorkerTakes ==
    /\ worker = None /\ jobs # <<>>
    /\ jobs' = Tail(jobs) /\ worker' = Head(jobs)
    /\ UNCHANGED <<peerVars, wireVars, tableVars, active, subs, loop, lock, pubVars, histVars>>

ReplyRefused ==
    /\ worker \in closed /\ lock # "worker"
    /\ worker' = None
    /\ UNCHANGED <<peerVars, wireVars, tableVars, active, subs, loop, lock, jobs, pubVars, histVars>>

WorkerWaits ==
    /\ worker \in Clients \ closed /\ lock = None
    /\ ~CanWrite(worker)
    /\ lock' = "worker"
    /\ UNCHANGED <<peerVars, wireVars, tableVars, active, subs, loop, queueVars, pubVars, histVars>>

Reply ==
    /\ lock = "worker" \/ (lock = None /\ worker \in Clients \ closed)
    /\ Write(worker, <<>>)
    /\ lock' = None /\ worker' = None
    /\ UNCHANGED <<peerVars, tableVars, active, subs, loop, jobs, pubVars, histVars>>

-----------------------------------------------------------------------------
Expired == {c \in hslist : hsalive[c] <= 1}

ShutNone == {}     \* a slip: the connection is marked closed and not shut down
ShutByTimer == Expired

\* _hstimer under the lock: a handshake that takes too long shuts the connection down,
\* which the event loop then finds at its end.
HsTimer ==
    /\ lock = None /\ hslist # {}
    /\ hsalive' = [c \in Clients |-> IF c \in hslist /\ hsalive[c] > 0 THEN hsalive[c] - 1
                                                                      ELSE hsalive[c]]
    /\ closed' = closed \cup Expired
    /\ shut' = shut \cup ShutByTimer
    /\ due' = due \ ShutByTimer
    /\ UNCHANGED <<peerVars, unread, got, link, priocli, hslist, active, subs, loop, lock,
                   queueVars, pubVars, cut>>

-----------------------------------------------------------------------------
\* publish has the lock and is at the i-th client, about to go through its subscriptions
\* (is_subscribed); behind the last client it returns.
Visit(p, i) ==
    /\ changed' = FALSE
    /\ IF i <= Len(priocli)
       THEN lock' = p /\ pub' = [pub EXCEPT ![p] = [at |-> "visit", i |-> i, n |-> @.n]]
       ELSE lock' = None /\ pub' = [pub EXCEPT ![p] = [at |-> "idle", i |-> 1, n |-> @.n]]

\* publish takes the lock.
Begin(p) ==
    /\ pub[p].at = "idle" /\ pub[p].n < MaxPublish
    /\ lock = None /\ priocli # <<>>
    /\ lock' = p /\ changed' = FALSE
    /\ pub' = [pub EXCEPT ![p] = [at |-> "visit", i |-> 1, n |-> @.n + 1]]
    /\ due' = {c \in active \cap subs : Open(c)} /\ cut' = FALSE
    /\ UNCHANGED <<peerVars, wireVars, tableVars, active, subs, loop, queueVars>>

\* The topic is among the client's subscriptions, or is not, or either if they have been
\* changed meanwhile.
Found(p) ==
    /\ pub[p].at = "visit" /\ pub[p].i \in DOMAIN priocli
    /\ priocli[pub[p].i] \in active \cap subs \/ changed
    /\ pub' = [pub EXCEPT ![p].at = "write"]
    /\ changed' = FALSE
    /\ UNCHANGED <<peerVars, wireVars, tableVars, active, subs, loop, lock, queueVars, histVars>>

NotFound(p) ==
    /\ pub[p].at = "visit"
    /\ pub[p].i \in DOMAIN priocli => priocli[pub[p].i] \notin active \cap subs \/ changed
    /\ Visit(p, pub[p].i + 1)
    /\ UNCHANGED <<peerVars, wireVars, tableVars, active, subs, loop, queueVars, histVars>>

\* Going through a set that changes raises: it leaves publish, and the lock with it.  Who
\* is still due is passed over.
VisitRaises(p) ==
    /\ pub[p].at = "visit" /\ changed
    /\ pub' = [pub EXCEPT ![p].at = "idle", ![p].i = 1]
    /\ changed' = FALSE /\ lock' = None /\ cut' = TRUE
    /\ UNCHANGED <<peerVars, wireVars, tableVars, active, subs, loop, queueVars, due>>

WriteMessage(p) ==
    LET c == priocli[pub[p].i] IN
    /\ pub[p].at = "write" /\ pub[p].i \in DOMAIN priocli
    /\ Write(c, <<<<p, pub[p].n>>>>)
    /\ Visit(p, pub[p].i + 1)
    /\ due' = due \ {c}
    /\ UNCHANGED <<peerVars, tableVars, active, subs, loop, queueVars, cut>>

-----------------------------------------------------------------------------
Peer(c) == PeerEnds(c) \/ PeerReads(c)
EventLoop ==
    \/ \E c \in Clients : Accept(c) \/ AcceptRaises(c) \/ Take(c) \/ Finish(c)
    \/ \E ready \in SUBSET Clients : Select(ready)
    \/ CallDropped \/ HandlerRaises \/ LoopWaits \/ Answer \/ Unlist
Worker == WorkerTakes \/ ReplyRefused \/ WorkerWaits \/ Reply
Publish(p) == Found(p) \/ NotFound(p) \/ VisitRaises(p) \/ WriteMessage(p)

Next ==
    \/ \E c \in Clients : Peer(c)
    \/ EventLoop \/ Worker \/ HsTimer
    \/ \E p \in Publishers : Begin(p) \/ Publish(p)

Spec == Init /\ [][Next]_vars

\* The threads of the server run on.  Nothing is promised of what clients send, or of
\* publishers outside publish.
FairServer ==
    /\ WF_vars(EventLoop) /\ WF_vars(Worker) /\ WF_vars(HsTimer)
    /\ \A p \in Publishers : WF_vars(Publish(p))

\* Assumed of the clients: they read what they are sent.  The server depends on it, since
\* the time a packet may take to send is not enforced (CanWrite).
ClientsRead == \A c \in Clients : WF_vars(PeerReads(c))

FairSpec == Spec /\ FairServer /\ ClientsRead

-----------------------------------------------------------------------------
\* What a publication has yet to reach is still ahead of it in the list: no client that
\* has subscribed before and stays is passed over, although the event loop removes others
\* from the list (publish, run).  The exception is a publication that raises: a client's
\* topics change while is_subscribed goes through them, publish ends there, and every
\* subscriber behind that client misses the message.
NobodyPassedOver ==
    \A c \in due : cut \/ \E p \in Publishers :
      lock = p /\ \E k \in pub[p].i .. Len(priocli) : priocli[k] = c

\* Clients see the messages of all publishers in one order, and none twice.
SameOrder ==
    \A c, d \in Clients :
      /\ IsInjective(got[c])
      /\ \A i, j \in DOMAIN got[c] : \A k, l \in DOMAIN got[d] :
           (i < j /\ got[c][i] = got[d][k] /\ got[c][j] = got[d][l]) => k < l

\* A publication goes to every subscriber, once, and in the same order as the others,
\* although several threads publish while the event loop changes the list they go through.
\* One that raises on topics that change under it still goes to nobody twice or out of
\* order, but not to all (NobodyPassedOver).
PublishedToAll == NobodyPassedOver /\ SameOrder

\* A client that does not end its handshake is dropped, as long as clients read and the
\* event loop lives: an address nobody is at any more, or a handler that raises, ends it.
HandshakeOrGone ==
    \A c \in Clients : c \in hslist ~> (c \notin hslist \/ loop.at = "dead")

\* Who has the lock lets go of it, if clients read what they are sent: a publication waits
\* for the slowest of them, and everything else in the server waits for the publication.
LockReleased == lock # None ~> lock = None
=============================================================================
