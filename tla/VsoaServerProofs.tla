--------------------------- MODULE VsoaServerProofs ---------------------------
(***************************************************************************)
(* Theorems about the SDK's server, for every set of clients, their        *)
(* scripts, every number of publishing threads and of messages: its state  *)
(* keeps its shape, all clients see the messages in one order, and no      *)
(* subscriber is passed over while the event loop changes the list a       *)
(* publication goes through, unless the publication is given up.           *)
(***************************************************************************)
EXTENDS VsoaServer, SequenceTheorems, WellFoundedInduction, TLAPS

\* Who waits for the lock to write a reply to a call has a call to answer, and the event
\* loop is at a client of the list.
Underway ==
    /\ lock = "worker" => worker \in Clients
    /\ loop.at \in {"walk", "answer", "remove"} => loop.i \in DOMAIN priocli

\* The lock is a publisher's exactly while it publishes, and it is at a client of the list.
Holders ==
    \A p \in Publishers :
      /\ pub[p].at # "idle" <=> lock = p
      /\ pub[p].at # "idle" => pub[p].i \in DOMAIN priocli /\ pub[p].n > 0

\* What a publication has yet to reach is subscribed, and is not the client whose
\* subscriptions have changed while the publisher goes through them.
StillDue ==
    /\ due \subseteq active \cap subs
    /\ changed => \A p \in Publishers : lock = p => priocli[pub[p].i] \notin due

\* The messages written are those of publications begun; a client that is still ahead of
\* the publisher has not been written its message; and that message is the last of every
\* client it has been written to.
Numbered == \A c \in Clients : \A k \in DOMAIN got[c] : got[c][k][2] <= pub[got[c][k][1]].n
Fresh ==
    \A p \in Publishers : lock = p =>
      \A k \in pub[p].i .. Len(priocli) : \A l \in DOMAIN got[priocli[k]] :
        got[priocli[k]][l] # <<p, pub[p].n>>
Newest ==
    \A p \in Publishers : lock = p =>
      \A c \in Clients : \A k \in DOMAIN got[c] : got[c][k] = <<p, pub[p].n>> => k = Len(got[c])

\* A publication that is under way has not been given up.
NotCut == (\E p \in Publishers : lock = p) => ~cut

PlaceInv == Holders /\ NobodyPassedOver /\ StillDue /\ NotCut
OrderInv == Numbered /\ Fresh /\ Newest /\ SameOrder
ServerInv == TypeOK /\ Underway /\ PlaceInv /\ OrderInv

-----------------------------------------------------------------------------
\* A set of naturals that is not empty has a least member, and Min finds it.
LEMMA MinOfSet ==
    ASSUME NEW S \in SUBSET Nat, S # {}
    PROVE  Min(S) \in S
<1>1. PICK k \in S : \A l \in S : <<l, k>> \notin OpToRel(<, Nat)
  BY NatLessThanWellFounded, WFMin
<1>2. \A l \in S : ~(l < k)
  BY <1>1, Zenon DEF OpToRel
<1>3. \A l \in S : k <= l
  BY <1>2
<1> QED
  BY <1>3 DEF Min

\* The walk goes on at a client of the list, or selects again.
LEMMA GoOnPlace ==
    ASSUME NEW ready \in SUBSET Clients, NEW i \in Nat \ {0}, NEW list \in Seq(Clients)
    PROVE  LET to == GoOn(ready, i, list) IN
           /\ to \in LoopStates /\ to.at \in {"select", "walk"}
           /\ to.at = "walk" => to.i \in DOMAIN list
<1> DEFINE next == {k \in i .. Len(list) : list[k] \in ready}
<1>1. CASE next = {}
  BY <1>1 DEF GoOn, idle, LoopStates
<1>2. CASE next # {}
  <2>1. next \in SUBSET Nat
    OBVIOUS
  <2>2. Min(next) \in next
    BY <1>2, <2>1, MinOfSet
  <2>3. GoOn(ready, i, list) = [at |-> "walk", ready |-> ready, i |-> Min(next), req |-> None]
    BY <1>2 DEF GoOn
  <2>4. Min(next) \in Nat /\ Min(next) \in DOMAIN list
    BY <2>2
  <2> QED
    BY <2>3, <2>4 DEF LoopStates
<1> QED
  BY <1>1, <1>2

\* What is left of a list without repetitions when one place is taken out.
LEMMA RemoveAtProperties ==
    ASSUME NEW S, NEW s \in Seq(S), NEW i \in DOMAIN s, IsInjective(s)
    PROVE  /\ RemoveAt(s, i) \in Seq(S)
           /\ IsInjective(RemoveAt(s, i))
           /\ ToSet(RemoveAt(s, i)) = ToSet(s) \ {s[i]}
<1> DEFINE a == SubSeq(s, 1, i - 1)
           b == SubSeq(s, i + 1, Len(s))
           r == RemoveAt(s, i)
<1>1. i \in 1 .. Len(s) /\ Len(s) \in Nat /\ DOMAIN s = 1 .. Len(s)
  OBVIOUS
<1>2. /\ a \in Seq(S) /\ Len(a) = i - 1
      /\ \A k \in 1 .. i - 1 : a[k] = s[k]
  <2>1. \A k \in 1 .. i - 1 : s[k] \in S
    BY <1>1
  <2>2. 1 \in Int /\ i - 1 \in Int
    BY <1>1
  <2>3. /\ a \in Seq(S) /\ Len(a) = IF 1 <= i - 1 THEN i - 1 - 1 + 1 ELSE 0
        /\ \A k \in 1 .. i - 1 - 1 + 1 : a[k] = s[1 + k - 1]
    BY <2>1, <2>2, SubSeqProperties
  <2> QED
    BY <1>1, <2>3
<1>3. /\ b \in Seq(S) /\ Len(b) = Len(s) - i
      /\ \A k \in 1 .. Len(s) - i : b[k] = s[i + k]
  <2>1. \A k \in i + 1 .. Len(s) : s[k] \in S
    BY <1>1
  <2>2. i + 1 \in Int /\ Len(s) \in Int
    BY <1>1
  <2>3. /\ b \in Seq(S) /\ Len(b) = IF i + 1 <= Len(s) THEN Len(s) - (i + 1) + 1 ELSE 0
        /\ \A k \in 1 .. Len(s) - (i + 1) + 1 : b[k] = s[i + 1 + k - 1]
    BY <2>1, <2>2, SubSeqProperties
  <2> QED
    BY <1>1, <2>3
<1> HIDE DEF a, b
<1>4. /\ r \in Seq(S) /\ Len(r) = Len(s) - 1
      /\ \A k \in 1 .. Len(s) - 1 : r[k] = IF k <= i - 1 THEN a[k] ELSE b[k - (i - 1)]
  <2>1. r = a \o b
    BY DEF a, b, RemoveAt
  <2>2. /\ a \o b \in Seq(S) /\ Len(a \o b) = Len(a) + Len(b)
        /\ \A k \in 1 .. Len(a) + Len(b) :
             (a \o b)[k] = IF k <= Len(a) THEN a[k] ELSE b[k - Len(a)]
    BY <1>2, <1>3, ConcatProperties
  <2>3. Len(a) + Len(b) = Len(s) - 1
    BY <1>1, <1>2, <1>3
  <2> HIDE DEF r
  <2> QED
    BY <1>2, <2>1, <2>2, <2>3
<1>5. \A k \in 1 .. Len(s) - 1 : r[k] = IF k < i THEN s[k] ELSE s[k + 1]
  <2> SUFFICES ASSUME NEW k \in 1 .. Len(s) - 1
               PROVE  r[k] = IF k < i THEN s[k] ELSE s[k + 1]
    OBVIOUS
  <2> HIDE DEF r
  <2>1. CASE k < i
    <3>1. k \in 1 .. i - 1 /\ k <= i - 1
      BY <1>1, <2>1
    <3> QED
      BY <1>2, <1>4, <2>1, <3>1
  <2>2. CASE ~(k < i)
    <3>1. k - (i - 1) \in 1 .. Len(s) - i /\ ~(k <= i - 1) /\ i + (k - (i - 1)) = k + 1
      BY <1>1, <2>2
    <3> QED
      BY <1>3, <1>4, <2>2, <3>1
  <2> QED
    BY <2>1, <2>2
<1>6. DOMAIN r = 1 .. Len(s) - 1
  BY <1>4
<1> HIDE DEF r
<1>7. IsInjective(r)
  <2> SUFFICES ASSUME NEW k \in DOMAIN r, NEW l \in DOMAIN r, r[k] = r[l]
               PROVE  k = l
    BY DEF IsInjective
  <2> DEFINE from(x) == IF x < i THEN x ELSE x + 1
  <2>1. \A x \in DOMAIN r : from(x) \in DOMAIN s /\ r[x] = s[from(x)]
    BY <1>1, <1>5, <1>6
  <2>2. s[from(k)] = s[from(l)]
    BY <2>1
  <2>3. from(k) = from(l)
    <3> HIDE DEF from
    <3> QED BY <2>1, <2>2 DEF IsInjective
  <2> QED
    BY <1>1, <1>6, <2>3
<1>8. ToSet(r) = ToSet(s) \ {s[i]}
  <2>1. \A x, y \in DOMAIN s : s[x] = s[y] => x = y
    BY DEF IsInjective
  <2>2. ASSUME NEW k \in DOMAIN r
        PROVE  r[k] \in ToSet(s) \ {s[i]}
    <3>1. PICK l \in DOMAIN s : l # i /\ r[k] = s[l]
      <4>1. CASE k < i
        BY <1>1, <1>5, <1>6, <2>2, <4>1
      <4>2. CASE ~(k < i)
        <5>1. k + 1 \in DOMAIN s /\ k + 1 # i
          BY <1>1, <1>6, <2>2, <4>2
        <5> QED
          BY <1>5, <1>6, <2>2, <4>2, <5>1
      <4> QED
        BY <4>1, <4>2
    <3> QED
      BY <2>1, <3>1 DEF ToSet
  <2>3. ASSUME NEW l \in DOMAIN s, l # i
        PROVE  s[l] \in ToSet(r)
    <3>1. CASE l < i
      <4>1. l \in DOMAIN r /\ r[l] = s[l]
        BY <1>1, <1>5, <1>6, <3>1
      <4> QED
        BY <4>1 DEF ToSet
    <3>2. CASE ~(l < i)
      <4>1. l - 1 \in DOMAIN r /\ ~(l - 1 < i) /\ l - 1 + 1 = l
        BY <1>1, <1>6, <2>3, <3>2
      <4>2. r[l - 1] = s[l]
        BY <1>5, <1>6, <4>1
      <4> QED
        BY <4>1, <4>2 DEF ToSet
    <3> QED
      BY <3>1, <3>2
  <2> QED
    BY <2>2, <2>3 DEF ToSet
<1> QED
  BY <1>4, <1>7, <1>8 DEF r

-----------------------------------------------------------------------------
\* The outcomes of writing a packet to a client: what it has been written and has yet to
\* read stays in shape, and nobody else's messages change.
LEMMA WriteKeeps ==
    ASSUME TypeOK, NEW c \in Clients, NEW m \in Seq(Messages), Write(c, m)
    PROVE  /\ unread' \in [Clients -> 0 .. Room]
           /\ got' \in [Clients -> Seq(Messages)]
           /\ shut' \in SUBSET Clients
           /\ got'[c] \in {got[c], got[c] \o m}
           /\ \A d \in Clients \ {c} : got'[d] = got[d]
<1>1. CASE Open(c)
  <2>1. unread[c] < Room /\ unread[c] \in Nat /\ Room \in Nat
    BY <1>1, VsoaServerAssumption DEF Write, CanWrite, TypeOK, WireOK
  <2>2. unread[c] + 1 \in 0 .. Room
    BY <2>1
  <2>3. got[c] \o m \in Seq(Messages)
    BY ConcatProperties DEF TypeOK, WireOK
  <2>4. /\ unread' = [unread EXCEPT ![c] = unread[c] + 1]
        /\ got' = [got EXCEPT ![c] = got[c] \o m]
        /\ shut' = shut
    BY <1>1 DEF Write
  <2> QED
    BY <2>2, <2>3, <2>4 DEF TypeOK, WireOK
<1>2. CASE ~Open(c)
  BY <1>2 DEF Write, TypeOK, WireOK
<1> QED
  BY <1>1, <1>2

\* A packet without a message leaves all messages as they are.
LEMMA WriteNothing ==
    ASSUME TypeOK, NEW c \in Clients, Write(c, <<>>)
    PROVE  /\ unread' \in [Clients -> 0 .. Room]
           /\ got' = got
           /\ shut' \in SUBSET Clients
<1>1. <<>> \in Seq(Messages)
  OBVIOUS
<1>2. got[c] \o <<>> = got[c]
  <2>1. got[c] \in Seq(Messages)
    BY DEF TypeOK, WireOK, TablesOK, ThreadsOK, PubStates
  <2> QED
    BY <2>1, ConcatEmptySeq
<1>3. /\ unread' \in [Clients -> 0 .. Room]
      /\ got' \in [Clients -> Seq(Messages)]
      /\ shut' \in SUBSET Clients
      /\ got'[c] \in {got[c], got[c] \o <<>>}
      /\ \A d \in Clients \ {c} : got'[d] = got[d]
  BY <1>1, WriteKeeps
<1>4. \A d \in Clients : got'[d] = got[d]
  BY <1>2, <1>3
<1>5. got' = [d \in Clients |-> got'[d]] /\ got = [d \in Clients |-> got[d]]
  BY <1>3 DEF TypeOK, WireOK
<1> QED
  BY <1>3, <1>4, <1>5

\* A publisher at a client of the list is at a client; so is the event loop.
LEMMA AtClients ==
    ASSUME TypeOK
    PROVE  /\ Holders => \A p \in Publishers : pub[p].at # "idle" => priocli[pub[p].i] \in Clients
           /\ Underway /\ loop.at \in {"walk", "answer", "remove"} => priocli[loop.i] \in Clients
           /\ \A k \in DOMAIN priocli : priocli[k] \in Clients
BY DEF TypeOK, TablesOK, ThreadsOK, Holders, Underway

\* The shape of a publisher's next place.
LEMMA VisitKeeps ==
    ASSUME TypeOK, NEW p \in Publishers, NEW i \in Nat \ {0}, Visit(p, i)
    PROVE  /\ pub' \in [Publishers -> PubStates]
           /\ lock' \in {None, p} /\ changed' = FALSE
           /\ pub'[p].n = pub[p].n
           /\ \A q \in Publishers \ {p} : pub'[q] = pub[q]
           /\ IF i \in DOMAIN priocli THEN lock' = p /\ pub'[p].at = "visit" /\ pub'[p].i = i
                                      ELSE lock' = None /\ pub'[p].at = "idle"
<1>1. i \in DOMAIN priocli <=> i <= Len(priocli)
  BY DEF TypeOK, WireOK, TablesOK, ThreadsOK, PubStates
<1>2. pub[p].n \in 0 .. MaxPublish
  BY DEF TypeOK, WireOK, TablesOK, ThreadsOK, PubStates
<1>3. pub \in [Publishers -> PubStates]
  BY DEF TypeOK, ThreadsOK
<1>4. CASE i <= Len(priocli)
  <2>1. /\ lock' = p /\ changed' = FALSE
        /\ pub' = [pub EXCEPT ![p] = [at |-> "visit", i |-> i, n |-> pub[p].n]]
    BY <1>4 DEF Visit
  <2>2. [at |-> "visit", i |-> i, n |-> pub[p].n] \in PubStates
    BY <1>2 DEF PubStates
  <2> QED
    BY <1>1, <1>3, <1>4, <2>1, <2>2
<1>5. CASE ~(i <= Len(priocli))
  <2>1. /\ lock' = None /\ changed' = FALSE
        /\ pub' = [pub EXCEPT ![p] = [at |-> "idle", i |-> 1, n |-> pub[p].n]]
    BY <1>5 DEF Visit
  <2>2. [at |-> "idle", i |-> 1, n |-> pub[p].n] \in PubStates
    BY <1>2 DEF PubStates
  <2> QED
    BY <1>1, <1>3, <1>5, <2>1, <2>2
<1> QED
  BY <1>4, <1>5

-----------------------------------------------------------------------------
\* Each part of the type invariant depends on its own variables.
LEMMA PartsKept ==
    /\ WireOK /\ UNCHANGED <<peerVars, wireVars>> => WireOK'
    /\ TablesOK /\ UNCHANGED tableVars => TablesOK'
    /\ SubscribersOK /\ UNCHANGED <<active, subs, histVars>> => SubscribersOK'
    /\ ThreadsOK /\ UNCHANGED <<loop, lock, queueVars, pubVars>> => ThreadsOK'
BY DEF WireOK, peerVars, wireVars, TablesOK, tableVars, SubscribersOK, ThreadsOK, queueVars, pubVars, histVars

\* What is left to send after a request that is not the end.
LEMMA RequestsGoOn ==
    ASSUME NEW s \in Requests, s # <<>>, s # End
    PROVE  Head(s) \in RequestKinds /\ Tail(s) \in Requests
<1>1. s \in Seq(RequestKinds \cup {"end"}) /\ \A k \in DOMAIN s : s[k] = "end" => k = Len(s)
  BY DEF Requests
<1>2. Len(s) \in Nat \ {0} /\ DOMAIN s = 1 .. Len(s) /\ Head(s) = s[1]
  BY <1>1, EmptySeq
<1>3. /\ Tail(s) \in Seq(RequestKinds \cup {"end"}) /\ Len(Tail(s)) = Len(s) - 1
      /\ \A k \in 1 .. Len(Tail(s)) : Tail(s)[k] = s[k + 1]
      /\ Head(s) \in RequestKinds \cup {"end"}
  BY <1>1, HeadTailProperties
<1>4. Head(s) # "end"
  <2>1. SUFFICES ASSUME s[1] = "end" PROVE FALSE
    BY <1>2
  <2>2. Len(s) = 1
    BY <1>1, <1>2, <2>1
  <2>3. s = <<"end">>
    BY <1>1, <1>2, <2>1, <2>2
  <2> QED
    BY <2>3 DEF End
<1>5. \A k \in DOMAIN Tail(s) : Tail(s)[k] = "end" => k = Len(Tail(s))
  <2> SUFFICES ASSUME NEW k \in DOMAIN Tail(s), Tail(s)[k] = "end"
               PROVE  k = Len(Tail(s))
    OBVIOUS
  <2>1. k \in 1 .. Len(s) - 1 /\ s[k + 1] = "end"
    BY <1>2, <1>3
  <2>2. k + 1 \in DOMAIN s
    BY <1>2, <2>1
  <2>3. k + 1 = Len(s)
    BY <1>1, <2>1, <2>2
  <2> QED
    BY <1>2, <1>3, <2>1, <2>3
<1> QED
  BY <1>3, <1>4, <1>5 DEF Requests

\* The state keeps its shape: what clients do.
LEMMA TypePeer ==
    ASSUME TypeOK, NEW c \in Clients, Peer(c)
    PROVE  TypeOK'
<1>1. CASE PeerEnds(c)
  <2>1. script' \in [Clients -> Requests]
    <3>1. <<>> \in Requests
      BY DEF Requests
    <3> QED
      BY <1>1, <3>1 DEF PeerEnds, TypeOK, WireOK
  <2>2. WireOK'
    BY <1>1, <2>1 DEF PeerEnds, TypeOK, WireOK, wireVars
  <2>3. SubscribersOK'
    BY <1>1 DEF PeerEnds, TypeOK, SubscribersOK
  <2> QED
    BY <1>1, <2>2, <2>3, PartsKept DEF PeerEnds, TypeOK
<1>2. CASE PeerReads(c)
  <2>1. unread[c] \in 0 .. Room /\ unread[c] > 0
    BY <1>2 DEF PeerReads, TypeOK, WireOK
  <2>2. unread[c] - 1 \in 0 .. Room
    BY <2>1, VsoaServerAssumption
  <2>3. WireOK'
    BY <1>2, <2>2 DEF PeerReads, TypeOK, WireOK, peerVars
  <2> QED
    BY <1>2, <2>3, PartsKept DEF PeerReads, TypeOK
<1> QED
  BY <1>1, <1>2 DEF Peer

\* ... what the event loop does ...
LEMMA TypeLoop ==
    ASSUME TypeOK, Underway, EventLoop
    PROVE  TypeOK'
<1>a. /\ priocli \in Seq(Clients) /\ IsInjective(priocli)
      /\ {c \in Clients : link[c] \in {"served", "finished"}} = ToSet(priocli)
      /\ link \in [Clients -> {"asked", "served", "finished", "gone"}]
      /\ hslist \subseteq ToSet(priocli) /\ closed \subseteq Clients
      /\ hsalive \in [Clients -> 0 .. Patience]
  BY DEF TypeOK, TablesOK
<1>b. /\ loop \in LoopStates
      /\ loop.ready \in SUBSET Clients /\ loop.i + 1 \in Nat \ {0}
  BY DEF TypeOK, ThreadsOK, LoopStates
<1>c. ASSUME NEW ready \in SUBSET Clients, NEW i \in Nat \ {0}, NEW list \in Seq(Clients)
      PROVE  GoOn(ready, i, list) \in LoopStates
  BY GoOnPlace
<1>3. ASSUME NEW c \in Clients, Accept(c) PROVE TypeOK'
  <2>1. c \notin ToSet(priocli) /\ link[c] = "asked"
    BY <1>3, <1>a DEF Accept
  <2>2. /\ priocli' \in Seq(Clients) /\ Len(priocli') = Len(priocli) + 1
        /\ \A k \in 1 .. Len(priocli) : priocli'[k] = priocli[k]
        /\ priocli'[Len(priocli) + 1] = c
    BY <1>3, <1>a, AppendProperties DEF Accept
  <2>3. /\ DOMAIN priocli = 1 .. Len(priocli) /\ DOMAIN priocli' = 1 .. Len(priocli) + 1
        /\ Len(priocli) \in Nat
    BY <1>a, <2>2
  <2>4. ToSet(priocli') = ToSet(priocli) \cup {c}
    <3>1. \A k \in DOMAIN priocli' : priocli'[k] \in ToSet(priocli) \cup {c}
      BY <2>2, <2>3 DEF ToSet
    <3>2. \A k \in DOMAIN priocli : k \in DOMAIN priocli' /\ priocli[k] = priocli'[k]
      BY <2>2, <2>3
    <3>3. Len(priocli) + 1 \in DOMAIN priocli'
      BY <2>3
    <3> QED
      BY <2>2, <3>1, <3>2, <3>3 DEF ToSet
  <2>5. IsInjective(priocli')
    <3>1. \A k \in DOMAIN priocli : priocli[k] # c
      BY <2>1 DEF ToSet
    <3>2. \A k, l \in DOMAIN priocli : priocli[k] = priocli[l] => k = l
      BY <1>a DEF IsInjective
    <3>3. \A k \in DOMAIN priocli' : k \in DOMAIN priocli \/ k = Len(priocli) + 1
      BY <2>3
    <3>4. \A k \in DOMAIN priocli : priocli'[k] = priocli[k]
      BY <2>2, <2>3
    <3> QED
      BY <2>2, <3>1, <3>2, <3>3, <3>4 DEF IsInjective
  <2>6. /\ link' = [link EXCEPT ![c] = "served"] /\ hslist' = hslist \cup {c}
        /\ hsalive' = hsalive /\ closed' = closed
    BY <1>3 DEF Accept
  <2>7. {d \in Clients : link'[d] \in {"served", "finished"}} = ToSet(priocli')
    BY <1>a, <2>4, <2>6
  <2>8. TablesOK'
    BY <1>a, <2>2, <2>4, <2>5, <2>6, <2>7 DEF TablesOK
  <2> QED
    BY <1>3, <2>8, PartsKept DEF Accept, TypeOK
<1>4. ASSUME NEW c \in Clients, AcceptRaises(c) PROVE TypeOK'
  <2>1. ThreadsOK'
    BY <1>4 DEF AcceptRaises, TypeOK, ThreadsOK, LoopStates, queueVars, pubVars
  <2> QED
    BY <1>4, <2>1, PartsKept DEF AcceptRaises, TypeOK
<1>5. ASSUME NEW c \in Clients, Take(c) PROVE TypeOK'
  <2>1. script[c] \in Requests /\ script[c] # <<>> /\ script[c] # End
    BY <1>5 DEF Take, TypeOK, WireOK
  <2>2. Head(script[c]) \in RequestKinds /\ Tail(script[c]) \in Requests
    BY <2>1, RequestsGoOn
  <2>3. WireOK'
    BY <1>5, <2>2 DEF Take, TypeOK, WireOK, wireVars
  <2>4. loop' \in LoopStates
    <3>1. CASE Head(script[c]) = "call"
      BY <1>5, <1>a, <1>b, <1>c, <3>1 DEF Take
    <3>2. CASE Head(script[c]) # "call"
      <4>1. loop' = [loop EXCEPT !.at = "answer", !.req = Head(script[c])]
        BY <1>5, <3>2 DEF Take
      <4>2. Head(script[c]) \in RequestKinds
        BY <2>2
      <4> QED
        BY <1>b, <4>1, <4>2 DEF LoopStates
    <3> QED
      BY <3>1, <3>2
  <2>5. jobs' \in Seq(Clients)
    BY <1>5, AppendProperties DEF Take, TypeOK, ThreadsOK
  <2>6. SubscribersOK'
    BY <1>5 DEF Take, TypeOK, SubscribersOK
  <2>7. changed' \in BOOLEAN
    BY <1>5 DEF Take, TypeOK, ThreadsOK
  <2>8. ThreadsOK'
    BY <1>5, <2>4, <2>5, <2>7 DEF Take, TypeOK, ThreadsOK
  <2> QED
    BY <1>5, <2>3, <2>6, <2>8, PartsKept DEF Take, TypeOK
<1>6. ASSUME NEW c \in Clients, Finish(c) PROVE TypeOK'
  <2>1. c \in ToSet(priocli)
    BY <1>6 DEF Finish, At, Underway, ToSet
  <2>2. /\ link' = [link EXCEPT ![c] = "finished"] /\ closed' = closed \cup {c}
        /\ priocli' = priocli /\ hslist' = hslist /\ hsalive' = hsalive
    BY <1>6 DEF Finish
  <2>3. {d \in Clients : link'[d] \in {"served", "finished"}} = ToSet(priocli')
    BY <1>a, <2>1, <2>2
  <2>4. TablesOK'
    BY <1>a, <2>2, <2>3 DEF TablesOK
  <2>5. ThreadsOK'
    BY <1>6 DEF Finish, TypeOK, ThreadsOK, LoopStates, queueVars, pubVars
  <2>6. SubscribersOK'
    BY <1>6 DEF Finish, TypeOK, SubscribersOK
  <2> QED
    BY <1>6, <2>4, <2>5, <2>6, PartsKept DEF Finish, TypeOK
<1>7. ASSUME NEW ready \in SUBSET Clients, Select(ready) PROVE TypeOK'
  <2>1. loop' \in LoopStates
    BY <1>7, <1>a, <1>c DEF Select
  <2>2. ThreadsOK'
    BY <1>7, <2>1 DEF Select, TypeOK, ThreadsOK, queueVars, pubVars
  <2> QED
    BY <1>7, <2>2, PartsKept DEF Select, TypeOK
<1>8. ASSUME LoopWaits PROVE TypeOK'
  <2>1. ThreadsOK'
    BY <1>8 DEF LoopWaits, TypeOK, ThreadsOK, queueVars, pubVars
  <2> QED
    BY <1>8, <2>1, PartsKept DEF LoopWaits, TypeOK
<1>9. ASSUME Answer PROVE TypeOK'
  <2>1. priocli[loop.i] \in Clients
    BY <1>9, AtClients DEF Answer
  <2>2. /\ unread' \in [Clients -> 0 .. Room] /\ got' = got
        /\ shut' \in SUBSET Clients
    BY <1>9, <2>1, WriteNothing DEF Answer
  <2>3. WireOK'
    BY <1>9, <2>2 DEF Answer, TypeOK, WireOK, peerVars
  <2>4. loop' \in LoopStates
    BY <1>9, <1>a, <1>b, <1>c DEF Answer
  <2>5. ThreadsOK'
    BY <1>9, <2>4 DEF Answer, TypeOK, ThreadsOK, queueVars, pubVars
  <2>6. hslist' \subseteq hslist
    BY <1>9 DEF Answer
  <2>7. TablesOK'
    BY <1>9, <1>a, <2>6 DEF Answer, TablesOK
  <2> QED
    BY <1>9, <2>3, <2>5, <2>7, PartsKept DEF Answer, TypeOK
<1>10. ASSUME Unlist PROVE TypeOK'
  <2> DEFINE c == priocli[loop.i]
  <2>1. loop.i \in DOMAIN priocli /\ c \in Clients
    BY <1>10, AtClients DEF Unlist, Underway
  <2>2. priocli' = RemoveAt(priocli, loop.i)
    BY <1>10 DEF Unlist
  <2>3. /\ priocli' \in Seq(Clients) /\ IsInjective(priocli')
        /\ ToSet(priocli') = ToSet(priocli) \ {c}
    BY <1>a, <2>1, <2>2, RemoveAtProperties
  <2>4. /\ link' = [link EXCEPT ![c] = "gone"] /\ hslist' = hslist \ {c}
        /\ loop' = GoOn(loop.ready, loop.i + 1, priocli')
        /\ hsalive' = hsalive /\ closed' = closed
    BY <1>10 DEF Unlist
  <2> HIDE DEF c
  <2>5. /\ link' \in [Clients -> {"asked", "served", "finished", "gone"}]
        /\ {d \in Clients : link'[d] \in {"served", "finished"}} = ToSet(priocli')
    BY <1>a, <2>1, <2>3, <2>4
  <2>6. hslist' \subseteq ToSet(priocli')
    BY <1>a, <2>3, <2>4
  <2>7. TablesOK'
    BY <1>a, <2>3, <2>4, <2>5, <2>6 DEF TablesOK
  <2>8. loop' \in LoopStates
    BY <1>b, <1>c, <2>3, <2>4
  <2>9. ThreadsOK'
    BY <1>10, <2>8 DEF Unlist, TypeOK, ThreadsOK, queueVars, pubVars
  <2> QED
    BY <1>10, <2>7, <2>9, PartsKept DEF Unlist, TypeOK
<1>11. ASSUME CallDropped PROVE TypeOK'
  <2>1. loop' \in LoopStates
    BY <1>11, <1>a, <1>b, <1>c DEF CallDropped
  <2>2. ThreadsOK'
    BY <1>11, <2>1 DEF CallDropped, TypeOK, ThreadsOK, queueVars, pubVars
  <2> QED
    BY <1>11, <2>2, PartsKept DEF CallDropped, TypeOK
<1>12. ASSUME HandlerRaises PROVE TypeOK'
  <2>1. ThreadsOK'
    BY <1>12 DEF HandlerRaises, TypeOK, ThreadsOK, LoopStates, queueVars, pubVars
  <2> QED
    BY <1>12, <2>1, PartsKept DEF HandlerRaises, TypeOK
<1> QED
  BY <1>3, <1>4, <1>5, <1>6, <1>7, <1>8, <1>9, <1>10, <1>11, <1>12 DEF EventLoop

\* ... what the worker and the timer do ...
LEMMA TypeWorker ==
    ASSUME TypeOK, Underway, Worker \/ HsTimer
    PROVE  TypeOK'
<1>1. ASSUME WorkerTakes PROVE TypeOK'
  <2>1. jobs \in Seq(Clients) /\ jobs # <<>>
    BY <1>1 DEF WorkerTakes, TypeOK, ThreadsOK
  <2>2. jobs' \in Seq(Clients) /\ worker' \in Clients
    BY <1>1, <2>1, HeadTailProperties DEF WorkerTakes
  <2>3. ThreadsOK'
    BY <1>1, <2>2 DEF WorkerTakes, TypeOK, ThreadsOK, pubVars
  <2> QED
    BY <1>1, <2>3, PartsKept DEF WorkerTakes, TypeOK
<1>2. ASSUME ReplyRefused PROVE TypeOK'
  <2>1. ThreadsOK'
    BY <1>2 DEF ReplyRefused, TypeOK, ThreadsOK, pubVars
  <2> QED
    BY <1>2, <2>1, PartsKept DEF ReplyRefused, TypeOK
<1>3. ASSUME WorkerWaits PROVE TypeOK'
  <2>1. ThreadsOK'
    BY <1>3 DEF WorkerWaits, TypeOK, ThreadsOK, queueVars, pubVars
  <2> QED
    BY <1>3, <2>1, PartsKept DEF WorkerWaits, TypeOK
<1>4. ASSUME Reply PROVE TypeOK'
  <2>1. worker \in Clients
    BY <1>4 DEF Reply, Underway
  <2>2. /\ unread' \in [Clients -> 0 .. Room] /\ got' = got
        /\ shut' \in SUBSET Clients
    BY <1>4, <2>1, WriteNothing DEF Reply
  <2>3. WireOK'
    BY <1>4, <2>2 DEF Reply, TypeOK, WireOK, peerVars
  <2>4. ThreadsOK'
    BY <1>4 DEF Reply, TypeOK, ThreadsOK, pubVars
  <2> QED
    BY <1>4, <2>3, <2>4, PartsKept DEF Reply, TypeOK
<1>5. ASSUME HsTimer PROVE TypeOK'
  <2>1. hsalive' \in [Clients -> 0 .. Patience]
    <3>1. \A c \in Clients : hsalive[c] \in 0 .. Patience
      BY DEF TypeOK, TablesOK
    <3>2. \A c \in Clients : hsalive[c] > 0 => hsalive[c] - 1 \in 0 .. Patience
      BY <3>1, VsoaServerAssumption
    <3> QED
      BY <1>5, <3>1, <3>2 DEF HsTimer
  <2>2. Expired \subseteq Clients
    BY DEF Expired, TypeOK, TablesOK
  <2>3. TablesOK'
    BY <1>5, <2>1, <2>2 DEF HsTimer, TypeOK, TablesOK
  <2>4. WireOK'
    BY <1>5, <2>2 DEF HsTimer, ShutByTimer, TypeOK, WireOK, peerVars
  <2>5. SubscribersOK'
    BY <1>5 DEF HsTimer, TypeOK, SubscribersOK
  <2> QED
    BY <1>5, <2>3, <2>4, <2>5, PartsKept DEF HsTimer, TypeOK
<1> QED
  BY <1>1, <1>2, <1>3, <1>4, <1>5 DEF Worker

\* ... and what the publishers do.
LEMMA TypePublish ==
    ASSUME TypeOK, Holders, NEW p \in Publishers, Begin(p) \/ Publish(p)
    PROVE  TypeOK'
<1>a. /\ pub \in [Publishers -> PubStates] /\ pub[p] \in PubStates
      /\ pub[p].n \in 0 .. MaxPublish /\ pub[p].i \in Nat /\ MaxPublish \in Nat
  BY VsoaServerAssumption DEF TypeOK, ThreadsOK, PubStates
<1>1. ASSUME Begin(p) PROVE TypeOK'
  <2>1. pub[p].n + 1 \in 0 .. MaxPublish
    BY <1>1, <1>a DEF Begin
  <2>2. pub' = [pub EXCEPT ![p] = [at |-> "visit", i |-> 1, n |-> pub[p].n + 1]]
    BY <1>1 DEF Begin
  <2>3. pub' \in [Publishers -> PubStates]
    BY <1>a, <2>1, <2>2 DEF PubStates
  <2>4. ThreadsOK'
    BY <1>1, <2>3 DEF Begin, TypeOK, ThreadsOK, queueVars
  <2>5. SubscribersOK'
    BY <1>1 DEF Begin, TypeOK, SubscribersOK
  <2> QED
    BY <1>1, <2>4, <2>5, PartsKept DEF Begin, TypeOK
<1>2. ASSUME Found(p) PROVE TypeOK'
  <2>1. pub' \in [Publishers -> PubStates]
    BY <1>2, <1>a DEF Found, PubStates
  <2>2. ThreadsOK'
    BY <1>2, <2>1 DEF Found, TypeOK, ThreadsOK, queueVars
  <2> QED
    BY <1>2, <2>2, PartsKept DEF Found, TypeOK
<1>3. ASSUME NotFound(p) PROVE TypeOK'
  <2>1. pub[p].i + 1 \in Nat \ {0} /\ Visit(p, pub[p].i + 1)
    BY <1>3, <1>a DEF NotFound
  <2>2. pub' \in [Publishers -> PubStates] /\ lock' \in {None, p} /\ changed' = FALSE
    BY <2>1, VisitKeeps
  <2>3. ThreadsOK'
    BY <1>3, <2>2 DEF NotFound, TypeOK, ThreadsOK, queueVars
  <2> QED
    BY <1>3, <2>3, PartsKept DEF NotFound, TypeOK
<1>4. ASSUME VisitRaises(p) PROVE TypeOK'
  <2>1. pub' \in [Publishers -> PubStates]
    BY <1>4, <1>a DEF VisitRaises, PubStates
  <2>2. ThreadsOK'
    BY <1>4, <2>1 DEF VisitRaises, TypeOK, ThreadsOK, queueVars
  <2>3. SubscribersOK'
    BY <1>4 DEF VisitRaises, TypeOK, SubscribersOK
  <2> QED
    BY <1>4, <2>2, <2>3, PartsKept DEF VisitRaises, TypeOK
<1>5. ASSUME WriteMessage(p) PROVE TypeOK'
  <2>1. pub[p].i + 1 \in Nat \ {0} /\ Visit(p, pub[p].i + 1)
    BY <1>5, <1>a DEF WriteMessage
  <2>2. pub' \in [Publishers -> PubStates] /\ lock' \in {None, p} /\ changed' = FALSE
    BY <2>1, VisitKeeps
  <2>3. priocli[pub[p].i] \in Clients
    BY <1>5, AtClients DEF WriteMessage
  <2>4. <<<<p, pub[p].n>>>> \in Seq(Messages)
    <3>1. pub[p].n \in 1 .. MaxPublish
      BY <1>5, <1>a DEF WriteMessage, Holders
    <3> QED
      BY <3>1 DEF Messages
  <2>5. /\ unread' \in [Clients -> 0 .. Room]
        /\ got' \in [Clients -> Seq(Messages)]
        /\ shut' \in SUBSET Clients
    BY <1>5, <2>3, <2>4, WriteKeeps DEF WriteMessage
  <2>6. WireOK'
    BY <1>5, <2>5 DEF WriteMessage, TypeOK, WireOK, peerVars
  <2>7. ThreadsOK'
    BY <1>5, <2>2 DEF WriteMessage, TypeOK, ThreadsOK, queueVars
  <2>8. SubscribersOK'
    BY <1>5 DEF WriteMessage, TypeOK, SubscribersOK
  <2> QED
    BY <1>5, <2>6, <2>7, <2>8, PartsKept DEF WriteMessage, TypeOK
<1> QED
  BY <1>1, <1>2, <1>3, <1>4, <1>5 DEF Publish

-----------------------------------------------------------------------------
\* The event loop stays at a client of the list, and who writes a reply has one to write.
LEMMA UnderwayKept ==
    ASSUME ServerInv, Next
    PROVE  Underway'
<1>a. /\ priocli \in Seq(Clients) /\ IsInjective(priocli)
      /\ loop.ready \in SUBSET Clients /\ loop.i \in Nat /\ loop.i + 1 \in Nat \ {0}
      /\ TypeOK /\ Underway /\ None # "worker" /\ None \notin Clients
  BY VsoaServerAssumption DEF ServerInv, TypeOK, TablesOK, ThreadsOK, LoopStates, None
<1>1. ASSUME NEW c \in Clients, Peer(c) PROVE Underway'
  BY <1>1, <1>a DEF Peer, PeerEnds, PeerReads, tableVars, queueVars, Underway
<1>2. ASSUME NEW c \in Clients, Accept(c) PROVE Underway'
  BY <1>2, <1>a DEF Accept, queueVars, Underway
<1>3. ASSUME NEW c \in Clients, AcceptRaises(c) PROVE Underway'
  BY <1>3, <1>a DEF AcceptRaises, tableVars, queueVars, Underway, TypeOK, ThreadsOK, LoopStates
<1>4. ASSUME NEW c \in Clients, Take(c) PROVE Underway'
  <2>1. /\ lock' = lock /\ worker' = worker /\ priocli' = priocli
        /\ loop.at = "walk"
        /\ \/ loop' = GoOn(loop.ready, loop.i + 1, priocli)
           \/ loop' = [loop EXCEPT !.at = "answer", !.req = Head(script[c])]
    BY <1>4 DEF Take, tableVars, At
  <2>2. loop'.at = "walk" \/ loop'.at = "answer" => loop'.i \in DOMAIN priocli
    BY <1>a, <2>1, GoOnPlace DEF Underway, TypeOK, ThreadsOK, LoopStates
  <2>3. loop'.at # "remove"
    <3>1. GoOn(loop.ready, loop.i + 1, priocli).at \in {"select", "walk"}
      BY <1>a, GoOnPlace
    <3>2. [loop EXCEPT !.at = "answer", !.req = Head(script[c])].at = "answer"
      BY <1>a DEF TypeOK, ThreadsOK, LoopStates
    <3> QED
      BY <2>1, <3>1, <3>2
  <2> QED
    BY <1>a, <2>1, <2>2, <2>3 DEF Underway
<1>5. ASSUME NEW c \in Clients, Finish(c) PROVE Underway'
  BY <1>5, <1>a DEF Finish, At, queueVars, Underway, TypeOK, ThreadsOK, LoopStates
<1>6. ASSUME NEW ready \in SUBSET Clients, Select(ready) PROVE Underway'
  <2>1. loop'.at = "walk" => loop'.i \in DOMAIN priocli
    BY <1>6, <1>a, GoOnPlace DEF Select
  <2>2. loop'.at \in {"select", "walk"}
    BY <1>6, <1>a, GoOnPlace DEF Select
  <2> QED
    BY <1>6, <1>a, <2>1, <2>2 DEF Select, tableVars, queueVars, Underway
<1>7. ASSUME LoopWaits PROVE Underway'
  BY <1>7, <1>a DEF LoopWaits, tableVars, queueVars, Underway
<1>8. ASSUME Answer PROVE Underway'
  <2>1. loop' = GoOn(loop.ready, loop.i + 1, priocli) /\ priocli' = priocli /\ lock' = None
    BY <1>8 DEF Answer
  <2>2. /\ loop'.at = "walk" => loop'.i \in DOMAIN priocli
        /\ loop'.at \in {"select", "walk"}
    BY <1>a, <2>1, GoOnPlace
  <2> QED
    BY <1>a, <2>1, <2>2 DEF Underway
<1>9. ASSUME Unlist PROVE Underway'
  <2>1. /\ loop' = GoOn(loop.ready, loop.i + 1, priocli') /\ lock' = lock /\ worker' = worker
        /\ priocli' = RemoveAt(priocli, loop.i) /\ loop.at = "remove"
    BY <1>9 DEF Unlist, queueVars
  <2>2. priocli' \in Seq(Clients)
    BY <1>a, <2>1, RemoveAtProperties DEF Underway
  <2>3. /\ loop'.at = "walk" => loop'.i \in DOMAIN priocli'
        /\ loop'.at \in {"select", "walk"}
    BY <1>a, <2>1, <2>2, GoOnPlace
  <2> QED
    BY <1>a, <2>1, <2>3 DEF Underway
<1>10. ASSUME Worker PROVE Underway'
  BY <1>10, <1>a DEF Worker, WorkerTakes, ReplyRefused, WorkerWaits, Reply, tableVars, queueVars,
                     Underway, TypeOK, ThreadsOK
<1>11. ASSUME HsTimer PROVE Underway'
  BY <1>11, <1>a DEF HsTimer, queueVars, Underway
<1>12. ASSUME NEW p \in Publishers, Begin(p) \/ Publish(p) PROVE Underway'
  <2>1. loop' = loop /\ priocli' = priocli /\ worker' = worker
    BY <1>12 DEF Begin, Publish, Found, NotFound, VisitRaises, WriteMessage, tableVars, queueVars
  <2>2. lock' \in {None, p, lock}
    BY <1>12 DEF Begin, Publish, Found, NotFound, VisitRaises, WriteMessage, Visit
  <2>3. p # "worker"
    BY VsoaServerAssumption
  <2> QED
    BY <1>a, <2>1, <2>2, <2>3 DEF Underway
<1>13. ASSUME CallDropped PROVE Underway'
  <2>1. /\ loop' = GoOn(loop.ready, loop.i + 1, priocli) /\ priocli' = priocli
        /\ lock' = lock /\ worker' = worker
    BY <1>13 DEF CallDropped, tableVars, queueVars
  <2>2. /\ loop'.at = "walk" => loop'.i \in DOMAIN priocli
        /\ loop'.at \in {"select", "walk"}
    BY <1>a, <2>1, GoOnPlace
  <2> QED
    BY <1>a, <2>1, <2>2 DEF Underway
<1>14. ASSUME HandlerRaises PROVE Underway'
  BY <1>14, <1>a DEF HandlerRaises, tableVars, queueVars, Underway, TypeOK, ThreadsOK, LoopStates
<1> QED
  BY <1>1, <1>2, <1>3, <1>4, <1>5, <1>6, <1>7, <1>8, <1>9, <1>10, <1>11, <1>12, <1>13, <1>14
  DEF Next, EventLoop

-----------------------------------------------------------------------------
\* The numbers of the messages written, and where the message being published is, depend on
\* the messages, the list and the number of the publication.
LEMMA NumbersKept ==
    ASSUME TypeOK, Numbered, got' = got, \A q \in Publishers : pub'[q].n = pub[q].n
    PROVE  Numbered'
<1>1. \A c \in Clients : \A k \in DOMAIN got[c] : got[c][k][1] \in Publishers
  BY DEF TypeOK, WireOK, Messages
<1> QED
  BY <1>1 DEF Numbered

LEMMA FreshKept ==
    ASSUME Fresh, Newest, UNCHANGED <<got, priocli>>,
           \A q \in Publishers : lock' = q => /\ lock = q /\ pub'[q].n = pub[q].n
                                            /\ pub[q].i \in Nat /\ pub'[q].i \in Nat
                                            /\ pub[q].i <= pub'[q].i,
           Len(priocli) \in Nat
    PROVE  Fresh' /\ Newest'
<1>1. Newest'
  BY DEF Newest
<1>2. Fresh'
  <2> SUFFICES ASSUME NEW q \in Publishers, lock' = q, NEW k \in pub'[q].i .. Len(priocli),
                      NEW l \in DOMAIN got[priocli[k]]
               PROVE  got[priocli[k]][l] # <<q, pub[q].n>>
    BY DEF Fresh
  <2>1. k \in pub[q].i .. Len(priocli)
    OBVIOUS
  <2> QED
    BY <2>1 DEF Fresh
<1> QED
  BY <1>1, <1>2

-----------------------------------------------------------------------------
\* A step beside the publications: the list, the messages and who publishes stay, and
\* fewer clients are due.
LEMMA Aside ==
    ASSUME ServerInv, UNCHANGED <<pub, got, changed, priocli, cut>>,
           \A p \in Publishers : lock' = p <=> lock = p,
           due' \subseteq due, due' \subseteq active' \cap subs'
    PROVE  PlaceInv' /\ OrderInv'
<1>1. Holders'
  BY DEF ServerInv, PlaceInv, Holders
<1>2. NobodyPassedOver'
  BY DEF ServerInv, PlaceInv, NobodyPassedOver
<1>3. StillDue' /\ NotCut'
  BY DEF ServerInv, PlaceInv, StillDue, NotCut
<1>4. Numbered' /\ Fresh' /\ Newest'
  BY DEF ServerInv, OrderInv, Numbered, Fresh, Newest
<1>5. SameOrder'
  BY DEF ServerInv, OrderInv, SameOrder
<1> QED
  BY <1>1, <1>2, <1>3, <1>4, <1>5 DEF PlaceInv, OrderInv

\* A step while nobody publishes, the list changing perhaps.
LEMMA Quiet ==
    ASSUME ServerInv, lock \notin Publishers, UNCHANGED <<pub, got, lock, active, subs, histVars>>
    PROVE  PlaceInv' /\ OrderInv'
<1>1. \A c \in due : cut
  BY DEF ServerInv, PlaceInv, NobodyPassedOver
<1>2. Holders'
  BY DEF ServerInv, PlaceInv, Holders
<1>3. NobodyPassedOver' /\ StillDue' /\ NotCut'
  BY <1>1 DEF NobodyPassedOver, StillDue, NotCut, histVars, ServerInv, PlaceInv
<1>4. Numbered'
  BY DEF ServerInv, OrderInv, Numbered
<1>5. Fresh' /\ Newest'
  BY DEF Fresh, Newest
<1>6. SameOrder'
  BY DEF ServerInv, OrderInv, SameOrder
<1> QED
  BY <1>2, <1>3, <1>4, <1>5, <1>6 DEF PlaceInv, OrderInv

-----------------------------------------------------------------------------
\* What clients, the event loop, the worker and the timer do to the publications: nothing,
\* though a subscription may change while a publisher goes through it.
LEMMA PeersAside ==
    ASSUME ServerInv, NEW c \in Clients, Peer(c)
    PROVE  PlaceInv' /\ OrderInv'
<1>1. /\ UNCHANGED <<pub, got, changed, priocli, lock, active, subs, cut>>
      /\ due' \subseteq due
  BY DEF Peer, PeerEnds, PeerReads, wireVars, tableVars, pubVars, histVars
<1>2. due' \subseteq active' \cap subs'
  BY <1>1 DEF ServerInv, PlaceInv, StillDue
<1> QED
  BY <1>1, <1>2, Aside

LEMMA TakeAside ==
    ASSUME ServerInv, NEW c \in Clients, Take(c)
    PROVE  PlaceInv' /\ OrderInv'
<1>1. /\ UNCHANGED <<pub, got, priocli, lock, cut>>
      /\ active' = active \cup {c}
      /\ subs' \in {subs, subs \cup {c}, subs \ {c}}
      /\ due' = IF c \in subs' THEN due ELSE due \ {c}
      /\ changed' = \/ changed
                    \/ /\ subs' # subs
                       /\ \E p \in Publishers : /\ pub[p].at = "visit" /\ pub[p].i \in DOMAIN priocli
                                              /\ priocli[pub[p].i] = c
  BY DEF Take, wireVars, tableVars
<1>2. /\ due \subseteq active \cap subs /\ due' \subseteq due
      /\ due' \subseteq active' \cap subs'
  BY <1>1 DEF ServerInv, PlaceInv, StillDue
<1>3. subs' # subs => c \notin due'
  BY <1>1, <1>2
<1>4. ASSUME changed', NEW p \in Publishers, lock' = p
      PROVE  priocli'[pub'[p].i] \notin due'
  <2>1. CASE changed
    BY <1>1, <1>2, <1>4, <2>1 DEF ServerInv, PlaceInv, StillDue
  <2>2. CASE ~changed
    <3>1. PICK q \in Publishers : pub[q].at = "visit" /\ priocli[pub[q].i] = c /\ subs' # subs
      BY <1>1, <1>4, <2>2
    <3>2. q = p
      BY <1>1, <1>4, <3>1 DEF ServerInv, PlaceInv, Holders
    <3> QED
      BY <1>1, <1>3, <3>1, <3>2
  <2> QED
    BY <2>1, <2>2
<1>5. StillDue'
  BY <1>2, <1>4 DEF StillDue
<1>6. Holders' /\ NobodyPassedOver' /\ NotCut'
  BY <1>1, <1>2 DEF ServerInv, PlaceInv, Holders, NobodyPassedOver, NotCut
<1>7. OrderInv'
  BY <1>1 DEF ServerInv, OrderInv, Numbered, Fresh, Newest, SameOrder
<1> QED
  BY <1>5, <1>6, <1>7 DEF PlaceInv

LEMMA LoopAside ==
    ASSUME ServerInv, EventLoop
    PROVE  PlaceInv' /\ OrderInv'
<1>a. /\ TypeOK /\ due \subseteq active \cap subs
      /\ None \notin Publishers /\ "loop" \notin Publishers
  BY VsoaServerAssumption DEF ServerInv, PlaceInv, StillDue
<1>1. ASSUME NEW c \in Clients, Accept(c) PROVE PlaceInv' /\ OrderInv'
  BY <1>1, <1>a, Quiet DEF Accept, wireVars, pubVars, histVars
<1>2. ASSUME NEW c \in Clients, AcceptRaises(c) PROVE PlaceInv' /\ OrderInv'
  BY <1>2, <1>a, Aside DEF AcceptRaises, wireVars, tableVars, pubVars, histVars
<1>3. ASSUME NEW c \in Clients, Take(c) PROVE PlaceInv' /\ OrderInv'
  BY <1>3, TakeAside
<1>4. ASSUME NEW c \in Clients, Finish(c) PROVE PlaceInv' /\ OrderInv'
  BY <1>4, <1>a, Aside DEF Finish, wireVars, pubVars, histVars
<1>5. ASSUME NEW ready \in SUBSET Clients, Select(ready) PROVE PlaceInv' /\ OrderInv'
  BY <1>5, <1>a, Aside DEF Select, wireVars, tableVars, pubVars, histVars
<1>6. ASSUME LoopWaits PROVE PlaceInv' /\ OrderInv'
  BY <1>6, <1>a, Aside DEF LoopWaits, wireVars, tableVars, pubVars, histVars
<1>7. ASSUME Answer PROVE PlaceInv' /\ OrderInv'
  <2>1. priocli[loop.i] \in Clients
    BY <1>7, AtClients DEF Answer, ServerInv
  <2>2. got' = got
    BY <1>7, <1>a, <2>1, WriteNothing DEF Answer
  <2> QED
    BY <1>7, <1>a, <2>2, Aside DEF Answer, pubVars, histVars
<1>8. ASSUME Unlist PROVE PlaceInv' /\ OrderInv'
  BY <1>8, <1>a, Quiet DEF Unlist, wireVars, pubVars, histVars
<1>9. ASSUME CallDropped PROVE PlaceInv' /\ OrderInv'
  BY <1>9, <1>a, Aside DEF CallDropped, wireVars, tableVars, pubVars, histVars
<1>10. ASSUME HandlerRaises PROVE PlaceInv' /\ OrderInv'
  BY <1>10, <1>a, Aside DEF HandlerRaises, wireVars, tableVars, pubVars, histVars
<1> QED
  BY <1>1, <1>2, <1>3, <1>4, <1>5, <1>6, <1>7, <1>8, <1>9, <1>10 DEF EventLoop

LEMMA WorkerAside ==
    ASSUME ServerInv, Worker \/ HsTimer
    PROVE  PlaceInv' /\ OrderInv'
<1>a. /\ TypeOK /\ due \subseteq active \cap subs
      /\ None \notin Publishers /\ "worker" \notin Publishers
  BY VsoaServerAssumption DEF ServerInv, PlaceInv, StillDue
<1>1. ASSUME WorkerTakes PROVE PlaceInv' /\ OrderInv'
  BY <1>1, <1>a, Aside DEF WorkerTakes, wireVars, tableVars, pubVars, histVars
<1>2. ASSUME ReplyRefused PROVE PlaceInv' /\ OrderInv'
  BY <1>2, <1>a, Aside DEF ReplyRefused, wireVars, tableVars, pubVars, histVars
<1>3. ASSUME WorkerWaits PROVE PlaceInv' /\ OrderInv'
  BY <1>3, <1>a, Aside DEF WorkerWaits, wireVars, tableVars, pubVars, histVars
<1>4. ASSUME Reply PROVE PlaceInv' /\ OrderInv'
  <2>1. worker \in Clients
    BY <1>4 DEF Reply, ServerInv, Underway
  <2>2. got' = got
    BY <1>4, <1>a, <2>1, WriteNothing DEF Reply
  <2> QED
    BY <1>4, <1>a, <2>2, Aside DEF Reply, tableVars, pubVars, histVars
<1>5. ASSUME HsTimer PROVE PlaceInv' /\ OrderInv'
  BY <1>5, <1>a, Aside DEF HsTimer, pubVars, histVars
<1> QED
  BY <1>1, <1>2, <1>3, <1>4, <1>5 DEF Worker

-----------------------------------------------------------------------------
\* A publication begins: everyone it has to reach is in the list, and its message is new.
LEMMA BeginKeeps ==
    ASSUME ServerInv, NEW p \in Publishers, Begin(p)
    PROVE  PlaceInv' /\ OrderInv'
<1>1. /\ lock = None /\ lock' = p /\ changed' = FALSE /\ priocli' = priocli /\ priocli # <<>>
      /\ pub[p].at = "idle"
      /\ pub' = [pub EXCEPT ![p] = [at |-> "visit", i |-> 1, n |-> pub[p].n + 1]]
      /\ due' = {c \in active \cap subs : Open(c)} /\ cut' = FALSE
      /\ UNCHANGED <<active, subs, got, link>>
  BY DEF Begin, wireVars, tableVars
<1>2. /\ pub \in [Publishers -> PubStates] /\ pub[p].n \in Nat
      /\ priocli \in Seq(Clients)
      /\ {c \in Clients : link[c] \in {"served", "finished"}} = ToSet(priocli)
      /\ active \subseteq Clients
      /\ got \in [Clients -> Seq(Messages)]
  BY DEF ServerInv, TypeOK, ThreadsOK, PubStates, TablesOK, SubscribersOK, WireOK
<1>3. /\ DOMAIN priocli = 1 .. Len(priocli) /\ Len(priocli) \in Nat /\ 1 \in DOMAIN priocli
  BY <1>1, <1>2, EmptySeq
<1>4. \A q \in Publishers : lock # q
  BY <1>1, VsoaServerAssumption
<1>5. /\ pub'[p].at = "visit" /\ pub'[p].i = 1 /\ pub'[p].n = pub[p].n + 1
      /\ \A q \in Publishers \ {p} : pub'[q] = pub[q]
  BY <1>1, <1>2
<1>6. Holders'
  BY <1>1, <1>2, <1>3, <1>4, <1>5 DEF ServerInv, PlaceInv, Holders
<1>7. NobodyPassedOver'
  <2> SUFFICES ASSUME NEW c \in due'
               PROVE  \E k \in pub'[p].i .. Len(priocli') : priocli'[k] = c
    BY <1>1 DEF NobodyPassedOver
  <2>1. c \in ToSet(priocli)
    BY <1>1, <1>2 DEF Open
  <2>2. PICK k \in DOMAIN priocli : priocli[k] = c
    BY <2>1 DEF ToSet
  <2>3. k \in pub'[p].i .. Len(priocli')
    BY <1>1, <1>3, <1>5
  <2> QED
    BY <1>1, <2>2, <2>3
<1>8. StillDue' /\ NotCut'
  BY <1>1 DEF StillDue, NotCut
<1>9. Numbered'
  <2>1. \A q \in Publishers : pub[q].n <= pub'[q].n /\ pub[q].n \in Nat /\ pub'[q].n \in Nat
    BY <1>2, <1>5 DEF PubStates
  <2> SUFFICES ASSUME NEW c \in Clients, NEW k \in DOMAIN got[c]
               PROVE  got[c][k][2] <= pub'[got[c][k][1]].n
    BY <1>1 DEF Numbered
  <2>2. got[c][k] \in Messages
    BY <1>2
  <2>3. got[c][k][1] \in Publishers /\ got[c][k][2] \in Nat
    BY <2>2 DEF Messages
  <2>4. got[c][k][2] <= pub[got[c][k][1]].n
    BY DEF ServerInv, OrderInv, Numbered
  <2> QED
    BY <2>1, <2>3, <2>4
<1>10. \A c \in Clients : \A k \in DOMAIN got[c] : got[c][k] # <<p, pub[p].n + 1>>
  <2> SUFFICES ASSUME NEW c \in Clients, NEW k \in DOMAIN got[c],
                      got[c][k] = <<p, pub[p].n + 1>>
               PROVE  FALSE
    OBVIOUS
  <2>1. pub[p].n + 1 <= pub[p].n
    BY DEF ServerInv, OrderInv, Numbered
  <2> QED
    BY <1>2, <2>1
<1>11. Fresh' /\ Newest'
  <2>1. \A k \in 1 .. Len(priocli) : priocli[k] \in Clients
    BY <1>2, <1>3
  <2> QED
    BY <1>1, <1>5, <1>10, <2>1 DEF Fresh, Newest
<1>12. SameOrder'
  BY <1>1 DEF ServerInv, OrderInv, SameOrder
<1> QED
  BY <1>6, <1>7, <1>8, <1>9, <1>11, <1>12 DEF PlaceInv, OrderInv

\* A publisher goes on to the next client, or returns: whoever is due is still ahead.
LEMMA OnToTheNext ==
    ASSUME ServerInv, NEW p \in Publishers, pub[p].at # "idle", Visit(p, pub[p].i + 1),
           UNCHANGED <<priocli, active, subs, cut>>,
           due' \subseteq due \ {priocli[pub[p].i]}
    PROVE  /\ PlaceInv'
           /\ lock' = p => pub'[p].i = pub[p].i + 1
           /\ lock' \in {None, p} /\ \A q \in Publishers : pub'[q].n = pub[q].n
<1>1. /\ lock = p /\ pub[p].i \in DOMAIN priocli /\ pub[p].n > 0
      /\ due \subseteq active \cap subs
      /\ \A q \in Publishers \ {p} : pub[q].at = "idle" /\ q # None
      /\ p # None /\ ~cut
  BY VsoaServerAssumption DEF ServerInv, PlaceInv, Holders, StillDue, NotCut
<1>2. /\ TypeOK /\ pub[p].i \in Nat /\ pub[p].i + 1 \in Nat \ {0}
      /\ priocli \in Seq(Clients) /\ DOMAIN priocli = 1 .. Len(priocli) /\ Len(priocli) \in Nat
  BY DEF ServerInv, TypeOK, ThreadsOK, PubStates, TablesOK
<1>3. /\ lock' \in {None, p} /\ changed' = FALSE
      /\ pub'[p].n = pub[p].n
      /\ \A q \in Publishers \ {p} : pub'[q] = pub[q]
      /\ IF pub[p].i + 1 \in DOMAIN priocli
         THEN lock' = p /\ pub'[p].at = "visit" /\ pub'[p].i = pub[p].i + 1
         ELSE lock' = None /\ pub'[p].at = "idle"
  BY <1>2, VisitKeeps
<1>4. ASSUME NEW c \in due'
      PROVE  \E k \in pub[p].i + 1 .. Len(priocli) : priocli[k] = c
  <2>1. PICK k \in pub[p].i .. Len(priocli) : priocli[k] = c
    BY <1>1, <1>4 DEF ServerInv, PlaceInv, NobodyPassedOver
  <2>2. k # pub[p].i
    BY <1>4, <2>1
  <2> QED
    BY <1>2, <2>1, <2>2
<1>5. Holders'
  BY <1>1, <1>3 DEF Holders
<1>6. NobodyPassedOver'
  <2>1. CASE pub[p].i + 1 \in DOMAIN priocli
    BY <1>3, <1>4, <2>1 DEF NobodyPassedOver
  <2>2. CASE pub[p].i + 1 \notin DOMAIN priocli
    <3>1. due' = {}
      BY <1>2, <1>4, <2>2
    <3> QED
      BY <3>1 DEF NobodyPassedOver
  <2> QED
    BY <2>1, <2>2
<1>7. StillDue' /\ NotCut'
  BY <1>1, <1>3 DEF StillDue, NotCut
<1> QED
  BY <1>1, <1>3, <1>5, <1>6, <1>7 DEF PlaceInv

\* A client that is not due is not subscribed, or its subscriptions have changed.
LEMMA PassedOverKeeps ==
    ASSUME ServerInv, NEW p \in Publishers, NotFound(p)
    PROVE  PlaceInv' /\ OrderInv'
<1>1. /\ pub[p].at # "idle" /\ Visit(p, pub[p].i + 1)
      /\ UNCHANGED <<priocli, active, subs, due, cut, got>>
      /\ pub[p].i \in DOMAIN priocli => priocli[pub[p].i] \notin active \cap subs \/ changed
  BY DEF NotFound, wireVars, tableVars, histVars
<1>2. lock = p /\ pub[p].i \in DOMAIN priocli /\ pub[p].i \in Nat
  BY <1>1 DEF ServerInv, PlaceInv, Holders, TypeOK, ThreadsOK, PubStates
<1>3. priocli[pub[p].i] \notin due
  BY <1>1, <1>2 DEF ServerInv, PlaceInv, StillDue
<1>4. /\ PlaceInv'
      /\ lock' = p => pub'[p].i = pub[p].i + 1
      /\ lock' \in {None, p} /\ \A q \in Publishers : pub'[q].n = pub[q].n
  BY <1>1, <1>3, OnToTheNext
<1>5. Numbered'
  BY <1>1, <1>4, NumbersKept DEF ServerInv, OrderInv
<1>6. Fresh' /\ Newest'
  <2>1. \A q \in Publishers : lock' = q => q = p
    BY <1>4, VsoaServerAssumption
  <2>2. Len(priocli) \in Nat
    BY DEF ServerInv, TypeOK, TablesOK
  <2> QED
    BY <1>1, <1>2, <1>4, <2>1, <2>2, FreshKept DEF ServerInv, OrderInv
<1>7. SameOrder'
  BY <1>1 DEF ServerInv, OrderInv, SameOrder
<1> QED
  BY <1>4, <1>5, <1>6, <1>7 DEF OrderInv

LEMMA FoundKeeps ==
    ASSUME ServerInv, NEW p \in Publishers, Found(p)
    PROVE  PlaceInv' /\ OrderInv'
<1>1. /\ pub[p].at = "visit" /\ pub' = [pub EXCEPT ![p].at = "write"] /\ changed' = FALSE
      /\ UNCHANGED <<priocli, active, subs, due, cut, got, lock>>
  BY DEF Found, wireVars, tableVars, histVars
<1>2. pub \in [Publishers -> PubStates]
  BY DEF ServerInv, TypeOK, ThreadsOK
<1>3. /\ pub'[p].at = "write"
      /\ \A q \in Publishers : pub'[q].i = pub[q].i /\ pub'[q].n = pub[q].n
      /\ \A q \in Publishers \ {p} : pub'[q] = pub[q]
  BY <1>1, <1>2 DEF PubStates
<1>4. Holders'
  BY <1>1, <1>3 DEF ServerInv, PlaceInv, Holders
<1>5. NobodyPassedOver' /\ StillDue' /\ NotCut'
  BY <1>1, <1>3 DEF ServerInv, PlaceInv, NobodyPassedOver, StillDue, NotCut
<1>6. Numbered'
  BY <1>1, <1>3, NumbersKept DEF ServerInv, OrderInv
<1>7. Fresh' /\ Newest'
  <2>1. Len(priocli) \in Nat /\ \A q \in Publishers : pub[q].i \in Nat
    BY <1>2 DEF ServerInv, TypeOK, TablesOK, PubStates
  <2> QED
    BY <1>1, <1>3, <2>1, FreshKept DEF ServerInv, OrderInv
<1>8. SameOrder'
  BY <1>1 DEF ServerInv, OrderInv, SameOrder
<1> QED
  BY <1>4, <1>5, <1>6, <1>7, <1>8 DEF PlaceInv, OrderInv

\* A publication is given up: whoever is due is passed over, and nobody is written anything.
LEMMA RaisesKeeps ==
    ASSUME ServerInv, NEW p \in Publishers, VisitRaises(p)
    PROVE  PlaceInv' /\ OrderInv'
<1>1. /\ pub[p].at = "visit" /\ pub' = [pub EXCEPT ![p].at = "idle", ![p].i = 1]
      /\ lock' = None /\ cut' = TRUE /\ changed' = FALSE
      /\ UNCHANGED <<priocli, active, subs, due, got>>
  BY DEF VisitRaises, wireVars, tableVars
<1>2. pub \in [Publishers -> PubStates] /\ \A q \in Publishers : q # None
  BY VsoaServerAssumption DEF ServerInv, TypeOK, ThreadsOK
<1>3. /\ pub'[p].at = "idle"
      /\ \A q \in Publishers : pub'[q].n = pub[q].n
      /\ \A q \in Publishers \ {p} : pub'[q] = pub[q] /\ pub[q].at = "idle"
  BY <1>1, <1>2 DEF PubStates, ServerInv, PlaceInv, Holders
<1>4. Holders'
  BY <1>1, <1>2, <1>3 DEF Holders
<1>5. NobodyPassedOver' /\ StillDue' /\ NotCut'
  BY <1>1, <1>2 DEF NobodyPassedOver, StillDue, NotCut, ServerInv, PlaceInv
<1>6. Numbered'
  BY <1>1, <1>3, NumbersKept DEF ServerInv, OrderInv
<1>7. Fresh' /\ Newest'
  BY <1>1, <1>2 DEF Fresh, Newest
<1>8. SameOrder'
  BY <1>1 DEF ServerInv, OrderInv, SameOrder
<1> QED
  BY <1>4, <1>5, <1>6, <1>7, <1>8 DEF PlaceInv, OrderInv

-----------------------------------------------------------------------------
\* A message written behind the others.
LEMMA Behind ==
    ASSUME NEW M, NEW s \in Seq(M), NEW m \in M
    PROVE  LET r == s \o <<m>> IN
           /\ Len(r) = Len(s) + 1 /\ Len(s) \in Nat
           /\ DOMAIN s = 1 .. Len(s) /\ DOMAIN r = 1 .. Len(s) + 1
           /\ \A k \in DOMAIN s : r[k] = s[k]
           /\ r[Len(s) + 1] = m
<1>1. <<m>> \in Seq(M) /\ Len(<<m>>) = 1 /\ <<m>>[1] = m
  OBVIOUS
<1>2. Len(s) \in Nat /\ DOMAIN s = 1 .. Len(s)
  OBVIOUS
<1>3. /\ s \o <<m>> \in Seq(M) /\ Len(s \o <<m>>) = Len(s) + Len(<<m>>)
      /\ \A k \in 1 .. Len(s) + Len(<<m>>) :
           (s \o <<m>>)[k] = IF k <= Len(s) THEN s[k] ELSE <<m>>[k - Len(s)]
  BY <1>1, ConcatProperties
<1> DEFINE r == s \o <<m>>
<1> HIDE DEF r
<1>4. Len(r) = Len(s) + 1 /\ DOMAIN r = 1 .. Len(s) + 1
  BY <1>1, <1>3 DEF r
<1>5. \A k \in 1 .. Len(s) + 1 : r[k] = IF k <= Len(s) THEN s[k] ELSE <<m>>[k - Len(s)]
  BY <1>1, <1>3 DEF r
<1>6. \A k \in DOMAIN s : r[k] = s[k]
  BY <1>2, <1>5
<1>7. r[Len(s) + 1] = m
  BY <1>1, <1>2, <1>5
<1> QED
  BY <1>2, <1>4, <1>6, <1>7 DEF r

\* Two sequences have what they share in one order.
Agree(s, t) ==
    \A i, j \in DOMAIN s : \A k, l \in DOMAIN t : i < j /\ s[i] = t[k] /\ s[j] = t[l] => k < l

\* They still have when one of them gets a message it did not have, provided the other has
\* it at its end, if at all.
LEMMA AgreeBehind ==
    ASSUME NEW M, NEW s \in Seq(M), NEW t \in Seq(M), NEW m \in M,
           IsInjective(s), IsInjective(t), Agree(s, t), Agree(t, s),
           \A k \in DOMAIN s : s[k] # m,
           \A l \in DOMAIN t : t[l] = m => l = Len(t)
    PROVE  /\ IsInjective(s \o <<m>>)
           /\ Agree(s \o <<m>>, t) /\ Agree(t, s \o <<m>>)
<1> DEFINE r == s \o <<m>>
<1>1. /\ Len(r) = Len(s) + 1 /\ Len(s) \in Nat
      /\ DOMAIN s = 1 .. Len(s) /\ DOMAIN r = 1 .. Len(s) + 1
      /\ \A k \in DOMAIN s : r[k] = s[k]
      /\ r[Len(s) + 1] = m
  BY Behind
<1>2. DOMAIN t = 1 .. Len(t) /\ Len(t) \in Nat
  OBVIOUS
<1> HIDE DEF r
<1>3. \A k \in DOMAIN r : k \in DOMAIN s \/ k = Len(s) + 1
  BY <1>1
<1>4. IsInjective(r)
  BY <1>1, <1>3 DEF IsInjective
<1>5. Agree(r, t)
  <2> SUFFICES ASSUME NEW i \in DOMAIN r, NEW j \in DOMAIN r,
                      NEW k \in DOMAIN t, NEW l \in DOMAIN t,
                      i < j, r[i] = t[k], r[j] = t[l]
               PROVE  k < l
    BY DEF Agree
  <2>1. i \in DOMAIN s /\ r[i] = s[i]
    BY <1>1
  <2>2. CASE j \in DOMAIN s
    BY <1>1, <2>1, <2>2 DEF Agree
  <2>3. CASE j = Len(s) + 1
    <3>1. l = Len(t) /\ k # l
      BY <1>1, <2>1, <2>3
    <3> QED
      BY <1>2, <3>1
  <2> QED
    BY <1>3, <2>2, <2>3
<1>6. Agree(t, r)
  <2> SUFFICES ASSUME NEW i \in DOMAIN t, NEW j \in DOMAIN t,
                      NEW k \in DOMAIN r, NEW l \in DOMAIN r,
                      i < j, t[i] = r[k], t[j] = r[l]
               PROVE  k < l
    BY DEF Agree
  <2>1. k \in DOMAIN s
    <3>1. k # Len(s) + 1
      BY <1>1, <1>2
    <3> QED
      BY <1>3, <3>1
  <2>2. CASE l \in DOMAIN s
    BY <1>1, <2>1, <2>2 DEF Agree
  <2>3. CASE l = Len(s) + 1
    BY <1>1, <2>1, <2>3
  <2> QED
    BY <1>3, <2>2, <2>3
<1> QED
  BY <1>4, <1>5, <1>6 DEF r

\* A message is written to a client that has not had it, behind the messages it has; the
\* clients that have it already have nothing behind it.
LEMMA WriteMessageKeeps ==
    ASSUME ServerInv, NEW p \in Publishers, WriteMessage(p)
    PROVE  PlaceInv' /\ OrderInv'
<1> DEFINE c == priocli[pub[p].i]
           m == <<p, pub[p].n>>
<1>1. /\ pub[p].at # "idle" /\ Visit(p, pub[p].i + 1)
      /\ UNCHANGED <<priocli, active, subs, cut>> /\ due' \subseteq due \ {c}
      /\ Write(c, <<m>>)
  BY DEF WriteMessage, tableVars
<1>2. /\ PlaceInv'
      /\ lock' = p => pub'[p].i = pub[p].i + 1
      /\ lock' \in {None, p} /\ \A q \in Publishers : pub'[q].n = pub[q].n
  BY <1>1, OnToTheNext
<1>3. /\ lock = p /\ pub[p].i \in DOMAIN priocli /\ pub[p].i \in Nat /\ pub[p].n > 0
      /\ pub[p].n \in 0 .. MaxPublish /\ c \in Clients
      /\ \A q \in Publishers : lock' = q => q = p
  BY <1>1, <1>2, AtClients, VsoaServerAssumption
  DEF ServerInv, PlaceInv, Holders, TypeOK, ThreadsOK, PubStates
<1>4. m \in Messages
  <2>1. pub[p].n \in 1 .. MaxPublish
    BY <1>3, VsoaServerAssumption
  <2> QED
    BY <2>1 DEF Messages
<1>5. /\ got \in [Clients -> Seq(Messages)]
      /\ priocli \in Seq(Clients) /\ IsInjective(priocli)
      /\ DOMAIN priocli = 1 .. Len(priocli) /\ Len(priocli) \in Nat
  BY DEF ServerInv, TypeOK, WireOK, TablesOK
<1>6. /\ got'[c] = got[c] \/ got'[c] = got[c] \o <<m>>
      /\ \A d \in Clients \ {c} : got'[d] = got[d]
  <2>1. <<m>> \in Seq(Messages)
    BY <1>4
  <2> QED
    BY <1>1, <1>3, <2>1, WriteKeeps DEF ServerInv
<1>7. /\ \A l \in DOMAIN got[c] : got[c][l] # m
      /\ \A d \in Clients : \A l \in DOMAIN got[d] : got[d][l] = m => l = Len(got[d])
  <2>1. pub[p].i \in pub[p].i .. Len(priocli)
    BY <1>3, <1>5
  <2> QED
    BY <1>3, <2>1 DEF ServerInv, OrderInv, Fresh, Newest
<1>8. \A k \in pub[p].i + 1 .. Len(priocli) : priocli[k] \in Clients \ {c}
  <2> SUFFICES ASSUME NEW k \in pub[p].i + 1 .. Len(priocli)
               PROVE  priocli[k] \in Clients /\ priocli[k] # c
    OBVIOUS
  <2>1. k \in DOMAIN priocli /\ k # pub[p].i
    BY <1>3, <1>5
  <2> QED
    BY <1>3, <1>5, <2>1 DEF IsInjective
<1>9. /\ Len(got[c] \o <<m>>) = Len(got[c]) + 1 /\ Len(got[c]) \in Nat
      /\ DOMAIN got[c] = 1 .. Len(got[c]) /\ DOMAIN (got[c] \o <<m>>) = 1 .. Len(got[c]) + 1
      /\ \A k \in DOMAIN got[c] : (got[c] \o <<m>>)[k] = got[c][k]
      /\ (got[c] \o <<m>>)[Len(got[c]) + 1] = m
  <2>1. got[c] \in Seq(Messages)
    BY <1>3, <1>5
  <2> HIDE DEF c, m
  <2> QED
    BY <1>4, <2>1, Behind
<1> DEFINE longer == got[c] \o <<m>>
<1>10. \A d \in Clients : \A k \in DOMAIN got'[d] :
         \/ k \in DOMAIN got[d] /\ got'[d][k] = got[d][k]
         \/ d = c /\ got'[d] = longer /\ k = Len(longer) /\ got'[d][k] = m
  <2> SUFFICES ASSUME NEW d \in Clients, NEW k \in DOMAIN got'[d],
                      ~(k \in DOMAIN got[d] /\ got'[d][k] = got[d][k])
               PROVE  d = c /\ got'[d] = longer /\ k = Len(longer) /\ got'[d][k] = m
    OBVIOUS
  <2>1. d = c /\ got'[c] = longer
    BY <1>6
  <2> HIDE DEF c, m
  <2> QED
    BY <1>9, <2>1
<1> HIDE DEF c, m
<1>11. Numbered'
  <2> SUFFICES ASSUME NEW d \in Clients, NEW k \in DOMAIN got'[d]
               PROVE  got'[d][k][2] <= pub'[got'[d][k][1]].n
    BY DEF Numbered
  <2>1. CASE k \in DOMAIN got[d] /\ got'[d][k] = got[d][k]
    <3>1. got[d][k][1] \in Publishers
      BY <1>5, <2>1 DEF Messages
    <3>2. got[d][k][2] <= pub[got[d][k][1]].n
      BY <2>1 DEF ServerInv, OrderInv, Numbered
    <3> QED
      BY <1>2, <2>1, <3>1, <3>2
  <2>2. CASE got'[d][k] = m
    <3>1. m[1] = p /\ m[2] = pub[p].n
      BY DEF m
    <3> QED
      BY <1>2, <1>3, <2>2, <3>1
  <2> QED
    BY <1>10, <2>1, <2>2
<1>12. Fresh'
  <2> SUFFICES ASSUME lock' = p, NEW k \in pub'[p].i .. Len(priocli'),
                      NEW l \in DOMAIN got'[priocli'[k]]
               PROVE  got'[priocli'[k]][l] # <<p, pub'[p].n>>
    BY <1>3 DEF Fresh
  <2>1. k \in pub[p].i + 1 .. Len(priocli) /\ priocli' = priocli
    BY <1>1, <1>2
  <2>2. got'[priocli[k]] = got[priocli[k]]
    BY <1>6, <1>8, <2>1
  <2>3. k \in pub[p].i .. Len(priocli)
    BY <1>3, <2>1
  <2> QED
    BY <1>2, <1>3, <2>1, <2>2, <2>3 DEF ServerInv, OrderInv, Fresh
<1>13. Newest'
  <2> SUFFICES ASSUME NEW d \in Clients, NEW k \in DOMAIN got'[d], got'[d][k] = m
               PROVE  k = Len(got'[d])
    BY <1>2, <1>3 DEF Newest, m
  <2>1. CASE k \in DOMAIN got[d] /\ got'[d][k] = got[d][k]
    <3>1. k = Len(got[d]) /\ d # c
      BY <1>7, <2>1
    <3> QED
      BY <1>6, <3>1
  <2>2. CASE got'[d] = longer /\ k = Len(longer)
    BY <2>2
  <2> QED
    BY <1>10, <2>1, <2>2
<1>14. SameOrder'
  <2>1. \A d \in Clients : IsInjective(got[d])
    BY DEF ServerInv, OrderInv, SameOrder
  <2>2. \A d, e \in Clients : Agree(got[d], got[e])
    BY DEF ServerInv, OrderInv, SameOrder, Agree
  <2>3. CASE got'[c] = got[c]
    <3>1. \A d \in Clients : got'[d] = got[d]
      BY <1>6, <2>3
    <3> QED
      BY <2>1, <2>2, <3>1 DEF SameOrder, Agree
  <2>4. CASE got'[c] = longer
    <3>1. ASSUME NEW d \in Clients
          PROVE  IsInjective(longer) /\ Agree(longer, got[d]) /\ Agree(got[d], longer)
      <4>1. got[c] \in Seq(Messages) /\ got[d] \in Seq(Messages)
        BY <1>3, <1>5
      <4>2. /\ IsInjective(got[c]) /\ IsInjective(got[d])
            /\ Agree(got[c], got[d]) /\ Agree(got[d], got[c])
        BY <1>3, <2>1, <2>2
      <4> QED
        BY <1>4, <1>7, <4>1, <4>2, AgreeBehind
    <3>2. Agree(longer, longer)
      <4>1. IsInjective(longer)
        BY <1>3, <3>1
      <4> HIDE DEF longer
      <4> QED
        BY <4>1 DEF Agree, IsInjective
    <3> HIDE DEF longer
    <3>3. \A d \in Clients : IsInjective(got'[d])
      BY <1>3, <1>6, <2>1, <2>4, <3>1
    <3>4. \A d, e \in Clients : Agree(got'[d], got'[e])
      BY <1>6, <2>2, <2>4, <3>1, <3>2
    <3> QED
      BY <3>3, <3>4 DEF SameOrder, Agree
  <2> QED
    BY <1>6, <2>3, <2>4
<1> QED
  BY <1>2, <1>11, <1>12, <1>13, <1>14 DEF OrderInv

-----------------------------------------------------------------------------
LEMMA InitServerInv == Init => ServerInv
<1> SUFFICES ASSUME Init PROVE ServerInv
  OBVIOUS
<1>1. WireOK
  <2>1. script \in [Clients -> Requests]
    BY VsoaServerAssumption DEF Init
  <2>2. /\ unread = [c \in Clients |-> 0] /\ got = [c \in Clients |-> <<>>]
        /\ ended = {} /\ shut = {}
    BY DEF Init
  <2>3. 0 \in 0 .. Room
    BY VsoaServerAssumption
  <2> QED
    BY <2>1, <2>2, <2>3 DEF WireOK
<1>2. TablesOK
  <2>1. /\ link = [c \in Clients |-> "asked"] /\ priocli = <<>> /\ hslist = {} /\ closed = {}
        /\ hsalive = [c \in Clients |-> Patience]
    BY DEF Init
  <2>2. Patience \in 0 .. Patience
    BY VsoaServerAssumption
  <2> QED
    BY <2>1, <2>2 DEF TablesOK, IsInjective, ToSet
<1>3. SubscribersOK
  BY DEF Init, SubscribersOK
<1>4. ThreadsOK
  <2>1. /\ loop = idle /\ lock = None /\ jobs = <<>> /\ worker = None /\ changed = FALSE
        /\ pub = [p \in Publishers |-> [at |-> "idle", i |-> 1, n |-> 0]]
    BY DEF Init
  <2>2. idle \in LoopStates
    BY DEF idle, LoopStates
  <2>3. [at |-> "idle", i |-> 1, n |-> 0] \in PubStates
    BY VsoaServerAssumption DEF PubStates
  <2>4. pub \in [Publishers -> PubStates]
    BY <2>1, <2>3
  <2>5. jobs \in Seq(Clients)
    BY <2>1, EmptySeq
  <2>6. changed \in BOOLEAN
    BY <2>1
  <2> QED
    BY <2>1, <2>2, <2>4, <2>5, <2>6 DEF ThreadsOK
<1>5. Underway
  BY DEF Init, Underway, idle, None
<1>6. PlaceInv
  BY VsoaServerAssumption DEF Init, PlaceInv, Holders, NobodyPassedOver, StillDue, NotCut
<1>7. OrderInv
  <2>1. /\ \A c \in Clients : got[c] = <<>> /\ DOMAIN got[c] = {}
        /\ \A p \in Publishers : lock # p
    BY VsoaServerAssumption DEF Init
  <2> QED
    BY <2>1 DEF OrderInv, Numbered, Fresh, Newest, SameOrder, IsInjective
<1> QED
  BY <1>1, <1>2, <1>3, <1>4, <1>5, <1>6, <1>7 DEF ServerInv, TypeOK

LEMMA NextServerInv == ServerInv /\ [Next]_vars => ServerInv'
<1> SUFFICES ASSUME ServerInv, [Next]_vars PROVE ServerInv'
  OBVIOUS
<1>a. TypeOK /\ Underway /\ Holders
  BY DEF ServerInv, PlaceInv
<1>1. CASE Next
  <2>1. TypeOK'
    BY <1>1, <1>a, TypePeer, TypeLoop, TypeWorker, TypePublish DEF Next
  <2>2. Underway'
    BY <1>1, UnderwayKept
  <2>3. PlaceInv' /\ OrderInv'
    BY <1>1, PeersAside, LoopAside, WorkerAside, BeginKeeps, PassedOverKeeps, FoundKeeps,
       RaisesKeeps, WriteMessageKeeps
    DEF Next, Publish
  <2> QED
    BY <2>1, <2>2, <2>3 DEF ServerInv
<1>2. CASE UNCHANGED vars
  <2>1. TypeOK'
    BY <1>2, <1>a, PartsKept
    DEF vars, TypeOK, peerVars, wireVars, tableVars, queueVars, pubVars, histVars
  <2>2. Underway'
    BY <1>2, <1>a DEF vars, Underway
  <2>3. due \subseteq active \cap subs
    BY DEF ServerInv, PlaceInv, StillDue
  <2>4. PlaceInv' /\ OrderInv'
    BY <1>2, <2>3, Aside DEF vars
  <2> QED
    BY <2>1, <2>2, <2>4 DEF ServerInv
<1> QED
  BY <1>1, <1>2

\* The invariant: where the lock, the event loop and the publishers are, whom a publication
\* has yet to reach, and where its message is in what the clients have been written.
THEOREM ServerInvariant == Spec => []ServerInv
BY InitServerInv, NextServerInv, PTL DEF Spec

\* The server's state keeps its shape: no client is listed twice, the list holds the
\* connections that are served or being taken down, and the timer watches listed clients
\* only, although three kinds of threads change them.
THEOREM TypesKept == Spec => []TypeOK
<1>1. ServerInv => TypeOK
  BY DEF ServerInv
<1> QED
  BY <1>1, ServerInvariant, PTL

\* All clients are written the messages of all publishers in one order and none twice, for
\* any number of clients and publishing threads, and no subscriber that stays is passed over
\* by a publication whatever the event loop does to the list meanwhile, unless the
\* publication raised because a client's topics changed under it: then those still due are.
THEOREM InOrderToAll == Spec => []PublishedToAll
<1>1. ServerInv => PublishedToAll
  BY DEF ServerInv, PlaceInv, OrderInv, PublishedToAll
<1> QED
  BY <1>1, ServerInvariant, PTL
=============================================================================
