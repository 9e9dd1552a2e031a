-------------------------- MODULE VsoaClientProofs --------------------------
(***************************************************************************)
(* Proofs about VsoaClient: it implements RemoteCall for every number of   *)
(* threads and requests, any timeouts and any space of numbers.            *)
(***************************************************************************)
EXTENDS VsoaClient, FiniteSetTheorems, WellFoundedInduction, TLAPS

Ready == {q \in Requests : stage[q] = "prepared"}
OnWire == asked \cup InTransit

\* A number means one request: among those pending, those about to be sent and the
\* packets under way.
Numbering ==
    /\ \A i, j \in DOMAIN pendings : pendings[i].seq = pendings[j].seq => i = j
    /\ \A q \in Ready : number[q] \notin InUse
    /\ \A p, q \in Ready : number[p] = number[q] => p = q
    /\ \A w \in OnWire : \A q \in Ready : number[q] # w.seq
    /\ \A w \in OnWire : \A i \in DOMAIN pendings :
          pendings[i].seq = w.seq => pendings[i].req = w.req

\* A request is pending at most once, after it was sent, and has its callback only as
\* long as it was not called.
Once ==
    /\ \A i, j \in DOMAIN pendings :
          pendings[i].req = pendings[j].req /\ pendings[i].req # Ping => i = j
    /\ \A i \in DOMAIN pendings : pendings[i].req # Ping =>
          /\ stage[pendings[i].req] \in {"sent", "returned"}
          /\ pendings[i].live => called[pendings[i].req] = 0

\* The callback of a request is called at most once, with its own reply or none.
Story ==
    \A q \in Requests :
       /\ called[q] \in {0, 1}
       /\ stage[q] \in {"new", "prepared"} => called[q] = 0
       /\ stage[q] = "returned" => called[q] = 1
       /\ called[q] = 1 => reply[q] \in {q, None}

\* The fetches of a thread follow each other, so that its event is the one of the fetch
\* under way: it is set only when the callback of that fetch was called.
Events ==
    /\ \A p, q \in Fetches : p[1] = q[1] /\ p[2] < q[2] /\ stage[q] # "new" => stage[p] = "returned"
    /\ \A q \in Fetches : stage[q] = "prepared" => ~event[q[1]]
    /\ \A q \in Fetches : stage[q] = "sent" /\ event[q[1]] => called[q] = 1

Shapes ==
    /\ {connected, listed, emitted} \subseteq BOOLEAN
    /\ sock \in {"none", "open", "hung", "ended"}
    /\ loop \in {"connect", "loop", "down", "exited"}
    /\ (loop = "loop") => connected
    /\ pendings \in Seq(Pending)
    /\ seqno \in Numbers /\ number \in [Requests -> Numbers]
    /\ pingLost \in 0 .. MaxPingLost + 1
    /\ stage \in [Requests -> {"new", "prepared", "sent", "returned"}]
    /\ event \in [Threads -> BOOLEAN]
    /\ reply \in [Requests -> Requests \cup {Ping, None}]
    /\ called \in [Requests -> Nat]
    /\ asked \subseteq Wire /\ inbox \in Seq(Wire)

ClientInv == Shapes /\ Numbering /\ Once /\ Story /\ Events

-----------------------------------------------------------------------------
\* Less than Space numbers after n are all different.
LEMMA Distinct ==
    ASSUME NEW n \in Nat, NEW x \in 0 .. Space - 1, NEW y \in 0 .. Space - 1,
           (n + x) % Space = (n + y) % Space
    PROVE  x = y
<1> DEFINE a == (n + x) \div Space
           b == (n + y) \div Space
           r == (n + x) % Space
<1>1. Space \in Nat /\ Space > 0
  BY VsoaClientAssumption
<1>2. a \in Int /\ b \in Int /\ r \in Int /\ n + x = Space * a + r /\ n + y = Space * b + r
  BY <1>1
<1>3. x - y = Space * (a - b)
  BY <1>1, <1>2
<1>4. a - b \in Int /\ -Space < x - y /\ x - y < Space
  BY <1>1, <1>2
<1> HIDE DEF a, b, r
<1>5. \A d \in Int : -Space < Space * d /\ Space * d < Space => d = 0
  <2> SUFFICES ASSUME NEW d \in Int, -Space < Space * d, Space * d < Space PROVE d = 0
    OBVIOUS
  <2>1. d >= 1 => Space * (d - 1) >= 0
    BY <1>1
  <2>2. d <= -1 => Space * (-1 - d) >= 0
    BY <1>1
  <2> QED
    BY <1>1, <2>1, <2>2
<1> QED
  BY <1>1, <1>3, <1>4, <1>5

\* A set of naturals that is not empty has a least member.
LEMMA Least ==
    ASSUME NEW S \in SUBSET Nat, S # {}
    PROVE  \E k \in S : \A l \in S : k <= l
<1>1. PICK k \in S : \A l \in S : <<l, k>> \notin OpToRel(<, Nat)
  BY NatLessThanWellFounded, WFMin
<1>2. \A l \in S : ~ (l < k)
  BY <1>1, Zenon DEF OpToRel
<1> QED
  BY <1>2

\* With room among the pending requests there is a number that none of them has, and it
\* is the one taken.
LEMMA FreeNumber ==
    ASSUME pendings \in Seq(Pending), NEW n \in Nat, Len(pendings) < Space - 1
    PROVE  FreeAfter(n) \in Numbers \ InUse
<1> DEFINE tries == 0 .. Space - 2
           free == {k \in tries : (n + k) % Space \notin InUse}
<1>1. Space \in Nat /\ Space > 1 /\ Len(pendings) \in Nat
  BY VsoaClientAssumption
<1>2. free # {}
  <2> SUFFICES ASSUME free = {} PROVE FALSE
    OBVIOUS
  <2>1. \A k \in tries : \E i \in DOMAIN pendings : pendings[i].seq = (n + k) % Space
    BY DEF InUse
  <2> DEFINE f == [k \in tries |-> CHOOSE i \in DOMAIN pendings : pendings[i].seq = (n + k) % Space]
  <2>2. f \in [tries -> DOMAIN pendings] /\ \A k \in tries : pendings[f[k]].seq = (n + k) % Space
    BY <2>1
  <2>3. IsFiniteSet(tries) /\ Cardinality(tries) = Space - 1
    <3>1. 0 \in Int /\ Space - 2 \in Int /\ ~ (0 > Space - 2) /\ (Space - 2) - 0 + 1 = Space - 1
      BY <1>1
    <3> QED
      BY <3>1, FS_Interval, Zenon
  <2>4. IsFiniteSet(DOMAIN pendings) /\ Cardinality(DOMAIN pendings) = Len(pendings)
    <3>1. DOMAIN pendings = 1 .. Len(pendings)
      OBVIOUS
    <3>2. /\ IsFiniteSet(1 .. Len(pendings))
          /\ Cardinality(1 .. Len(pendings)) = IF 1 > Len(pendings) THEN 0 ELSE Len(pendings) - 1 + 1
      <4>1. 1 \in Int /\ Len(pendings) \in Int
        BY <1>1
      <4> QED
        BY <4>1, FS_Interval, Zenon
    <3> QED
      BY <1>1, <3>1, <3>2
  <2>5. Cardinality(DOMAIN pendings) < Cardinality(tries)
    BY <2>3, <2>4
  <2> HIDE DEF f, tries
  <2>6. PICK x, y \in tries : x # y /\ f[x] = f[y]
    <3>1. f \in [tries -> DOMAIN pendings]
      BY <2>2
    <3> QED
      BY <3>1, <2>3, <2>4, <2>5, FS_PigeonHole
  <2>7. (n + x) % Space = (n + y) % Space
    BY <2>2, <2>6
  <2>8. x \in 0 .. Space - 1 /\ y \in 0 .. Space - 1
    BY <1>1 DEF tries
  <2> QED
    BY <2>6, <2>7, <2>8, Distinct
<1>3. \E k \in free : \A l \in free : k <= l
  <2>1. free \in SUBSET Nat
    BY <1>1
  <2> QED
    BY <1>2, <2>1, Least, Zenon
<1> DEFINE k == CHOOSE m \in free : \A l \in free : m <= l
<1>4. k \in free
  BY <1>3
<1>5. FreeAfter(n) = (n + k) % Space
  BY <1>2 DEF FreeAfter
<1>6. k \in Nat /\ (n + k) % Space \in 0 .. Space - 1 /\ (n + k) % Space \notin InUse
  <2> HIDE DEF k
  <2> QED
    BY <1>1, <1>4
<1> QED
  BY <1>5, <1>6 DEF Numbers

LEMMA NextNumber == ASSUME NEW n \in Nat PROVE NumberAfter(n) \in Numbers
BY VsoaClientAssumption DEF NumberAfter, Numbers

\* The requests pending have different numbers, so there are no more than numbers.
LEMMA Bounded ==
    ASSUME NEW s \in Seq(Pending),
           \A i, j \in DOMAIN s : s[i].seq = s[j].seq => i = j
    PROVE  Len(s) <= Space
<1> SUFFICES ASSUME Len(s) > Space PROVE FALSE
  BY VsoaClientAssumption
<1> DEFINE f == [i \in DOMAIN s |-> s[i].seq]
<1>1. Space \in Nat /\ Space > 1 /\ Len(s) \in Nat /\ DOMAIN s = 1 .. Len(s)
  BY VsoaClientAssumption
<1>2. f \in [DOMAIN s -> Numbers]
  <2>1. \A i \in DOMAIN s : s[i] \in Pending
    OBVIOUS
  <2>2. \A x \in Pending : x.seq \in Numbers
    BY DEF Pending
  <2> QED
    BY <2>1, <2>2
<1>3. /\ 0 \in Int /\ 1 \in Int /\ Len(s) \in Int /\ Space - 1 \in Int
      /\ ~ (1 > Len(s)) /\ ~ (0 > Space - 1) /\ Len(s) - 1 + 1 = Len(s) /\ (Space - 1) - 0 + 1 = Space
  BY <1>1
<1>4. IsFiniteSet(DOMAIN s) /\ Cardinality(DOMAIN s) = Len(s)
  BY <1>1, <1>3, FS_Interval, Zenon
<1>5. IsFiniteSet(Numbers) /\ Cardinality(Numbers) = Space
  BY <1>3, FS_Interval, Zenon DEF Numbers
<1>6. Cardinality(Numbers) < Cardinality(DOMAIN s)
  BY <1>4, <1>5
<1> HIDE DEF f
<1>7. PICK x, y \in DOMAIN s : x # y /\ f[x] = f[y]
  BY <1>2, <1>4, <1>5, <1>6, FS_PigeonHole
<1> QED
  BY <1>7 DEF f

\* What KeepOnly leaves of the list.
LEMMA Kept ==
    ASSUME pendings \in Seq(Pending), NEW I \in SUBSET DOMAIN pendings, KeepOnly(I)
    PROVE  /\ pendings' \in Seq(Pending)
           /\ \E at \in [DOMAIN pendings' -> I] :
                /\ \A j, k \in DOMAIN pendings' : at[j] = at[k] => j = k
                /\ \A k \in DOMAIN pendings' : pendings'[k] = pendings[at[k]]
<1>1. PICK at \in [1 .. Cardinality(I) -> I] :
        /\ \A j, k \in DOMAIN at : j < k => at[j] < at[k]
        /\ pendings' = [k \in DOMAIN at |-> pendings[at[k]]]
  BY DEF KeepOnly
<1>2. Cardinality(I) \in Nat
  <2>1. IsFiniteSet(1 .. Len(pendings))
    <3>1. 1 \in Int /\ Len(pendings) \in Int
      OBVIOUS
    <3> QED
      BY <3>1, FS_Interval, Zenon
  <2>2. I \in SUBSET (1 .. Len(pendings))
    OBVIOUS
  <2> QED
    BY <2>1, <2>2, FS_Subset, FS_CardinalityType
<1>3. DOMAIN pendings' = 1 .. Cardinality(I) /\ DOMAIN at = 1 .. Cardinality(I)
  BY <1>1
<1>4. \A k \in DOMAIN pendings' : at[k] \in I /\ pendings[at[k]] \in Pending
  BY <1>1, <1>3
<1>5. pendings' \in Seq(Pending)
  BY <1>1, <1>2, <1>3, <1>4
<1>6. ASSUME NEW j \in DOMAIN pendings', NEW k \in DOMAIN pendings', at[j] = at[k]
      PROVE  j = k
  <2>1. at[j] \in Nat /\ at[k] \in Nat
    BY <1>4
  <2> QED
    BY <1>1, <1>2, <1>3, <1>6, <2>1
<1> QED
  BY <1>1, <1>3, <1>5, <1>6

-----------------------------------------------------------------------------
\* What most steps do to the requests: those in S, which are waiting, are told r; of the
\* pending ones some are left, without the callbacks of those told; nothing new is under
\* way.
Tells(S, r) ==
    /\ UNCHANGED <<stage, number>>
    /\ S \subseteq Requests /\ \A q \in S : stage[q] = "sent" /\ called[q] = 0
    /\ r = None \/ S \subseteq {r}
    /\ CallBack(S, r)
    /\ OnWire' \subseteq OnWire
    /\ \E at \in [DOMAIN pendings' -> DOMAIN pendings] :
          /\ \A j, k \in DOMAIN pendings' : at[j] = at[k] => j = k
          /\ \A k \in DOMAIN pendings' :
                /\ pendings'[k].req = pendings[at[k]].req
                /\ pendings'[k].seq = pendings[at[k]].seq
                /\ pendings'[k].live => pendings[at[k]].live /\ pendings[at[k]].req \notin S

LEMMA TellsKeeps ==
    ASSUME ClientInv, NEW S, NEW r, Tells(S, r)
    PROVE  Numbering' /\ Once' /\ Story' /\ Events'
<1>1. /\ stage' = stage /\ number' = number /\ S \subseteq Requests
      /\ \A q \in S : stage[q] = "sent" /\ called[q] = 0
      /\ r = None \/ S \subseteq {r}
      /\ called' = [q \in Requests |-> IF q \in S THEN called[q] + 1 ELSE called[q]]
      /\ reply' = [q \in Requests |-> IF q \in S THEN r ELSE reply[q]]
      /\ event' = [t \in Threads |-> event[t] \/ \E q \in S \cap Fetches : q[1] = t]
      /\ OnWire' \subseteq OnWire
  BY DEF Tells, CallBack
<1>2. PICK at \in [DOMAIN pendings' -> DOMAIN pendings] :
          /\ \A j, k \in DOMAIN pendings' : at[j] = at[k] => j = k
          /\ \A k \in DOMAIN pendings' :
                /\ pendings'[k].req = pendings[at[k]].req
                /\ pendings'[k].seq = pendings[at[k]].seq
                /\ pendings'[k].live => pendings[at[k]].live /\ pendings[at[k]].req \notin S
  BY DEF Tells
<1>3. Ready' = Ready /\ InUse' \subseteq InUse
  BY <1>1, <1>2 DEF Ready, InUse
<1>4. Numbering'
  BY <1>1, <1>2, <1>3 DEF ClientInv, Numbering
<1>5. Story'
  BY <1>1 DEF ClientInv, Story
<1>6. Once'
  <2>1. \A k \in DOMAIN pendings' : pendings'[k].req # Ping => pendings'[k].req \in Requests
    <3>1. \A k \in DOMAIN pendings : pendings[k] \in Pending
      BY DEF ClientInv, Shapes
    <3>2. \A x \in Pending : x.req \in Requests \cup {Ping}
      BY DEF Pending
    <3> QED
      BY <1>2, <3>1, <3>2
  <2>2. \A k \in DOMAIN pendings' : pendings'[k].req # Ping /\ pendings'[k].live
             => called'[pendings'[k].req] = 0
    BY <1>1, <1>2, <2>1 DEF ClientInv, Once
  <2>3. \A i, j \in DOMAIN pendings' :
          pendings'[i].req = pendings'[j].req /\ pendings'[i].req # Ping => i = j
    BY <1>2 DEF ClientInv, Once
  <2>4. \A k \in DOMAIN pendings' : pendings'[k].req # Ping =>
             stage[pendings'[k].req] \in {"sent", "returned"}
    BY <1>2 DEF ClientInv, Once
  <2> QED
    BY <1>1, <2>2, <2>3, <2>4 DEF Once
<1>7. Events'
  <2>1. \A p, q \in Fetches : p[1] = q[1] /\ stage[p] \in {"prepared", "sent"}
                              /\ stage[q] = "sent" => p = q
    <3> SUFFICES ASSUME NEW p \in Fetches, NEW q \in Fetches, p[1] = q[1],
                        stage[p] \in {"prepared", "sent"}, stage[q] = "sent"
                 PROVE  p = q
      OBVIOUS
    <3>1. p[2] \in Nat /\ q[2] \in Nat /\ (p[2] = q[2] => p = q)
      BY VsoaClientAssumption DEF Fetches
    <3>2. ~ (p[2] < q[2]) /\ ~ (q[2] < p[2])
      BY DEF ClientInv, Events
    <3> QED
      BY <3>1, <3>2
  <2>2. \A q \in Fetches : q[1] \in Threads /\ q \in Requests
    BY DEF Fetches, Requests
  <2>3. ASSUME NEW q \in Fetches, stage[q] = "prepared" PROVE ~ event'[q[1]]
    BY <1>1, <2>1, <2>2, <2>3 DEF ClientInv, Events
  <2>4. ASSUME NEW q \in Fetches, stage[q] = "sent", event'[q[1]] PROVE called'[q] = 1
    <3>1. CASE q \in S
      BY <1>1, <2>2, <3>1
    <3>2. CASE q \notin S
      <4>1. event[q[1]]
        BY <1>1, <2>1, <2>2, <2>4, <3>2
      <4> QED
        BY <1>1, <2>2, <2>4, <3>2, <4>1 DEF ClientInv, Events
    <3> QED
      BY <3>1, <3>2
  <2> QED
    BY <1>1, <2>3, <2>4 DEF ClientInv, Events
<1> QED
  BY <1>4, <1>5, <1>6, <1>7

\* The requests told have ended at once, with their answer or all without.
LEMMA TellsMaps ==
    ASSUME ClientInv, NEW S, NEW r, Tells(S, r)
    PROVE  Promise!Next \/ UNCHANGED Promise!promised
<1>1. /\ stage' = stage /\ S \subseteq Requests
      /\ \A q \in S : stage[q] = "sent" /\ called[q] = 0
      /\ r = None \/ S \subseteq {r}
      /\ called' = [q \in Requests |-> IF q \in S THEN called[q] + 1 ELSE called[q]]
      /\ reply' = [q \in Requests |-> IF q \in S THEN r ELSE reply[q]]
  BY DEF Tells, CallBack
<1>2. Returned' = Returned
  BY <1>1 DEF Returned
<1>3. \A q \in S : Outcome[q] = "open"
  BY <1>1 DEF Outcome, OutcomeOf
<1>4. \A q \in Requests \ S : OutcomeOf(q)' = OutcomeOf(q)
  BY <1>1 DEF OutcomeOf
<1>5. CASE r = None
  <2>1. \A q \in S : OutcomeOf(q)' = "missed"
    BY <1>1, <1>5, VsoaClientAssumption DEF OutcomeOf
  <2>2. Outcome' = [q \in Requests |-> IF q \in S THEN "missed" ELSE Outcome[q]]
    BY <1>1, <1>4, <2>1 DEF Outcome
  <2>3. Promise!Miss(S)
    BY <1>2, <1>3, <2>2 DEF Promise!Miss
  <2> QED
    BY <1>1, <2>3 DEF Promise!Next
<1>6. CASE S = {}
  <2>1. Outcome' = Outcome
    BY <1>4, <1>6 DEF Outcome
  <2> QED
    BY <1>2, <2>1 DEF Promise!promised
<1>7. CASE S = {r}
  <2>1. r \in Requests /\ called'[r] = 1 /\ reply'[r] = r
    BY <1>1, <1>7
  <2>2. OutcomeOf(r)' = "answered"
    BY <2>1, VsoaClientAssumption DEF OutcomeOf
  <2>3. Outcome' = [Outcome EXCEPT ![r] = "answered"]
    BY <1>4, <1>7, <2>1, <2>2 DEF Outcome
  <2>4. Promise!Answer(r)
    BY <1>2, <1>3, <1>7, <2>3 DEF Promise!Answer
  <2> QED
    BY <2>1, <2>4 DEF Promise!Next
<1> QED
  BY <1>1, <1>5, <1>6, <1>7

-----------------------------------------------------------------------------
PromiseStep == Promise!Next \/ UNCHANGED Promise!promised

LEMMA TellsStep ==
    ASSUME ClientInv, NEW S, NEW r, Tells(S, r), Shapes'
    PROVE  ClientInv' /\ PromiseStep
BY TellsKeeps, TellsMaps DEF ClientInv, PromiseStep

\* The types of what a callback leaves.
LEMMA CallBackShape ==
    ASSUME Shapes, NEW S, NEW r \in Requests \cup {Ping, None}, CallBack(S, r)
    PROVE  /\ event' \in [Threads -> BOOLEAN]
           /\ reply' \in [Requests -> Requests \cup {Ping, None}]
           /\ called' \in [Requests -> Nat]
BY DEF Shapes, CallBack

LEMMA Rows ==
    ASSUME Shapes, NEW i \in DOMAIN pendings
    PROVE  /\ pendings[i] \in Pending
           /\ pendings[i].req \in Requests \cup {Ping} /\ pendings[i].seq \in Numbers
           /\ pendings[i].alive \in 0 .. (Patience + KeepAlive) /\ pendings[i].live \in BOOLEAN
<1>1. pendings[i] \in Pending
  BY DEF Shapes
<1>2. \A x \in Pending : x.req \in Requests \cup {Ping} /\ x.seq \in Numbers
                       /\ x.alive \in 0 .. (Patience + KeepAlive) /\ x.live \in BOOLEAN
  BY DEF Pending
<1> QED
  BY <1>1, <1>2

\* A request that still has its callback is waiting.
LEMMA LiveWaits ==
    ASSUME ClientInv, NEW I \in SUBSET DOMAIN pendings
    PROVE  /\ Live(I) \subseteq Requests
           /\ \A q \in Live(I) : stage[q] = "sent" /\ called[q] = 0
<1> SUFFICES ASSUME NEW q \in Live(I)
             PROVE  q \in Requests /\ stage[q] = "sent" /\ called[q] = 0
  OBVIOUS
<1>1. PICK i \in I : pendings[i].live /\ q = pendings[i].req /\ q # Ping
  BY DEF Live
<1>2. q \in Requests
  BY <1>1, Rows DEF ClientInv
<1>3. stage[q] \in {"sent", "returned"} /\ called[q] = 0
  BY <1>1 DEF ClientInv, Once
<1>4. stage[q] # "returned"
  BY <1>2, <1>3 DEF ClientInv, Story
<1> QED
  BY <1>2, <1>3, <1>4

LEMMA Quiet ==
    ASSUME ClientInv, UNCHANGED <<stage, number, pendings, callbackVars>>, OnWire' \subseteq OnWire
    PROVE  Tells({}, None)
<1>1. CallBack({}, None)
  BY DEF CallBack, callbackVars, ClientInv, Shapes
<1>2. \E at \in [DOMAIN pendings' -> DOMAIN pendings] :
          /\ \A j, k \in DOMAIN pendings' : at[j] = at[k] => j = k
          /\ \A k \in DOMAIN pendings' :
                /\ pendings'[k].req = pendings[at[k]].req
                /\ pendings'[k].seq = pendings[at[k]].seq
                /\ pendings'[k].live => pendings[at[k]].live /\ pendings[at[k]].req \notin {}
  <2> WITNESS [k \in DOMAIN pendings |-> k] \in [DOMAIN pendings' -> DOMAIN pendings]
  <2> QED
    OBVIOUS
<1> QED
  BY <1>1, <1>2 DEF Tells

LEMMA TimedOut ==
    ASSUME ClientInv, UNCHANGED <<stage, number>>, PendingsTimeout, OnWire' \subseteq OnWire
    PROVE  Tells(Live(DOMAIN pendings), None) /\ pendings' \in Seq(Pending)
<1>1. CallBack(Live(DOMAIN pendings), None) /\ pendings' = <<>>
  BY DEF PendingsTimeout
<1>2. \E at \in [DOMAIN pendings' -> DOMAIN pendings] :
          /\ \A j, k \in DOMAIN pendings' : at[j] = at[k] => j = k
          /\ \A k \in DOMAIN pendings' :
                /\ pendings'[k].req = pendings[at[k]].req
                /\ pendings'[k].seq = pendings[at[k]].seq
                /\ pendings'[k].live => pendings[at[k]].live
                                        /\ pendings[at[k]].req \notin Live(DOMAIN pendings)
  <2>1. DOMAIN pendings' = {}
    BY <1>1
  <2> DEFINE at == [k \in {} |-> k]
  <2>2. at \in [DOMAIN pendings' -> DOMAIN pendings]
    BY <2>1
  <2> QED
    BY <2>1, <2>2
<1>3. /\ Live(DOMAIN pendings) \subseteq Requests
      /\ \A q \in Live(DOMAIN pendings) : stage[q] = "sent" /\ called[q] = 0
  BY LiveWaits
<1>4. pendings' \in Seq(Pending)
  BY <1>1
<1> QED
  BY <1>1, <1>2, <1>3, <1>4 DEF Tells

\* Some requests are told and leave the list.
LEMMA ToldLeave ==
    ASSUME ClientInv, NEW I \in SUBSET DOMAIN pendings, NEW r,
           UNCHANGED <<stage, number>>, KeepOnly(DOMAIN pendings \ I), CallBack(Live(I), r),
           r = None \/ Live(I) \subseteq {r}, OnWire' \subseteq OnWire
    PROVE  Tells(Live(I), r) /\ pendings' \in Seq(Pending)
<1> DEFINE J == DOMAIN pendings \ I
<1>1. pendings \in Seq(Pending)
  BY DEF ClientInv, Shapes
<1>2. pendings' \in Seq(Pending)
  BY <1>1, Kept
<1>3. PICK at \in [DOMAIN pendings' -> J] :
         /\ \A j, k \in DOMAIN pendings' : at[j] = at[k] => j = k
         /\ \A k \in DOMAIN pendings' : pendings'[k] = pendings[at[k]]
  BY <1>1, Kept
<1>4. ASSUME NEW k \in J, pendings[k].live PROVE pendings[k].req \notin Live(I)
  <2> SUFFICES ASSUME pendings[k].req \in Live(I) PROVE FALSE
    OBVIOUS
  <2>1. PICK i \in I : pendings[i].req = pendings[k].req /\ pendings[k].req # Ping
    BY DEF Live
  <2> QED
    BY <2>1 DEF ClientInv, Once
<1>5. at \in [DOMAIN pendings' -> DOMAIN pendings]
  BY <1>3
<1>6. \A k \in DOMAIN pendings' :
         /\ pendings'[k].req = pendings[at[k]].req
         /\ pendings'[k].seq = pendings[at[k]].seq
         /\ pendings'[k].live => pendings[at[k]].live /\ pendings[at[k]].req \notin Live(I)
  BY <1>3, <1>4
<1> QED
  BY <1>2, <1>3, <1>5, <1>6, LiveWaits DEF Tells

-----------------------------------------------------------------------------
\* Steps that leave the requests alone.
LEMMA QuietSteps ==
    ASSUME ClientInv, Connect \/ LoopDown \/ Peer
    PROVE  ClientInv' /\ PromiseStep
<1> USE DEF InTransit, OnWire, clientVars, robotVars, callerVars, callbackVars, peerVars
<1>1. Shapes
  BY DEF ClientInv
<1>2. CASE Connect
  <2>1. Shapes' /\ OnWire' \subseteq OnWire
    BY <1>1, <1>2, VsoaClientAssumption DEF Connect, Shapes
  <2> QED
    BY <1>2, <2>1, Quiet, TellsStep DEF Connect
<1>3. CASE LoopDown
  <2>1. Shapes' /\ OnWire' \subseteq OnWire
    BY <1>1, <1>3 DEF LoopDown, Shapes
  <2> QED
    BY <1>3, <2>1, Quiet, TellsStep DEF LoopDown
<1>4. CASE PeerAnswers
  <2>1. PICK w \in asked : inbox' \in {inbox, Append(inbox, w)} /\ asked' = asked \ {w}
    BY <1>4 DEF PeerAnswers
  <2>2. inbox \in Seq(Wire) /\ w \in Wire
    BY <1>1 DEF Shapes
  <2>3. inbox' \in Seq(Wire) /\ OnWire' \subseteq OnWire
    BY <2>1, <2>2
  <2>4. Shapes'
    BY <1>1, <1>4, <2>1, <2>3 DEF PeerAnswers, Shapes
  <2> QED
    BY <1>4, <2>3, <2>4, Quiet, TellsStep DEF PeerAnswers
<1>5. CASE PeerHangs
  <2>1. Shapes' /\ OnWire' \subseteq OnWire
    BY <1>1, <1>5 DEF PeerHangs, Shapes
  <2> QED
    BY <1>5, <2>1, Quiet, TellsStep DEF PeerHangs
<1>6. CASE PeerEnds
  <2>1. PICK n \in 0 .. Len(inbox) : inbox' = SubSeq(inbox, 1, n)
    BY <1>6 DEF PeerEnds
  <2>2. inbox \in Seq(Wire)
    BY <1>1 DEF Shapes
  <2>3. inbox' \in Seq(Wire) /\ InTransit' \subseteq InTransit
    BY <2>1, <2>2
  <2>4. Shapes' /\ OnWire' \subseteq OnWire
    BY <1>1, <1>6, <2>3 DEF PeerEnds, Shapes
  <2> QED
    BY <1>6, <2>4, Quiet, TellsStep DEF PeerEnds
<1> QED
  BY <1>2, <1>3, <1>4, <1>5, <1>6 DEF Peer

\* The ends of a connection.
LEMMA EndSteps ==
    ASSUME ClientInv, LoopEof \/ Disconnect \/ Close \/ CloseFinish
    PROVE  ClientInv' /\ PromiseStep
<1> USE DEF InTransit, OnWire, clientVars, robotVars, callerVars, callbackVars, peerVars
<1>1. Shapes /\ inbox \in Seq(Wire)
  BY DEF ClientInv, Shapes
<1>2. ASSUME PendingsTimeout, UNCHANGED callerVars, OnWire' \subseteq OnWire,
             {connected', listed', emitted'} \subseteq BOOLEAN,
             sock' \in {"none", "open", "hung", "ended"},
             loop' \in {"connect", "loop", "down", "exited"}, loop' = "loop" => connected',
             UNCHANGED <<seqno, pingLost>>, asked' \subseteq Wire, inbox' \in Seq(Wire)
      PROVE  ClientInv' /\ PromiseStep
  <2>1. Tells(Live(DOMAIN pendings), None) /\ pendings' \in Seq(Pending)
    BY <1>2, TimedOut
  <2>2. CallBack(Live(DOMAIN pendings), None)
    BY <1>2 DEF PendingsTimeout
  <2>3. /\ event' \in [Threads -> BOOLEAN]
        /\ reply' \in [Requests -> Requests \cup {Ping, None}]
        /\ called' \in [Requests -> Nat]
    BY <1>1, <2>2, CallBackShape
  <2>4. Shapes'
    BY <1>1, <1>2, <2>1, <2>3 DEF Shapes
  <2> QED
    BY <2>1, <2>4, TellsStep
<1>3. CASE LoopEof
  BY <1>1, <1>2, <1>3 DEF LoopEof, Shapes
<1>4. CASE Disconnect
  BY <1>1, <1>2, <1>4 DEF Disconnect, Shapes
<1>5. CASE Close
  <2>1. CASE loop = "loop"
    BY <1>1, <1>2, <1>5, <2>1 DEF Close, Shapes
  <2>2. CASE loop # "loop"
    <3>1. Shapes' /\ OnWire' \subseteq OnWire
      BY <1>1, <1>5, <2>2 DEF Close, Shapes
    <3> QED
      BY <1>5, <2>2, <3>1, Quiet, TellsStep DEF Close
  <2> QED
    BY <2>1, <2>2
<1>6. CASE CloseFinish
  <2>1. /\ OnWire' \subseteq OnWire /\ asked' \subseteq Wire /\ inbox' \in Seq(Wire)
        /\ {connected', listed', emitted'} \subseteq BOOLEAN
    <3>1. asked' = {} /\ inbox' = <<>> /\ connected' = FALSE /\ listed' = FALSE /\ emitted' = emitted
      BY <1>6 DEF CloseFinish
    <3>2. InTransit' = {}
      BY <3>1
    <3>3. inbox' \in Seq(Wire)
      BY <3>1
    <3>4. emitted \in BOOLEAN
      BY <1>1 DEF Shapes
    <3> QED
      BY <3>1, <3>2, <3>3, <3>4
  <2>2. /\ sock' \in {"none", "open", "hung", "ended"}
        /\ loop' \in {"connect", "loop", "down", "exited"} /\ loop' # "loop"
        /\ PendingsTimeout /\ UNCHANGED <<stage, number, seqno, pingLost>>
    BY <1>1, <1>6 DEF CloseFinish, Shapes
  <2> QED
    BY <1>2, <2>1, <2>2
<1> QED
  BY <1>3, <1>4, <1>5, <1>6

\* An answer goes to the request it answers, if that is still pending.
LEMMA RecvStep ==
    ASSUME ClientInv, LoopRecv
    PROVE  ClientInv' /\ PromiseStep
<1> USE DEF clientVars, robotVars, callerVars, callbackVars, peerVars
<1> DEFINE w == Head(inbox)
<1>1. Shapes /\ inbox \in Seq(Wire) /\ inbox # <<>>
  BY DEF ClientInv, Shapes, LoopRecv
<1>2. inbox' \in Seq(Wire) /\ OnWire' \subseteq OnWire /\ w \in OnWire
  <2>1. inbox' = Tail(inbox) /\ asked' = asked
    BY DEF LoopRecv
  <2>2. inbox' \in Seq(Wire) /\ InTransit' \subseteq InTransit /\ w \in InTransit
    BY <1>1, <2>1 DEF InTransit
  <2> QED
    BY <2>1, <2>2 DEF OnWire
<1>3. w \in Wire /\ w.req \in Requests \cup {Ping}
  <2>1. \A x \in Wire : x.req \in Requests \cup {Ping}
    BY DEF Wire
  <2> QED
    BY <1>1, <2>1
<1>4. CASE w.seq \notin InUse /\ UNCHANGED <<pendings, pingLost, callbackVars>>
  <2>1. Shapes'
    BY <1>1, <1>2, <1>4 DEF LoopRecv, Shapes
  <2> QED
    BY <1>2, <1>4, <2>1, Quiet, TellsStep DEF LoopRecv
<1>5. ASSUME NEW i \in DOMAIN pendings, pendings[i].seq = w.seq,
             KeepOnly(DOMAIN pendings \ {i}), CallBack(Live({i}), w.req),
             pingLost' = IF pendings[i].req = Ping THEN 0 ELSE pingLost
      PROVE  ClientInv' /\ PromiseStep
  <2>1. Live({i}) \subseteq {w.req}
    BY <1>2, <1>5 DEF Live, ClientInv, Numbering
  <2>2. UNCHANGED <<stage, number>>
    BY DEF LoopRecv
  <2>3. Tells(Live({i}), w.req) /\ pendings' \in Seq(Pending)
    BY <1>2, <1>5, <2>1, <2>2, ToldLeave
  <2>4. /\ event' \in [Threads -> BOOLEAN]
        /\ reply' \in [Requests -> Requests \cup {Ping, None}]
        /\ called' \in [Requests -> Nat]
    BY <1>1, <1>3, <1>5, CallBackShape
  <2>5. pingLost' \in 0 .. MaxPingLost + 1
    BY <1>1, <1>5, VsoaClientAssumption DEF Shapes
  <2>6. Shapes'
    BY <1>1, <1>2, <2>3, <2>4, <2>5 DEF LoopRecv, Shapes
  <2> QED
    BY <2>3, <2>6, TellsStep
<1> QED
  BY <1>4, <1>5 DEF LoopRecv

\* What is due is told and leaves the list, or all of it when the robot disconnects.
LEMMA SweepStep ==
    ASSUME ClientInv, LoopSweep
    PROVE  ClientInv' /\ PromiseStep
<1> USE DEF clientVars, robotVars, callerVars, callbackVars, peerVars
<1> DEFINE lost == Cardinality({i \in Removed : pendings[i].req = Ping})
<1>1. Shapes /\ inbox \in Seq(Wire) /\ pendings \in Seq(Pending)
  BY DEF ClientInv, Shapes
<1>2. Removed \in SUBSET DOMAIN pendings
  BY DEF Removed
<1>3. lost \in Nat
  <2>1. IsFiniteSet(1 .. Len(pendings))
    <3>1. 1 \in Int /\ Len(pendings) \in Int
      BY <1>1
    <3> QED
      BY <3>1, FS_Interval, Zenon
  <2>2. {i \in Removed : pendings[i].req = Ping} \in SUBSET (1 .. Len(pendings))
    BY <1>1, <1>2
  <2> QED
    BY <2>1, <2>2, FS_Subset, FS_CardinalityType
<1>4. pingLost' \in 0 .. MaxPingLost + 1
  <2>1. pingLost' = LostCount(lost)
    BY DEF LoopSweep
  <2> HIDE DEF lost
  <2> QED
    BY <1>1, <1>3, <2>1, VsoaClientAssumption DEF LostCount, Shapes
<1> HIDE DEF lost
<1>5. /\ UNCHANGED <<connected, listed, loop, seqno, stage, number, inbox>>
      /\ emitted' = FALSE
      /\ sock' \in {"none", "open", "hung", "ended"} /\ asked' \subseteq Wire
      /\ OnWire' \subseteq OnWire
  BY <1>1 DEF LoopSweep, Shapes, OnWire, InTransit
<1>6. \/ PendingsTimeout
      \/ KeepOnly(DOMAIN pendings \ Removed) /\ CallBack(Live(Removed), None)
  BY DEF LoopSweep
<1>7. ASSUME NEW S, Tells(S, None), CallBack(S, None), pendings' \in Seq(Pending)
      PROVE  ClientInv' /\ PromiseStep
  <2>1. /\ event' \in [Threads -> BOOLEAN]
        /\ reply' \in [Requests -> Requests \cup {Ping, None}]
        /\ called' \in [Requests -> Nat]
    BY <1>1, <1>7, CallBackShape
  <2>2. Shapes'
    BY <1>1, <1>4, <1>5, <1>7, <2>1 DEF Shapes
  <2> QED
    BY <1>7, <2>2, TellsStep
<1>8. CASE PendingsTimeout
  <2>1. Tells(Live(DOMAIN pendings), None) /\ pendings' \in Seq(Pending)
    BY <1>5, <1>8, TimedOut
  <2> QED
    BY <1>7, <1>8, <2>1 DEF PendingsTimeout
<1>9. CASE KeepOnly(DOMAIN pendings \ Removed) /\ CallBack(Live(Removed), None)
  <2>1. Tells(Live(Removed), None) /\ pendings' \in Seq(Pending)
    BY <1>2, <1>5, <1>9, ToldLeave
  <2> QED
    BY <1>7, <1>9, <2>1
<1> QED
  BY <1>6, <1>8, <1>9

\* The timer tells the fetches that are due, which stay in the list without a callback.
LEMMA TickStep ==
    ASSUME ClientInv, Tick
    PROVE  ClientInv' /\ PromiseStep
<1> USE DEF clientVars, robotVars, callerVars, callbackVars, peerVars
<1> DEFINE I == {i \in DOMAIN pendings : Due(pendings[i])}
<1>1. Shapes /\ inbox \in Seq(Wire) /\ pendings \in Seq(Pending)
  BY DEF ClientInv, Shapes
<1>2. /\ pendings' = [i \in DOMAIN pendings |-> Aged(pendings[i])]
      /\ CallBack(ToldByTimer, None)
      /\ UNCHANGED <<connected, sock, listed, loop, pingLost, seqno, stage, number, asked, inbox>>
      /\ emitted' \in BOOLEAN
  BY <1>1 DEF Tick, Shapes
<1>3. \A x \in Pending :
         /\ Aged(x) \in Pending /\ Aged(x).req = x.req /\ Aged(x).seq = x.seq
         /\ Aged(x).live => x.live /\ ~ (x.alive <= 1 /\ x.req \in Fetches)
  <2> SUFFICES ASSUME NEW x \in Pending
               PROVE  /\ Aged(x) \in Pending /\ Aged(x).req = x.req /\ Aged(x).seq = x.seq
                      /\ Aged(x).live => x.live /\ ~ (x.alive <= 1 /\ x.req \in Fetches)
    OBVIOUS
  <2>1. x.alive \in 0 .. (Patience + KeepAlive) /\ x.live \in BOOLEAN
        /\ Patience \in Nat /\ KeepAlive \in Nat
    BY VsoaClientAssumption DEF Pending
  <2> DEFINE a == IF x.alive > 1 THEN x.alive - 1 ELSE 0
             l == x.live /\ ~ (x.alive <= 1 /\ x.req \in Fetches)
  <2>2. a \in 0 .. (Patience + KeepAlive)
    BY <2>1
  <2>3. l \in BOOLEAN
    BY <2>1
  <2>4. Aged(x) = [x EXCEPT !.alive = a, !.live = l]
    BY DEF Aged, Due
  <2> HIDE DEF a, l
  <2>5. Aged(x) \in Pending /\ Aged(x).req = x.req /\ Aged(x).seq = x.seq /\ Aged(x).live = l
    BY <2>2, <2>3, <2>4 DEF Pending
  <2> QED
    BY <2>5 DEF l
<1>r. \A i \in DOMAIN pendings :
         /\ Aged(pendings[i]) \in Pending
         /\ Aged(pendings[i]).req = pendings[i].req
         /\ Aged(pendings[i]).seq = pendings[i].seq
  BY <1>1, <1>3
<1>l. \A i \in DOMAIN pendings : Aged(pendings[i]).live =>
         pendings[i].live /\ ~ (pendings[i].alive <= 1 /\ pendings[i].req \in Fetches)
  BY <1>1, <1>3
<1>4. pendings' \in Seq(Pending) /\ DOMAIN pendings' = DOMAIN pendings
  <2>1. \A i \in DOMAIN pendings : Aged(pendings[i]) \in Pending
    BY <1>r
  <2>2. DOMAIN pendings = 1 .. Len(pendings) /\ Len(pendings) \in Nat
    BY <1>1
  <2> QED
    BY <1>2, <2>1, <2>2
<1>5. ToldByTimer = Live(I) \cap Fetches
  BY DEF ToldByTimer
<1>6. /\ ToldByTimer \subseteq Requests
      /\ \A q \in ToldByTimer : stage[q] = "sent" /\ called[q] = 0
  BY <1>5, LiveWaits
<1>7. ASSUME NEW k \in DOMAIN pendings, Aged(pendings[k]).live
      PROVE  pendings[k].req \notin ToldByTimer
  <2> SUFFICES ASSUME pendings[k].req \in ToldByTimer PROVE FALSE
    OBVIOUS
  <2>1. PICK i \in I : pendings[i].req = pendings[k].req /\ pendings[k].req # Ping
                       /\ pendings[k].req \in Fetches
    BY <1>5 DEF Live
  <2>2. i = k
    BY <2>1 DEF ClientInv, Once
  <2>3. pendings[k].alive <= 1
    BY <2>1, <2>2 DEF Due
  <2> QED
    BY <1>l, <1>7, <2>1, <2>3
<1>8. \E at \in [DOMAIN pendings' -> DOMAIN pendings] :
          /\ \A j, k \in DOMAIN pendings' : at[j] = at[k] => j = k
          /\ \A k \in DOMAIN pendings' :
                /\ pendings'[k].req = pendings[at[k]].req
                /\ pendings'[k].seq = pendings[at[k]].seq
                /\ pendings'[k].live => pendings[at[k]].live /\ pendings[at[k]].req \notin ToldByTimer
  <2> DEFINE at == [k \in DOMAIN pendings |-> k]
  <2>1. at \in [DOMAIN pendings' -> DOMAIN pendings] /\ \A k \in DOMAIN pendings : at[k] = k
    BY <1>4
  <2>2. \A k \in DOMAIN pendings :
                /\ pendings'[k].req = pendings[k].req
                /\ pendings'[k].seq = pendings[k].seq
                /\ pendings'[k].live => pendings[k].live /\ pendings[k].req \notin ToldByTimer
    <3> SUFFICES ASSUME NEW k \in DOMAIN pendings
                 PROVE  /\ pendings'[k].req = pendings[k].req
                        /\ pendings'[k].seq = pendings[k].seq
                        /\ pendings'[k].live => pendings[k].live /\ pendings[k].req \notin ToldByTimer
      OBVIOUS
    <3>1. pendings'[k] = Aged(pendings[k])
      BY <1>2
    <3> QED
      BY <1>r, <1>l, <1>7, <3>1
  <2> HIDE DEF at
  <2> QED
    BY <1>4, <2>1, <2>2
<1>9. Tells(ToldByTimer, None)
  BY <1>2, <1>6, <1>8 DEF Tells, OnWire, InTransit
<1>10. Shapes'
  <2>1. /\ event' \in [Threads -> BOOLEAN]
        /\ reply' \in [Requests -> Requests \cup {Ping, None}]
        /\ called' \in [Requests -> Nat]
    BY <1>1, <1>2, CallBackShape
  <2> QED
    BY <1>1, <1>2, <1>4, <2>1 DEF Shapes
<1> QED
  BY <1>9, <1>10, TellsStep

-----------------------------------------------------------------------------
LEMMA CallsAndFetches ==
    ASSUME NEW q \in Fetches
    PROVE  /\ q \in Requests /\ q[1] \in Threads /\ q[2] \in Nat
           /\ \A p \in Fetches : p[1] = q[1] /\ p[2] = q[2] => p = q
           /\ q[2] > 1 => <<q[1], q[2] - 1>> \in Fetches
BY VsoaClientAssumption DEF Fetches, Requests

\* A request takes a number nobody has and waits for its turn to be sent.
LEMMA PrepareStep ==
    ASSUME ClientInv, NEW q \in Requests, Prepare(q)
    PROVE  ClientInv' /\ PromiseStep
<1> USE DEF clientVars, robotVars, peerVars
<1> DEFINE n == FreeAfter(seqno)
<1>1. Shapes /\ seqno \in Nat
  BY VsoaClientAssumption DEF ClientInv, Shapes, Numbers
<1>2. n \in Numbers /\ n \notin InUse
  BY <1>1, FreeNumber DEF Prepare, Shapes
<1>3. n \in Nat
  BY <1>2, VsoaClientAssumption DEF Numbers
<1>4. NumberAfter(n) \in Numbers
  BY <1>3, NextNumber
<1>5. /\ stage[q] = "new" /\ stage' = [stage EXCEPT ![q] = "prepared"]
      /\ number' = [number EXCEPT ![q] = n] /\ seqno' = NumberAfter(n)
      /\ event' = [t \in Threads |-> event[t] /\ ~(q \in Fetches /\ q[1] = t)]
      /\ UNCHANGED <<connected, sock, listed, loop, pingLost, pendings, emitted, reply, called,
                     asked, inbox>>
      /\ NotLapped(n)
  BY DEF Prepare, MayStart, ClearEvent
<1> HIDE DEF n
<1>6. Shapes'
  BY <1>1, <1>2, <1>4, <1>5 DEF Shapes
<1>7. Ready' = Ready \cup {q} /\ InUse' = InUse /\ OnWire' = OnWire /\ q \notin Ready
  BY <1>1, <1>5 DEF Ready, InUse, OnWire, InTransit, Shapes
<1>8. /\ number'[q] = n /\ \A p \in Ready : number'[p] = number[p] /\ number[p] # n
      /\ \A w \in OnWire : w.seq # n
  BY <1>1, <1>5, <1>7 DEF NotLapped, Shapes, Ready, OnWire
<1>9. Numbering'
  BY <1>2, <1>5, <1>7, <1>8 DEF ClientInv, Numbering
<1>10. Once'
  <2>1. \A i \in DOMAIN pendings : pendings[i].req # Ping =>
           pendings[i].req # q /\ stage'[pendings[i].req] = stage[pendings[i].req]
    BY <1>1, <1>5, Rows DEF ClientInv, Once, Shapes
  <2> QED
    BY <1>5, <2>1 DEF ClientInv, Once
<1>11. Story'
  BY <1>1, <1>5 DEF ClientInv, Story, Shapes
<1>12. Events'
  <2>1. ASSUME NEW p \in Fetches, NEW f \in Fetches, p[1] = f[1], p[2] < f[2], stage'[f] # "new"
        PROVE  stage'[p] = "returned"
    <3>1. CASE f = q
      <4>1. <<f[1], f[2] - 1>> \in Fetches /\ stage[<<f[1], f[2] - 1>>] = "returned"
        <5>1. f[2] > 1
          BY <2>1, CallsAndFetches, VsoaClientAssumption DEF Fetches
        <5> QED
          BY <3>1, <5>1, CallsAndFetches DEF Prepare, MayStart
      <4>2. p = <<f[1], f[2] - 1>> \/ p[2] < f[2] - 1
        BY <2>1, CallsAndFetches, VsoaClientAssumption DEF Fetches
      <4>3. stage[p] = "returned"
        BY <2>1, <4>1, <4>2 DEF ClientInv, Events
      <4>4. p # q
        BY <1>5, <4>3
      <4> QED
        BY <1>1, <1>5, <4>3, <4>4, CallsAndFetches DEF Shapes
    <3>2. CASE f # q
      <4>1. stage[f] # "new"
        BY <1>1, <1>5, <2>1, <3>2, CallsAndFetches DEF Shapes
      <4>2. stage[p] = "returned"
        BY <2>1, <4>1 DEF ClientInv, Events
      <4> QED
        BY <1>1, <1>5, <4>2, CallsAndFetches DEF Shapes
    <3> QED
      BY <3>1, <3>2
  <2>2. \A f \in Fetches : stage'[f] = "prepared" => ~event'[f[1]]
    BY <1>1, <1>5, CallsAndFetches DEF ClientInv, Events, Shapes
  <2>3. \A f \in Fetches : stage'[f] = "sent" /\ event'[f[1]] => called'[f] = 1
    BY <1>1, <1>5, CallsAndFetches DEF ClientInv, Events, Shapes
  <2> QED
    BY <2>1, <2>2, <2>3 DEF Events
<1>13. Outcome' = Outcome
  <2>1. called[q] = 0
    BY <1>5 DEF ClientInv, Story
  <2>2. \A p \in Requests : OutcomeOf(p)' = OutcomeOf(p)
    BY <1>1, <1>5, <2>1 DEF OutcomeOf, Shapes
  <2> QED
    BY <2>2 DEF Outcome
<1>14. Returned' = Returned
  BY <1>1, <1>5 DEF Returned, Shapes
<1> QED
  BY <1>6, <1>9, <1>10, <1>11, <1>12, <1>13, <1>14
  DEF ClientInv, PromiseStep, Promise!promised

\* A request is sent and waits for its end.
LEMMA SendStep ==
    ASSUME ClientInv, NEW q \in Requests, Send(q)
    PROVE  ClientInv' /\ PromiseStep
<1> USE DEF clientVars, robotVars, callbackVars
<1> DEFINE row == [req |-> q, seq |-> number[q], alive |-> Patience, live |-> TRUE]
           packet == [req |-> q, seq |-> number[q]]
<1>1. Shapes /\ pendings \in Seq(Pending) /\ q # Ping /\ number[q] \in Numbers
  BY VsoaClientAssumption DEF ClientInv, Shapes
<1>2. row \in Pending /\ packet \in Wire
  <2>1. Patience \in 0 .. (Patience + KeepAlive)
    BY VsoaClientAssumption
  <2> QED
    BY <1>1, <2>1 DEF Pending, Wire
<1>3. /\ stage[q] = "prepared" /\ stage' = [stage EXCEPT ![q] = "sent"]
      /\ pendings' = Append(pendings, row) /\ number' = [number EXCEPT ![q] = 0]
      /\ asked' \subseteq asked \cup {packet} /\ inbox' = inbox
      /\ UNCHANGED <<connected, sock, listed, loop, pingLost, seqno, emitted, event, reply, called>>
  BY DEF Send
<1>4. /\ row.req = q /\ row.seq = number[q] /\ packet.req = q /\ packet.seq = number[q]
  OBVIOUS
<1> HIDE DEF row, packet
<1>5. /\ pendings' \in Seq(Pending) /\ Len(pendings) \in Nat
      /\ DOMAIN pendings' = DOMAIN pendings \cup {Len(pendings) + 1}
      /\ Len(pendings) + 1 \notin DOMAIN pendings
      /\ pendings'[Len(pendings) + 1] = row
      /\ \A i \in DOMAIN pendings : pendings'[i] = pendings[i]
  BY <1>1, <1>2, <1>3
<1> DEFINE last == Len(pendings) + 1
<1> HIDE DEF last
<1>6. /\ DOMAIN pendings' = DOMAIN pendings \cup {last} /\ pendings'[last] = row
      /\ last \notin DOMAIN pendings
  BY <1>5 DEF last
<1>7. Shapes'
  <2>1. 0 \in Numbers
    BY VsoaClientAssumption DEF Numbers
  <2> QED
    BY <1>1, <1>2, <1>3, <1>5, <2>1 DEF Shapes
<1>8. /\ Ready' = Ready \ {q} /\ q \in Ready /\ InUse' = InUse \cup {number[q]}
      /\ OnWire' \subseteq OnWire \cup {packet}
      /\ \A p \in Ready' : number'[p] = number[p]
  <2>1. Ready' = Ready \ {q} /\ q \in Ready /\ \A p \in Ready' : number'[p] = number[p]
    BY <1>1, <1>3 DEF Ready, Shapes
  <2>2. InUse' = InUse \cup {number[q]}
    BY <1>4, <1>5, <1>6 DEF InUse
  <2>3. OnWire' \subseteq OnWire \cup {packet}
    BY <1>3 DEF OnWire, InTransit
  <2> QED
    BY <2>1, <2>2, <2>3
<1>9. \A i \in DOMAIN pendings : pendings[i].seq # number[q]
  BY <1>8 DEF ClientInv, Numbering, InUse
<1>10. Numbering'
  <2>1. \A i, j \in DOMAIN pendings' : pendings'[i].seq = pendings'[j].seq => i = j
    BY <1>4, <1>5, <1>6, <1>9 DEF ClientInv, Numbering
  <2>2. \A p \in Ready' : number'[p] \notin InUse'
    BY <1>8 DEF ClientInv, Numbering
  <2>3. \A p, r \in Ready' : number'[p] = number'[r] => p = r
    BY <1>8 DEF ClientInv, Numbering
  <2>4. \A w \in OnWire' : \A p \in Ready' : number'[p] # w.seq
    BY <1>4, <1>8 DEF ClientInv, Numbering
  <2>5. \A w \in OnWire' : \A i \in DOMAIN pendings' :
           pendings'[i].seq = w.seq => pendings'[i].req = w.req
    BY <1>4, <1>5, <1>6, <1>8, <1>9 DEF ClientInv, Numbering
  <2> QED
    BY <2>1, <2>2, <2>3, <2>4, <2>5 DEF Numbering
<1>11. \A i \in DOMAIN pendings : pendings[i].req # q
  BY <1>1, <1>3 DEF ClientInv, Once
<1>12. Once'
  <2>1. \A i, j \in DOMAIN pendings' :
          pendings'[i].req = pendings'[j].req /\ pendings'[i].req # Ping => i = j
    BY <1>4, <1>5, <1>6, <1>11 DEF ClientInv, Once
  <2>2. ASSUME NEW i \in DOMAIN pendings', pendings'[i].req # Ping
        PROVE  /\ stage'[pendings'[i].req] \in {"sent", "returned"}
               /\ pendings'[i].live => called'[pendings'[i].req] = 0
    <3>1. CASE i = last
      <4>1. called[q] = 0
        BY <1>3 DEF ClientInv, Story
      <4> QED
        BY <1>1, <1>3, <1>4, <1>6, <3>1, <4>1 DEF Shapes
    <3>2. CASE i \in DOMAIN pendings
      <4>1. pendings'[i] = pendings[i] /\ pendings[i].req # q /\ pendings[i].req \in Requests
        BY <1>1, <1>5, <1>11, <2>2, <3>2, Rows
      <4>2. stage'[pendings[i].req] = stage[pendings[i].req]
        BY <1>1, <1>3, <4>1 DEF Shapes
      <4> QED
        BY <1>3, <2>2, <3>2, <4>1, <4>2 DEF ClientInv, Once
    <3> QED
      BY <1>6, <3>1, <3>2
  <2> QED
    BY <2>1, <2>2 DEF Once
<1>13. Story'
  BY <1>1, <1>3 DEF ClientInv, Story, Shapes
<1>14. Events'
  BY <1>1, <1>3, CallsAndFetches DEF ClientInv, Events, Shapes
<1>15. Promise!Ask(q)
  <2>1. called[q] = 0
    BY <1>3 DEF ClientInv, Story
  <2>2. OutcomeOf(q) = "new" /\ OutcomeOf(q)' = "open"
    BY <1>1, <1>3, <2>1 DEF OutcomeOf, Shapes
  <2>3. \A p \in Requests \ {q} : OutcomeOf(p)' = OutcomeOf(p)
    BY <1>1, <1>3 DEF OutcomeOf, Shapes
  <2>4. Outcome[q] = "new" /\ Outcome' = [Outcome EXCEPT ![q] = "open"]
    BY <2>2, <2>3 DEF Outcome
  <2>5. Returned' = Returned
    BY <1>1, <1>3 DEF Returned, Shapes
  <2> QED
    BY <2>4, <2>5 DEF Promise!Ask
<1> QED
  BY <1>7, <1>10, <1>12, <1>13, <1>14, <1>15 DEF ClientInv, PromiseStep, Promise!Next

\* A fetch returns after its own callback was called.
LEMMA ReturnStep ==
    ASSUME ClientInv, NEW q \in Requests, FetchReturn(q)
    PROVE  ClientInv' /\ PromiseStep
<1> USE DEF clientVars, robotVars, callbackVars, peerVars
<1>1. Shapes
  BY DEF ClientInv
<1>2. /\ q \in Fetches /\ stage[q] = "sent" /\ event[q[1]]
      /\ stage' = [stage EXCEPT ![q] = "returned"]
      /\ UNCHANGED <<connected, sock, listed, loop, pingLost, pendings, seqno, emitted, number,
                     event, reply, called, asked, inbox>>
  BY DEF FetchReturn
<1>3. called[q] = 1
  BY <1>2 DEF ClientInv, Events
<1>4. Shapes'
  BY <1>1, <1>2 DEF Shapes
<1>5. Ready' = Ready /\ InUse' = InUse /\ OnWire' = OnWire
  BY <1>1, <1>2 DEF Ready, InUse, OnWire, InTransit, Shapes
<1>6. Numbering'
  BY <1>2, <1>5 DEF ClientInv, Numbering
<1>7. Once'
  <2>1. \A i \in DOMAIN pendings : pendings[i].req # Ping => pendings[i].req \in Requests
    BY <1>1, Rows
  <2> QED
    BY <1>1, <1>2, <2>1 DEF ClientInv, Once, Shapes
<1>8. Story'
  BY <1>1, <1>2, <1>3 DEF ClientInv, Story, Shapes
<1>9. Events'
  BY <1>1, <1>2, CallsAndFetches DEF ClientInv, Events, Shapes
<1>10. Promise!Return(q)
  <2>1. reply[q] \in {q, None}
    BY <1>3 DEF ClientInv, Story
  <2>2. Outcome[q] \in {"answered", "missed"}
    BY <1>3, <2>1, VsoaClientAssumption DEF Outcome, OutcomeOf
  <2>3. Outcome' = Outcome
    <3>1. \A p \in Requests : OutcomeOf(p)' = OutcomeOf(p)
      BY <1>1, <1>2, <1>3 DEF OutcomeOf, Shapes
    <3> QED
      BY <3>1 DEF Outcome
  <2>4. q \notin Returned /\ Returned' = Returned \cup {q}
    BY <1>1, <1>2 DEF Returned, Shapes
  <2> QED
    BY <2>2, <2>3, <2>4 DEF Promise!Return
<1> QED
  BY <1>4, <1>6, <1>7, <1>8, <1>9, <1>10 DEF ClientInv, PromiseStep, Promise!Next

\* A ping takes a number of its own, too, and its echo is no answer to a request.
LEMMA IdleStep ==
    ASSUME ClientInv, LoopIdle
    PROVE  ClientInv' /\ PromiseStep
<1> USE DEF clientVars, robotVars, callerVars, callbackVars
<1> DEFINE n == FreeAfter(seqno)
           row == [req |-> Ping, seq |-> n, alive |-> KeepAlive, live |-> TRUE]
           packet == [req |-> Ping, seq |-> n]
<1>1. Shapes /\ seqno \in Nat /\ pendings \in Seq(Pending)
  BY VsoaClientAssumption DEF ClientInv, Shapes, Numbers
<1>2. n \in Numbers /\ n \notin InUse
  BY <1>1, FreeNumber DEF LoopIdle
<1>3. n \in Nat
  BY <1>2, VsoaClientAssumption DEF Numbers
<1>4. NumberAfter(n) \in Numbers
  BY <1>3, NextNumber
<1> HIDE DEF n
<1>5. row \in Pending /\ packet \in Wire
  <2>1. KeepAlive \in 0 .. (Patience + KeepAlive)
    BY VsoaClientAssumption
  <2> QED
    BY <1>2, <2>1 DEF Pending, Wire
<1>6. row.req = Ping /\ row.seq = n /\ packet.req = Ping /\ packet.seq = n
  OBVIOUS
<1>7. /\ pendings' = Append(pendings, row) /\ seqno' = NumberAfter(n) /\ NotLapped(n)
      /\ inbox' = IF sock = "open" THEN <<packet>> ELSE <<>>
      /\ UNCHANGED <<connected, sock, listed, loop, pingLost, stage, number, emitted,
                     event, reply, called, asked>>
  BY DEF LoopIdle, n
<1> HIDE DEF row, packet
<1> DEFINE last == Len(pendings) + 1
<1>8. /\ pendings' \in Seq(Pending) /\ DOMAIN pendings' = DOMAIN pendings \cup {last}
      /\ last \notin DOMAIN pendings /\ pendings'[last] = row
      /\ \A i \in DOMAIN pendings : pendings'[i] = pendings[i]
  BY <1>1, <1>5, <1>7
<1> HIDE DEF last
<1>9. inbox' \in Seq(Wire) /\ OnWire' \subseteq OnWire \cup {packet}
  <2>1. inbox' \in Seq(Wire) /\ InTransit' \subseteq {packet}
    BY <1>5, <1>7 DEF InTransit
  <2> QED
    BY <1>7, <2>1 DEF OnWire
<1>10. Shapes'
  BY <1>1, <1>4, <1>7, <1>8, <1>9 DEF Shapes
<1>11. /\ Ready' = Ready /\ InUse' = InUse \cup {n}
       /\ \A q \in Ready : number[q] # n
       /\ \A w \in OnWire : w.seq # n
       /\ \A i \in DOMAIN pendings : pendings[i].seq # n
  <2>1. Ready' = Ready /\ \A q \in Ready : number[q] # n
    BY <1>7 DEF Ready, NotLapped
  <2>2. InUse' = InUse \cup {n}
    BY <1>6, <1>8 DEF InUse
  <2>3. \A w \in OnWire : w.seq # n
    BY <1>7 DEF OnWire, NotLapped
  <2>4. \A i \in DOMAIN pendings : pendings[i].seq # n
    BY <1>2 DEF InUse
  <2> QED
    BY <2>1, <2>2, <2>3, <2>4
<1>12. Numbering'
  <2>1. \A i, j \in DOMAIN pendings' : pendings'[i].seq = pendings'[j].seq => i = j
    BY <1>6, <1>8, <1>11 DEF ClientInv, Numbering
  <2>2. \A p \in Ready' : number'[p] \notin InUse'
    BY <1>7, <1>11 DEF ClientInv, Numbering
  <2>3. \A p, r \in Ready' : number'[p] = number'[r] => p = r
    BY <1>7, <1>11 DEF ClientInv, Numbering
  <2>4. \A w \in OnWire' : \A p \in Ready' : number'[p] # w.seq
    BY <1>6, <1>7, <1>9, <1>11 DEF ClientInv, Numbering
  <2>5. \A w \in OnWire' : \A i \in DOMAIN pendings' :
           pendings'[i].seq = w.seq => pendings'[i].req = w.req
    BY <1>6, <1>8, <1>9, <1>11 DEF ClientInv, Numbering
  <2> QED
    BY <2>1, <2>2, <2>3, <2>4, <2>5 DEF Numbering
<1>13. Once'
  <2>1. \A i, j \in DOMAIN pendings' :
          pendings'[i].req = pendings'[j].req /\ pendings'[i].req # Ping => i = j
    BY <1>6, <1>8 DEF ClientInv, Once
  <2>2. \A i \in DOMAIN pendings' : pendings'[i].req # Ping =>
           /\ stage'[pendings'[i].req] \in {"sent", "returned"}
           /\ pendings'[i].live => called'[pendings'[i].req] = 0
    BY <1>6, <1>7, <1>8 DEF ClientInv, Once
  <2> QED
    BY <2>1, <2>2 DEF Once
<1>14. Story' /\ Events'
  BY <1>7 DEF ClientInv, Story, Events
<1>15. UNCHANGED Promise!promised
  BY <1>7 DEF Promise!promised, Outcome, OutcomeOf, Returned
<1> QED
  BY <1>10, <1>12, <1>13, <1>14, <1>15 DEF ClientInv, PromiseStep

-----------------------------------------------------------------------------
LEMMA ClientStart == ASSUME Init PROVE ClientInv
<1> USE DEF Init
<1>1. Shapes
  <2>1. Space - 1 \in Numbers /\ 0 \in Numbers /\ 0 \in 0 .. MaxPingLost + 1
    BY VsoaClientAssumption DEF Numbers
  <2>2. pendings \in Seq(Pending) /\ inbox \in Seq(Wire)
    OBVIOUS
  <2> QED
    BY <2>1, <2>2 DEF Shapes
<1>2. Ready = {} /\ OnWire = {} /\ DOMAIN pendings = {}
  BY DEF Ready, OnWire, InTransit
<1>3. Numbering
  BY <1>2 DEF Numbering
<1>4. Once
  BY <1>2 DEF Once
<1>5. Story
  BY DEF Story
<1>6. Events
  BY CallsAndFetches DEF Events
<1> QED
  BY <1>1, <1>3, <1>4, <1>5, <1>6 DEF ClientInv

LEMMA ClientStep ==
    ASSUME ClientInv, [Next]_vars
    PROVE  ClientInv' /\ PromiseStep
<1>1. ASSUME NEW q \in Requests, Prepare(q) \/ Send(q) \/ FetchReturn(q)
      PROVE  ClientInv' /\ PromiseStep
  BY <1>1, PrepareStep, SendStep, ReturnStep
<1>2. CASE Tick
  BY <1>2, TickStep
<1>3. CASE Connect \/ LoopDown \/ Peer
  BY <1>3, QuietSteps
<1>4. CASE LoopRecv
  BY <1>4, RecvStep
<1>5. CASE LoopIdle
  BY <1>5, IdleStep
<1>6. CASE LoopSweep
  BY <1>6, SweepStep
<1>7. CASE LoopEof \/ Disconnect \/ Close \/ CloseFinish
  BY <1>7, EndSteps
<1>8. CASE UNCHANGED vars
  <2>1. UNCHANGED <<stage, number, pendings, callbackVars>> /\ OnWire' \subseteq OnWire
    BY <1>8 DEF vars, callbackVars, OnWire, InTransit
  <2>2. Shapes'
    BY <1>8 DEF vars, ClientInv, Shapes
  <2> QED
    BY <2>1, <2>2, Quiet, TellsStep
<1> QED
  BY <1>1, <1>2, <1>3, <1>4, <1>5, <1>6, <1>7, <1>8 DEF Next, Loop

\* The numbers in use, the requests pending and the threads waiting always fit together.
THEOREM ClientInvariant == Spec => []ClientInv
<1>1. Init => ClientInv
  BY ClientStart
<1>2. ClientInv /\ [Next]_vars => ClientInv'
  BY ClientStep
<1> QED
  BY <1>1, <1>2, PTL DEF Spec

\* The variables of the client (vsoa/client.py) keep their types, and no more requests
\* are pending than there are numbers (__prepare_seqno).
THEOREM TypesKept == Spec => []TypeOK
<1>1. ClientInv => TypeOK
  <2>1. ClientInv => Len(pendings) <= Space
    BY Bounded DEF ClientInv, Shapes, Numbering
  <2> QED
    BY <2>1 DEF ClientInv, Shapes, TypeOK
<1> QED
  BY <1>1, ClientInvariant, PTL

\* Every behaviour of the client keeps the promise of RemoteCall: each request ends once,
\* with its own answer or none, and a fetch returns only then.
THEOREM RemoteCallImplemented == Spec => ImplementsRemoteCall
<1>1. Init => Promise!Init
  <2> SUFFICES ASSUME Init PROVE Promise!Init
    OBVIOUS
  <2>1. \A q \in Requests : OutcomeOf(q) = "new"
    BY DEF Init, OutcomeOf
  <2>2. Outcome = [q \in Requests |-> "new"]
    BY <2>1 DEF Outcome
  <2>3. Returned = {}
    BY DEF Init, Returned
  <2> QED
    BY <2>2, <2>3 DEF Promise!Init
<1>2. ClientInv /\ [Next]_vars => [Promise!Next]_(Promise!promised)
  BY ClientStep DEF PromiseStep
<1> QED
  BY <1>1, <1>2, ClientInvariant, PTL DEF Spec, ImplementsRemoteCall, Promise!Spec
=============================================================================
