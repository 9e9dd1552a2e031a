----------------------- MODULE CameraReassemblerProofs -----------------------
(***************************************************************************)
(* Theorems about the reassembler of camera images, for any number of      *)
(* threads, images, chunks and cached sequences: chunks of two images are  *)
(* never mixed, and an image is delivered twice only when two threads were *)
(* at work on its sequence.                                                *)
(***************************************************************************)
EXTENDS CameraReassembler, WellFoundedInduction, TLAPS

Contents == [of : Images, bytes : {"right", "wrong"}]
ChunkMaps == UNION {[D -> Contents] : D \in SUBSET Nat}
Cached == [img : Images, age : Nat, chunks : ChunkMaps]
Busy == [st : {"checking"}, seq : Seqs, age : Nat, img : Images, chunks : ChunkMaps]

Pure(image) == \A i \in DOMAIN image.chunks : image.chunks[i].of = image.img

\* What is cached, and what a thread is checking, was cut from one image.
ImagesInv == \A s \in DOMAIN images : images[s] \in Cached /\ Pure(images[s])
WorkerInv ==
    /\ worker \in [Threads -> {idle} \cup Busy]
    /\ \A t \in Threads : worker[t] # idle => Complete(worker[t]) /\ Pure(worker[t])

\* A delivery is remembered; a thread that checks an image of a sequence that another has
\* completed, or is checking too, took its chunks while that one was checking.
DeliveryInv ==
    /\ copies \in [Seqs -> 0 .. 2]
    /\ \A s \in Seqs : copies[s] > 0 => s \in DOMAIN completed
    /\ \A s \in Checked \cap DOMAIN completed : s \in overlap
    /\ Contended \subseteq overlap
    /\ DeliveredOnce

Inv == ImagesInv /\ WorkerInv /\ DeliveryInv

-----------------------------------------------------------------------------
\* What a frame consists of.
LEMMA FrameShape ==
    ASSUME NEW f \in Frames
    PROVE  /\ f.seq \in Seqs /\ f.img \in Images /\ f.index \in Nat
           /\ f.bytes \in {"right", "wrong"}
<1>1. PICK i \in Images : f \in UNION {[seq : Seqs, img : {i}, index : {k}, bytes : Bytes(i, k)]
                                       : k \in 0 .. Count[i] - 1}
  BY DEF Frames
<1>2. PICK k \in 0 .. Count[i] - 1 :
         f \in [seq : Seqs, img : {i}, index : {k}, bytes : Bytes(i, k)]
  BY <1>1
<1>3. Count[i] \in Nat /\ k \in Nat
  BY CameraAssumption
<1> QED
  BY <1>2, <1>3 DEF Bytes

\* The content of a frame comes from the image its header names.
LEMMA ContentShape ==
    ASSUME NEW f \in Frames
    PROVE  Content(f) \in Contents /\ Content(f).of = f.img
BY FrameShape DEF Content, Contents

\* A chunk is stored with those of its own image only.
LEMMA MergedPure ==
    ASSUME ImagesInv, NEW f \in Frames, NEW lag \in Lags, Matches(f)
    PROVE  Merged(f, lag) \in Cached /\ Pure(Merged(f, lag))
<1>0. f.img \in Images /\ f.index \in Nat /\ lag \in Nat
  BY FrameShape, CameraAssumption DEF Lags
<1>c. Content(f) \in Contents /\ Content(f).of = f.img
  BY ContentShape
<1>1. CASE f.seq \in DOMAIN images
  <2> DEFINE old == images[f.seq]
             all == [i \in DOMAIN old.chunks \cup {f.index} |->
                       IF i \in DOMAIN old.chunks THEN old.chunks[i] ELSE Content(f)]
  <2>1. old \in Cached /\ Pure(old) /\ old.img = f.img
    BY <1>1 DEF ImagesInv, Matches
  <2>2. PICK D \in SUBSET Nat : old.chunks \in [D -> Contents]
    BY <2>1 DEF Cached, ChunkMaps
  <2>3. all \in [D \cup {f.index} -> Contents]
    BY <2>2, <1>c
  <2>4. all \in ChunkMaps /\ DOMAIN all = DOMAIN old.chunks \cup {f.index}
    BY <2>3, <1>0 DEF ChunkMaps
  <2>5. \A i \in DOMAIN all : all[i].of = old.img
    BY <2>1, <2>4, <1>c DEF Pure
  <2>6. Merged(f, lag) = [old EXCEPT !.chunks = all]
    BY <1>1 DEF Merged
  <2> HIDE DEF all
  <2> QED
    BY <2>1, <2>4, <2>5, <2>6 DEF Cached, Pure
<1>2. CASE f.seq \notin DOMAIN images
  <2> DEFINE one == [i \in {f.index} |-> Content(f)]
  <2>1. one \in [{f.index} -> Contents]
    BY <1>c
  <2>2. one \in ChunkMaps /\ DOMAIN one = {f.index}
    BY <2>1, <1>0 DEF ChunkMaps
  <2>3. \A i \in DOMAIN one : one[i].of = f.img
    BY <1>c
  <2>4. Merged(f, lag) = [img |-> f.img, age |-> lag, chunks |-> one]
    BY <1>2 DEF Merged
  <2> HIDE DEF one
  <2> QED
    BY <2>2, <2>3, <2>4, <1>0 DEF Cached, Pure
<1> QED
  BY <1>1, <1>2

\* Taking images out leaves the others as they are.
LEMMA FewerImages ==
    ASSUME ImagesInv, NEW S, images' = Without(images, S)
    PROVE  ImagesInv'
BY DEF ImagesInv, Without, Restrict, Pure

\* What Without leaves.
LEMMA WithoutDomain ==
    ASSUME NEW f, NEW S
    PROVE  DOMAIN Without(f, S) = DOMAIN f \ S
BY DEF Without, Restrict

\* The account of a step of which the completions in S are forgotten, and in which no
\* thread begins or ends a check.
LEMMA AccountStep ==
    ASSUME DeliveryInv, NEW s, NEW S, Account(s, S), UNCHANGED worker,
           DOMAIN completed' = DOMAIN completed \ S
    PROVE  DeliveryInv'
<1>1. Checked' = Checked /\ Contended' = Contended
  BY DEF Checked, Contended, Checking
<1>2. copies' = [x \in Seqs |-> IF x \in S THEN 0 ELSE copies[x]]
  BY DEF Account
<1>3. overlap \ S \subseteq overlap' /\ Contended \subseteq overlap'
  BY DEF Account
<1>4. copies' \in [Seqs -> 0 .. 2]
  BY <1>2 DEF DeliveryInv
<1>5. \A x \in Seqs : copies'[x] > 0 => x \in DOMAIN completed'
  BY <1>2 DEF DeliveryInv
<1>6. \A x \in Checked' \cap DOMAIN completed' : x \in overlap'
  BY <1>1, <1>3 DEF DeliveryInv
<1>7. DeliveredOnce'
  BY <1>2, <1>3 DEF DeliveryInv, DeliveredOnce
<1> QED
  BY <1>1, <1>3, <1>4, <1>5, <1>6, <1>7 DEF DeliveryInv

\* At first there is nothing.
LEMMA InitInv == Init => Inv
BY DEF Init, Inv, ImagesInv, WorkerInv, DeliveryInv, DeliveredOnce, Checked, Contended,
       Checking, idle

\* A chunk that is stored, or refused.
LEMMA StoreStep ==
    ASSUME Inv, NEW f \in Frames, NEW lag \in Lags, Refuse(f) \/ Store(f, lag)
    PROVE  Inv'
<1>1. WorkerInv'
  <2>1. worker' = worker
    BY DEF Refuse, Store
  <2> QED
    BY <2>1 DEF Inv, WorkerInv, Complete, Pure
<1>2. PICK taken : Account(taken, PushedOut(f.seq) \cap DOMAIN completed)
  BY DEF Refuse, Store
<1>3. completed' = Without(completed, PushedOut(f.seq)) /\ UNCHANGED worker
  BY DEF Refuse, Store
<1>4. DOMAIN completed' = DOMAIN completed \ (PushedOut(f.seq) \cap DOMAIN completed)
  <2>1. DOMAIN completed' = DOMAIN completed \ PushedOut(f.seq)
    BY <1>3, WithoutDomain
  <2> QED
    BY <2>1
<1>5. DeliveryInv'
  BY <1>2, <1>3, <1>4, AccountStep DEF Inv
<1>6. CASE Refuse(f)
  <2>1. ImagesInv'
    BY <1>6, FewerImages DEF Inv, Refuse
  <2> QED
    BY <1>1, <1>5, <2>1 DEF Inv
<1>7. CASE Store(f, lag)
  <2>1. Merged(f, lag) \in Cached /\ Pure(Merged(f, lag))
    BY <1>7, MergedPure DEF Inv, Store
  <2>2. images' = [s \in (DOMAIN images \ PushedOut(f.seq)) \cup {f.seq} |->
                     IF s = f.seq THEN Merged(f, lag) ELSE images[s]]
    BY <1>7 DEF Store
  <2>3. ImagesInv'
    BY <2>1, <2>2 DEF Inv, ImagesInv, Pure
  <2> QED
    BY <1>1, <1>5, <2>3 DEF Inv
<1> QED
  BY <1>6, <1>7

\* The chunk that completes an image: it is checked against nothing that was completed.
LEMMA AssembleStep ==
    ASSUME Inv, NEW t \in Threads, NEW f \in Frames, NEW lag \in Lags,
           worker[t].st = "idle", Assemble(t, f, lag)
    PROVE  Inv'
<1> DEFINE image == Merged(f, lag)
           check == [st |-> "checking", seq |-> f.seq, age |-> lag,
                     img |-> image.img, chunks |-> image.chunks]
           P == PushedOut(f.seq)
<1>1. image \in Cached /\ Pure(image) /\ Complete(image)
  BY MergedPure DEF Inv, Assemble
<1>2. worker' = [worker EXCEPT ![t] = check]
  BY DEF Assemble
<1>3. ImagesInv'
  BY FewerImages DEF Inv, Assemble
<1>4. lag \in Nat /\ f.seq \in Seqs
  BY FrameShape, CameraAssumption DEF Lags
<1>5. check \in Busy /\ Pure(check) /\ Complete(check) /\ check.seq = f.seq
      /\ check.st = "checking"
  <2> HIDE DEF image
  <2> QED BY <1>1, <1>4 DEF Cached, Busy, Pure, Complete
<1>6. WorkerInv'
  <2> HIDE DEF check
  <2> QED BY <1>2, <1>5 DEF Inv, WorkerInv, Pure, Complete
<1>7. /\ completed' = Without(completed, P) /\ f.seq \notin DOMAIN completed
      /\ copies' = [x \in Seqs |-> IF x \in P \cap DOMAIN completed THEN 0 ELSE copies[x]]
      /\ overlap' = (overlap \ (P \cap DOMAIN completed)) \cup Contended \cup ({f.seq} \cap Checked)
  BY DEF Assemble, Account
<1>8. DOMAIN completed' = DOMAIN completed \ P
  BY <1>7, WithoutDomain
<1>9. ASSUME NEW u \in Threads, NEW s \in Seqs, Checking(u, s)'
      PROVE  \/ u = t /\ s = f.seq
             \/ u # t /\ Checking(u, s)
  <2> HIDE DEF check
  <2> QED BY <1>2, <1>5, <1>9 DEF Inv, WorkerInv, Checking
<1>10. Contended' \subseteq overlap'
  <2> SUFFICES ASSUME NEW s \in Seqs, NEW u \in Threads, NEW v \in Threads, u # v,
                      Checking(u, s)', Checking(v, s)'
               PROVE  s \in overlap'
    BY DEF Contended
  <2>1. CASE u = t
    <3>1. s = f.seq /\ Checking(v, s)
      BY <2>1, <1>9
    <3> QED
      BY <3>1, <1>7 DEF Checked
  <2>2. CASE v = t
    <3>1. s = f.seq /\ Checking(u, s)
      BY <2>2, <1>9
    <3> QED
      BY <3>1, <1>7 DEF Checked
  <2>3. CASE u # t /\ v # t
    <3>1. Checking(u, s) /\ Checking(v, s)
      BY <2>3, <1>9
    <3> QED
      BY <3>1, <1>7 DEF Contended
  <2> QED
    BY <2>1, <2>2, <2>3
<1>11. \A s \in Checked' \cap DOMAIN completed' : s \in overlap'
  <2> SUFFICES ASSUME NEW s \in Seqs, NEW u \in Threads, Checking(u, s)',
                      s \in DOMAIN completed'
               PROVE  s \in overlap'
    BY DEF Checked
  <2>1. s # f.seq /\ s \in DOMAIN completed /\ s \notin P
    BY <1>7, <1>8
  <2>2. s \in Checked
    BY <1>9, <2>1 DEF Checked
  <2> QED
    BY <1>7, <2>1, <2>2 DEF Inv, DeliveryInv
<1>12. /\ copies' \in [Seqs -> 0 .. 2]
       /\ \A s \in Seqs : copies'[s] > 0 => s \in DOMAIN completed'
       /\ DeliveredOnce'
  BY <1>7, <1>8 DEF Inv, DeliveryInv, DeliveredOnce
<1>13. DeliveryInv'
  BY <1>10, <1>11, <1>12 DEF DeliveryInv
<1> QED
  BY <1>3, <1>6, <1>13 DEF Inv

\* A thread is through with its check: it checks nothing any more.
LEMMA CheckEnds ==
    ASSUME WorkerInv, NEW t \in Threads, worker' = [worker EXCEPT ![t] = idle]
    PROVE  /\ WorkerInv'
           /\ \A u \in Threads, s \in Seqs : Checking(u, s)' => u # t /\ Checking(u, s)
           /\ Checked' \subseteq Checked
           /\ Contended' \subseteq Contended
<1>1. WorkerInv'
  BY DEF WorkerInv, Pure, Complete
<1>2. \A u \in Threads, s \in Seqs : Checking(u, s)' => u # t /\ Checking(u, s)
  BY DEF WorkerInv, Checking, idle
<1>3. Checked' \subseteq Checked
  BY <1>2 DEF Checked
<1>4. Contended' \subseteq Contended
  BY <1>2 DEF Contended
<1> QED
  BY <1>1, <1>2, <1>3, <1>4

\* The check failed.
LEMMA DiscardStep ==
    ASSUME Inv, NEW t \in Threads, Discard(t)
    PROVE  Inv'
<1>1. /\ WorkerInv' /\ Checked' \subseteq Checked /\ Contended' \subseteq Contended
      /\ UNCHANGED <<images, completed, copies, overlap>>
  BY CheckEnds DEF Inv, Discard
<1>2. ImagesInv'
  BY <1>1 DEF Inv, ImagesInv, Pure
<1>3. DeliveryInv'
  BY <1>1 DEF Inv, DeliveryInv, DeliveredOnce
<1> QED
  BY <1>1, <1>2, <1>3 DEF Inv

\* The image is delivered: a second time only if the threads overlapped.
LEMMA DeliverStep ==
    ASSUME Inv, NEW t \in Threads, Deliver(t)
    PROVE  Inv'
<1> DEFINE q == worker[t].seq
<1>1. /\ WorkerInv' /\ Checked' \subseteq Checked /\ Contended' \subseteq Contended
      /\ \A u \in Threads, s \in Seqs : Checking(u, s)' => u # t /\ Checking(u, s)
      /\ UNCHANGED <<images, overlap>>
  BY CheckEnds DEF Inv, Deliver
<1>2. q \in Seqs /\ Checking(t, q)
  BY DEF Inv, WorkerInv, Deliver, Checking, Busy, idle
<1>3. /\ DOMAIN completed' = DOMAIN completed \cup {q}
      /\ copies' = [copies EXCEPT ![q] = IF @ = 0 THEN 1 ELSE 2]
  BY DEF Deliver
<1>4. ImagesInv'
  BY <1>1 DEF Inv, ImagesInv, Pure
<1>5. \A s \in Checked' \cap DOMAIN completed' : s \in overlap'
  <2> SUFFICES ASSUME NEW s \in Seqs, NEW u \in Threads, Checking(u, s)',
                      s \in DOMAIN completed'
               PROVE  s \in overlap
    BY <1>1 DEF Checked
  <2>1. u # t /\ Checking(u, s)
    BY <1>1
  <2>2. CASE s = q
    BY <1>2, <2>1, <2>2 DEF Inv, DeliveryInv, Contended
  <2>3. CASE s # q
    BY <1>3, <2>1, <2>3 DEF Inv, DeliveryInv, Checked
  <2> QED
    BY <2>2, <2>3
<1>6. copies[q] # 0 => q \in overlap
  BY <1>2 DEF Inv, DeliveryInv, Checked
<1>7. /\ copies' \in [Seqs -> 0 .. 2]
      /\ \A s \in Seqs : copies'[s] > 0 => s \in DOMAIN completed'
  <2> HIDE DEF q
  <2> QED BY <1>2, <1>3 DEF Inv, DeliveryInv
<1>8. DeliveredOnce'
  <2> HIDE DEF q
  <2> QED BY <1>1, <1>2, <1>3, <1>6 DEF Inv, DeliveryInv, DeliveredOnce
<1>9. DeliveryInv'
  BY <1>1, <1>5, <1>7, <1>8 DEF Inv, DeliveryInv
<1> QED
  BY <1>1, <1>4, <1>9 DEF Inv

\* The watchdog.
LEMMA ExpireStep ==
    ASSUME Inv, NEW lag \in Lags, Expire(lag)
    PROVE  Inv'
<1> DEFINE old == {s \in DOMAIN completed : completed[s] - lag >= 2 * Timeout}
<1>1. /\ completed' = Without(completed, old) /\ Account(NoSeq, old) /\ UNCHANGED worker
      /\ \E S : images' = Without(images, S)
  BY DEF Expire
<1>2. ImagesInv'
  BY <1>1, FewerImages DEF Inv
<1>3. WorkerInv'
  BY <1>1 DEF Inv, WorkerInv, Pure, Complete
<1>4. DOMAIN completed' = DOMAIN completed \ old
  BY <1>1, WithoutDomain
<1>5. DeliveryInv'
  BY <1>1, <1>4, AccountStep DEF Inv
<1> QED
  BY <1>2, <1>3, <1>5 DEF Inv

\* Time passes: only ages change.
LEMMA TickStep ==
    ASSUME Inv, Tick
    PROVE  Inv'
<1>0. ImageAge \in Nat /\ CompletedAge \in Nat
  BY CameraAssumption DEF ImageAge, CompletedAge
<1>1. ASSUME NEW age \in Nat, NEW limit \in Nat
      PROVE  Older(age, limit) \in Nat
  BY DEF Older
<1>2. ImagesInv'
  <2>1. ASSUME NEW s \in DOMAIN images'
        PROVE  images'[s] \in Cached /\ Pure(images'[s])
    <3>1. /\ s \in DOMAIN images
          /\ images'[s] = [images[s] EXCEPT !.age = Older(images[s].age, ImageAge)]
      BY <2>1 DEF Tick
    <3>2. images[s] \in Cached /\ Pure(images[s])
      BY <3>1 DEF Inv, ImagesInv
    <3>3. Older(images[s].age, ImageAge) \in Nat
      BY <1>0, <1>1, <3>2 DEF Cached
    <3> QED
      BY <3>1, <3>2, <3>3 DEF Cached, Pure
  <2> QED
    BY <2>1 DEF ImagesInv, Pure
<1>3. ASSUME NEW t \in Threads
      PROVE  /\ worker'[t] \in {idle} \cup Busy
             /\ worker'[t] # idle => Complete(worker'[t]) /\ Pure(worker'[t])
             /\ worker'[t].st = worker[t].st
             /\ worker[t].st = "checking" => worker'[t].seq = worker[t].seq
  <2>1. CASE worker[t] = idle
    BY <2>1 DEF Tick, idle
  <2>2. CASE worker[t] \in Busy
    <3>1. /\ worker'[t] = [worker[t] EXCEPT !.age = Older(worker[t].age, CompletedAge)]
          /\ Complete(worker[t]) /\ Pure(worker[t])
      BY <2>2 DEF Tick, Busy, Inv, WorkerInv, idle
    <3>2. Older(worker[t].age, CompletedAge) \in Nat
      BY <1>0, <1>1, <2>2 DEF Busy
    <3> QED
      BY <2>2, <3>1, <3>2 DEF Busy, Complete, Pure
  <2> QED
    BY <2>1, <2>2 DEF Inv, WorkerInv
<1>4. WorkerInv'
  <2>1. worker' \in [Threads -> {idle} \cup Busy]
    BY <1>3 DEF Tick
  <2> QED
    BY <1>3, <2>1 DEF WorkerInv, Complete, Pure
<1>5. \A u \in Threads, s \in Seqs : Checking(u, s)' <=> Checking(u, s)
  BY <1>3 DEF Checking
<1>6. Checked' = Checked /\ Contended' = Contended
  BY <1>5 DEF Checked, Contended
<1>7. DOMAIN completed' = DOMAIN completed /\ UNCHANGED <<copies, overlap>>
  BY DEF Tick
<1>8. DeliveryInv'
  BY <1>6, <1>7 DEF Inv, DeliveryInv, DeliveredOnce
<1> QED
  BY <1>2, <1>4, <1>8 DEF Inv

\* Every step keeps the invariant.
LEMMA NextInv == Inv /\ [Next]_vars => Inv'
<1> SUFFICES ASSUME Inv, [Next]_vars
             PROVE  Inv'
  OBVIOUS
<1>1. CASE UNCHANGED vars
  BY <1>1 DEF Inv, ImagesInv, WorkerInv, DeliveryInv, DeliveredOnce, Pure, Complete,
              Checked, Contended, Checking, vars
<1>2. ASSUME NEW t \in Threads, NEW f \in Frames, NEW lag \in Lags, Ingest(t, f, lag)
      PROVE  Inv'
  BY <1>1, <1>2, StoreStep, AssembleStep DEF Ingest, Stale
<1> QED
  BY <1>1, <1>2, DiscardStep, DeliverStep, ExpireStep, TickStep DEF Next

\* Chunks of two images are never mixed, neither in the cache nor in what a thread is
\* checking without the lock (ingest).
THEOREM NeverMixed == Spec => []NoMixing
<1>1. Inv => NoMixing
  BY DEF Inv, ImagesInv, WorkerInv, NoMixing, Pure
<1> QED
  BY <1>1, InitInv, NextInv, PTL DEF Spec

\* While the completion of a sequence is remembered, no other image of it is delivered,
\* unless two threads were at work on it at once (ingest, expire).
THEOREM OneDelivery == Spec => []DeliveredOnce
<1>1. Inv => DeliveredOnce
  BY DEF Inv, DeliveryInv
<1> QED
  BY <1>1, InitInv, NextInv, PTL DEF Spec

-----------------------------------------------------------------------------
\* The window: which sequences are active, and what is kept of them.
ActiveOK ==
    /\ active \in Seq(Seqs)
    /\ Len(active) <= MaxCached
    /\ \A i, j \in DOMAIN active : active[i] = active[j] => i = j

Fits(image) ==
    /\ image.age \in 0 .. ImageAge
    /\ DOMAIN image.chunks \subseteq 0 .. Count[image.img] - 1
    /\ ~Complete(image)

KeptOK == DOMAIN images \subseteq Range(active) /\ \A s \in DOMAIN images : Fits(images[s])

StampsOK ==
    /\ DOMAIN completed \subseteq Seqs
    /\ \A s \in DOMAIN completed : completed[s] \in 0 .. CompletedAge
    /\ \A t \in Threads : worker[t] # idle => worker[t].age \in 0 .. CompletedAge
    /\ overlap \subseteq Seqs

WindowInv == ActiveOK /\ KeptOK /\ StampsOK

\* The bounds on ages.
LEMMA Bounds ==
    /\ ImageAge \in Nat /\ CompletedAge \in Nat
    /\ \A lag \in Lags : lag \in 0 .. ImageAge /\ lag \in 0 .. CompletedAge
    /\ \A limit \in Nat : \A age \in 0 .. limit :
         Older(age, limit) \in 0 .. limit /\ Older(age, limit) >= age
BY CameraAssumption DEF ImageAge, CompletedAge, Lags, Older

\* What admitting a sequence does to the list: nothing when it is active; otherwise it is
\* newer than the newest and becomes the newest, and the oldest goes if the list is full.
LEMMA ActivateShape ==
    ASSUME ActiveOK, NEW s \in Seqs, Activate(s)
    PROVE  /\ ActiveOK'
           /\ s \in Range(active')
           /\ PushedOut(s) = Range(active) \ Range(active')
           /\ active' = active \/ /\ active'[Len(active')] = s
                                  /\ active # << >> => Newer(s, Newest)
           /\ \A x \in PushedOut(s) : /\ Len(active) = MaxCached /\ x = active[1]
                                      /\ active # << >> /\ active'[MaxCached] = s
<1> DEFINE longer == Append(active, s)
<1>0. /\ active \in Seq(Seqs) /\ Len(active) \in Nat /\ DOMAIN active = 1 .. Len(active)
      /\ Len(active) <= MaxCached /\ MaxCached \in Nat \ {0}
      /\ active' = Activated(s)
  BY CameraAssumption DEF ActiveOK, Activate
<1>1. PushedOut(s) = Range(active) \ Range(active')
  BY <1>0 DEF PushedOut
<1>2. CASE s \in Range(active)
  <2>1. active' = active
    BY <1>0, <1>2 DEF Activated
  <2> QED
    BY <1>1, <1>2, <2>1 DEF ActiveOK
<1>3. CASE s \notin Range(active)
  <2>1. /\ longer \in Seq(Seqs) /\ Len(longer) = Len(active) + 1
        /\ DOMAIN longer = 1 .. Len(active) + 1
        /\ \A i \in 1 .. Len(active) : longer[i] = active[i]
        /\ longer[Len(active) + 1] = s
    BY <1>0
  <2>2. \A i \in 1 .. Len(active) : active[i] # s
    BY <1>0, <1>3 DEF Range
  <2>3. \A i, j \in 1 .. Len(active) + 1 : longer[i] = longer[j] => i = j
    <3> SUFFICES ASSUME NEW i \in 1 .. Len(active) + 1, NEW j \in 1 .. Len(active) + 1,
                        longer[i] = longer[j]
                 PROVE  i = j
      OBVIOUS
    <3>1. CASE i <= Len(active) /\ j <= Len(active)
      <4>1. i \in DOMAIN active /\ j \in DOMAIN active /\ active[i] = active[j]
        BY <1>0, <2>1, <3>1
      <4> QED
        BY <4>1 DEF ActiveOK
    <3>2. CASE ~(i <= Len(active) /\ j <= Len(active))
      BY <1>0, <2>1, <2>2, <3>2
    <3> QED
      BY <3>1, <3>2
  <2>4. active # << >> => Newer(s, Newest)
    BY <1>3 DEF Activate, Admissible
  <2>7. active' = IF Len(longer) > MaxCached THEN Tail(longer) ELSE longer
    BY <1>0, <1>3 DEF Activated
  <2> HIDE DEF longer
  <2>5. CASE Len(longer) <= MaxCached
    <3>1. active' = longer
      BY <1>0, <2>1, <2>5, <2>7
    <3>2. Range(active) \subseteq Range(active') /\ s \in Range(active')
      BY <1>0, <2>1, <3>1 DEF Range
    <3>3. ActiveOK'
      BY <2>1, <2>3, <2>5, <3>1 DEF ActiveOK
    <3> QED
      BY <1>1, <2>1, <2>4, <3>1, <3>2, <3>3
  <2>6. CASE ~(Len(longer) <= MaxCached)
    <3>1. active' = Tail(longer) /\ Len(active) = MaxCached
      <4>1. Len(active) \in Nat /\ MaxCached \in Nat /\ Len(active) <= MaxCached
        BY <1>0
      <4>2. Len(longer) = Len(active) + 1
        BY <2>1
      <4>3. Len(active) = MaxCached /\ Len(longer) > MaxCached
        BY <2>6, <4>1, <4>2
      <4> QED
        BY <2>7, <4>3
    <3>2. /\ active' \in Seq(Seqs) /\ Len(active') = MaxCached
          /\ DOMAIN active' = 1 .. MaxCached
          /\ \A i \in 1 .. MaxCached : active'[i] = longer[i + 1]
      BY <1>0, <2>1, <3>1
    <3>3. ActiveOK'
      <4>1. \A i, j \in 1 .. MaxCached : active'[i] = active'[j] => i = j
        <5> SUFFICES ASSUME NEW i \in 1 .. MaxCached, NEW j \in 1 .. MaxCached,
                            active'[i] = active'[j]
                     PROVE  i = j
          OBVIOUS
        <5>1. /\ i + 1 \in 1 .. Len(active) + 1 /\ j + 1 \in 1 .. Len(active) + 1
              /\ longer[i + 1] = longer[j + 1]
          BY <1>0, <3>1, <3>2
        <5>2. i + 1 = j + 1
          BY <2>3, <5>1
        <5> QED
          BY <1>0, <5>2
      <4> QED
        BY <1>0, <3>2, <4>1 DEF ActiveOK
    <3>4. active'[MaxCached] = s /\ s \in Range(active')
      <4>1. MaxCached \in 1 .. MaxCached /\ longer[MaxCached + 1] = s
        BY <1>0, <2>1, <3>1
      <4>2. active'[MaxCached] = s /\ MaxCached \in DOMAIN active'
        BY <3>2, <4>1
      <4> QED
        BY <4>2 DEF Range
    <3>5. ASSUME NEW x \in Range(active) \ Range(active') PROVE x = active[1]
      <4>1. PICK i \in 1 .. Len(active) : x = active[i]
        BY <1>0 DEF Range
      <4>2. CASE i = 1
        BY <4>1, <4>2
      <4>3. CASE i # 1
        <5>1. i - 1 \in 1 .. MaxCached /\ i - 1 \in Int /\ (i - 1) + 1 = i
          BY <1>0, <3>1, <4>3
        <5>2. active'[i - 1] = active[i]
          BY <1>0, <2>1, <3>2, <5>1
        <5> QED
          BY <3>2, <3>5, <4>1, <5>1, <5>2 DEF Range
      <4> QED
        BY <4>2, <4>3
    <3>6. active # << >>
      BY <1>0, <3>1
    <3> QED
      BY <1>1, <2>4, <3>1, <3>2, <3>3, <3>4, <3>5, <3>6
  <2> QED
    BY <2>5, <2>6
<1> QED
  BY <1>2, <1>3

\* A set of naturals that is not empty has a least member.
LEMMA Least ==
    ASSUME NEW S \in SUBSET Nat, S # {}
    PROVE  \E k \in S : \A l \in S : k <= l
<1>1. PICK k \in S : \A l \in S : <<l, k>> \notin OpToRel(<, Nat)
  BY NatLessThanWellFounded, WFMin
<1>2. \A l \in S : ~(l < k)
  BY <1>1, Zenon DEF OpToRel
<1> QED
  BY <1>2

\* Keeping is a function on the prefixes of the list.
Keeps(f, n, due) ==
    f = [k \in 0 .. n |-> IF k = 0 THEN << >>
                          ELSE IF active[k] \in due THEN f[k - 1]
                          ELSE Append(f[k - 1], active[k])]

LEMMA KeepsExists ==
    ASSUME NEW due
    PROVE  \A n \in Nat : \E f : Keeps(f, n, due)
<1> DEFINE without == {n \in Nat : ~\E f : Keeps(f, n, due)}
<1>1. SUFFICES ASSUME without # {} PROVE FALSE
  OBVIOUS
<1>2. PICK n \in without : \A l \in without : n <= l
  <2> HIDE DEF without
  <2>1. without \in SUBSET Nat
    BY DEF without
  <2> QED
    BY <1>1, <2>1, Least
<1>3. n # 0
  <2> DEFINE f == [k \in 0 .. 0 |-> << >>]
  <2>1. Keeps(f, 0, due)
    BY DEF Keeps
  <2> QED
    BY <2>1
<1>4. PICK g : Keeps(g, n - 1, due)
  BY <1>2, <1>3
<1> DEFINE last == IF active[n] \in due THEN g[n - 1] ELSE Append(g[n - 1], active[n])
           f == [k \in 0 .. n |-> IF k = n THEN last ELSE g[k]]
<1>5. n \in Nat /\ n - 1 \in Nat
  BY <1>3
<1>6. \A k \in 0 .. n - 1 : g[k] = IF k = 0 THEN << >>
                                   ELSE IF active[k] \in due THEN g[k - 1]
                                   ELSE Append(g[k - 1], active[k])
  BY <1>4 DEF Keeps
<1> HIDE DEF last
<1>7. \A k \in 0 .. n : f[k] = IF k = 0 THEN << >>
                               ELSE IF active[k] \in due THEN f[k - 1]
                               ELSE Append(f[k - 1], active[k])
  <2> TAKE k \in 0 .. n
  <2>1. CASE k = n
    <3>1. f[n] = last /\ f[n - 1] = g[n - 1]
      BY <1>5
    <3> QED
      BY <1>3, <2>1, <3>1 DEF last
  <2>2. CASE k # n /\ k # 0
    <3>1. k \in 0 .. n - 1 /\ f[k] = g[k] /\ f[k - 1] = g[k - 1]
      BY <1>5, <2>2
    <3> QED
      BY <1>6, <2>2, <3>1
  <2>3. CASE k # n /\ k = 0
    BY <1>5, <1>6, <2>3
  <2> QED
    BY <2>1, <2>2, <2>3
<1>8. Keeps(f, n, due)
  <2>1. f = [k \in 0 .. n |-> f[k]]
    OBVIOUS
  <2> HIDE DEF f
  <2> QED
    BY <1>7, <2>1 DEF Keeps
<1> QED
  BY <1>8

\* What is left of the list when the sequences in due are given up: the others, and the
\* newest still is the newest unless it is one of those given up.
KeptOf(s, k, due) ==
    /\ s \in Seq(Seqs)
    /\ Len(s) <= k
    /\ \A i, j \in DOMAIN s : s[i] = s[j] => i = j
    /\ Range(s) = {active[i] : i \in 1 .. k} \ due
    /\ (k > 0 /\ active[k] \notin due) => s[Len(s)] = active[k]

LEMMA RemainingShape ==
    ASSUME ActiveOK, NEW due, active' = Remaining(due)
    PROVE  /\ ActiveOK'
           /\ Range(active') = Range(active) \ due
           /\ (active # << >> /\ Newest \notin due) => active'[Len(active')] = Newest
<1> DEFINE L == Len(active)
           f == CHOOSE g : Keeps(g, L, due)
           wrong == {k \in 0 .. L : ~KeptOf(f[k], k, due)}
<1>0. /\ L \in Nat /\ active \in Seq(Seqs) /\ DOMAIN active = 1 .. L
      /\ \A i, j \in 1 .. L : active[i] = active[j] => i = j
  BY DEF ActiveOK
<1>1. active' = f[L]
  BY DEF Remaining, Keeps
<1>2. Keeps(f, L, due)
  BY <1>0, KeepsExists
<1> HIDE DEF f
<1>3. \A k \in 0 .. L : f[k] = IF k = 0 THEN << >>
                               ELSE IF active[k] \in due THEN f[k - 1]
                               ELSE Append(f[k - 1], active[k])
  BY <1>2 DEF Keeps
<1>4. wrong = {}
  <2> SUFFICES ASSUME wrong # {} PROVE FALSE
    OBVIOUS
  <2>1. PICK k \in wrong : \A l \in wrong : k <= l
    <3> HIDE DEF wrong
    <3>1. wrong \in SUBSET Nat
      BY <1>0 DEF wrong
    <3> QED
      BY <3>1, Least
  <2>2. k # 0
    <3>1. f[0] = << >>
      BY <1>0, <1>3
    <3>2. KeptOf(<< >>, 0, due)
      BY DEF KeptOf, Range
    <3> QED
      BY <2>1, <3>1, <3>2
  <2>3. k \in 1 .. L /\ k - 1 \in 0 .. L
    BY <1>0, <2>1, <2>2
  <2>4. KeptOf(f[k - 1], k - 1, due)
    BY <1>0, <2>1, <2>3
  <2> DEFINE before == f[k - 1]
             x == active[k]
  <2>5. /\ before \in Seq(Seqs) /\ Len(before) \in Nat /\ Len(before) <= k - 1
        /\ DOMAIN before = 1 .. Len(before)
        /\ \A i, j \in DOMAIN before : before[i] = before[j] => i = j
        /\ Range(before) = {active[i] : i \in 1 .. k - 1} \ due
    BY <2>4 DEF KeptOf
  <2>6. x \in Seqs /\ \A i \in 1 .. k - 1 : active[i] # x
    BY <1>0, <2>3
  <2>7. {active[i] : i \in 1 .. k} = {active[i] : i \in 1 .. k - 1} \cup {x}
    BY <1>0, <2>3
  <2>8. f[k] = IF x \in due THEN before ELSE Append(before, x)
    BY <1>3, <2>2, <2>3
  <2> HIDE DEF wrong, before
  <2>9. KeptOf(f[k], k, due)
    <3>1. CASE x \in due
      <4>1. f[k] = before /\ Len(before) <= k
        BY <2>3, <2>5, <2>8, <3>1
      <4>2. Range(before) = {active[i] : i \in 1 .. k} \ due
        BY <2>5, <2>7, <3>1
      <4> QED
        BY <2>5, <3>1, <4>1, <4>2 DEF KeptOf
    <3>2. CASE x \notin due
      <4> HIDE DEF x
      <4> DEFINE after == Append(before, x)
      <4>1. /\ after \in Seq(Seqs) /\ Len(after) = Len(before) + 1
            /\ DOMAIN after = 1 .. Len(before) + 1
            /\ \A i \in 1 .. Len(before) : after[i] = before[i]
            /\ after[Len(before) + 1] = x
        BY <2>5, <2>6
      <4>2. f[k] = after
        BY <2>8, <3>2
      <4> HIDE DEF after
      <4>3. Range(after) = Range(before) \cup {x}
        <5>1. DOMAIN after = DOMAIN before \cup {Len(before) + 1}
          BY <2>5, <4>1
        <5> QED
          BY <2>5, <4>1, <5>1 DEF Range
      <4>4. \A i \in 1 .. Len(before) : before[i] # x
        <5>1. x \notin Range(before)
          BY <2>5, <2>6
        <5> QED
          BY <2>5, <5>1 DEF Range
      <4>5. ASSUME NEW i \in DOMAIN after, NEW j \in DOMAIN after, after[i] = after[j]
            PROVE  i = j
        BY <2>5, <4>1, <4>4, <4>5
      <4>6. Range(after) = {active[i] : i \in 1 .. k} \ due
        BY <2>5, <2>7, <3>2, <4>3
      <4>7. Len(after) <= k /\ after[Len(after)] = active[k]
        BY <2>3, <2>5, <4>1 DEF x
      <4> QED
        BY <4>1, <4>2, <4>5, <4>6, <4>7 DEF KeptOf
    <3> QED
      BY <3>1, <3>2
  <2> QED
    BY <2>1, <2>9 DEF wrong
<1>5. KeptOf(f[L], L, due)
  BY <1>0, <1>4
<1> HIDE DEF wrong
<1>6. Range(active') = Range(active) \ due
  <2>1. Range(active) = {active[i] : i \in 1 .. L}
    BY <1>0 DEF Range
  <2>2. Range(f[L]) = {active[i] : i \in 1 .. L} \ due
    BY <1>5 DEF KeptOf
  <2> QED
    BY <1>1, <2>1, <2>2
<1>7. ActiveOK'
  BY <1>0, <1>1, <1>5, CameraAssumption DEF ActiveOK, KeptOf
<1>8. (active # << >> /\ Newest \notin due) => active'[Len(active')] = Newest
  BY <1>0, <1>1, <1>5 DEF Newest, KeptOf
<1> QED
  BY <1>6, <1>7, <1>8

-----------------------------------------------------------------------------
\* The three parts of CacheDiscipline, as what a step does.
Drops ==
    \A s \in DOMAIN images \ DOMAIN images' :
      \/ \E t \in Threads : worker[t] = idle /\ worker'[t] # idle /\ worker'[t].seq = s
      \/ images[s].age >= Timeout
      \/ Len(active) = MaxCached /\ s = active[1] /\ Newer(active'[MaxCached], Newest)
Advances ==
    (/\ active # << >> /\ active' # << >>
     /\ active'[Len(active')] # Newest)
    => \/ Newer(active'[Len(active')], Newest)
       \/ Newest \in DOMAIN images /\ images[Newest].age >= Timeout
Renews == \A s \in DOMAIN images \cap DOMAIN images' : images'[s].age >= images[s].age

Step == WindowInv' /\ Drops /\ Advances /\ Renews

\* A chunk stored keeps the image within its header, and the stamp it has.
LEMMA MergedFits ==
    ASSUME KeptOK, ImagesInv, NEW f \in Frames, NEW lag \in Lags, Matches(f)
    PROVE  /\ Merged(f, lag).age \in 0 .. ImageAge
           /\ DOMAIN Merged(f, lag).chunks \subseteq 0 .. Count[Merged(f, lag).img] - 1
           /\ f.seq \in DOMAIN images => Merged(f, lag).age = images[f.seq].age
<1>1. f.index \in 0 .. Count[f.img] - 1
  <2>1. PICK i \in Images :
          f \in UNION {[seq : Seqs, img : {i}, index : {k}, bytes : Bytes(i, k)]
                        : k \in 0 .. Count[i] - 1}
    BY DEF Frames
  <2>2. PICK k \in 0 .. Count[i] - 1 :
          f \in [seq : Seqs, img : {i}, index : {k}, bytes : Bytes(i, k)]
    BY <2>1
  <2> QED
    BY <2>2
<1>2. CASE f.seq \in DOMAIN images
  <2> DEFINE old == images[f.seq]
             all == [i \in DOMAIN old.chunks \cup {f.index} |->
                       IF i \in DOMAIN old.chunks THEN old.chunks[i] ELSE Content(f)]
  <2>1. old \in Cached /\ Fits(old) /\ old.img = f.img
    BY <1>2 DEF KeptOK, ImagesInv, Matches
  <2>2. Merged(f, lag) = [old EXCEPT !.chunks = all]
    BY <1>2 DEF Merged
  <2>3. DOMAIN all = DOMAIN old.chunks \cup {f.index}
    OBVIOUS
  <2> HIDE DEF all, old
  <2>4. /\ Merged(f, lag).age = old.age /\ Merged(f, lag).img = old.img
        /\ Merged(f, lag).chunks = all
    BY <2>1, <2>2 DEF Cached
  <2> QED
    BY <1>1, <2>1, <2>3, <2>4 DEF Fits, old
<1>3. CASE f.seq \notin DOMAIN images
  BY <1>1, <1>3, Bounds DEF Merged
<1> QED
  BY <1>2, <1>3

\* A chunk that is refused, stored, or completes an image.
LEMMA IngestWindow ==
    ASSUME Inv, WindowInv, NEW t \in Threads, NEW f \in Frames, NEW lag \in Lags,
           worker[t].st = "idle", Refuse(f) \/ Store(f, lag) \/ Assemble(t, f, lag)
    PROVE  Step
<1> DEFINE q == f.seq
<1>1. q \in Seqs /\ Activate(q)
  BY FrameShape DEF Refuse, Store, Assemble
<1>2. /\ ActiveOK'
      /\ q \in Range(active')
      /\ PushedOut(q) = Range(active) \ Range(active')
      /\ active' = active \/ /\ active'[Len(active')] = q
                             /\ active # << >> => Newer(q, Newest)
      /\ \A x \in PushedOut(q) : /\ Len(active) = MaxCached /\ x = active[1]
                                 /\ active # << >> /\ active'[MaxCached] = q
  BY <1>1, ActivateShape DEF WindowInv
<1>3. worker[t] = idle
  BY DEF Inv, WorkerInv, Busy, idle
<1>4. ASSUME NEW x \in DOMAIN images'
      PROVE  \/ x \in DOMAIN images \ PushedOut(q) /\ images'[x] = images[x]
             \/ /\ x = q /\ images'[q] = Merged(f, lag) /\ Matches(f)
                /\ ~Complete(Merged(f, lag))
  <2>1. CASE Refuse(f)
    BY <1>4, <2>1 DEF Refuse, Without, Restrict
  <2>2. CASE Store(f, lag)
    BY <1>4, <2>2 DEF Store
  <2>3. CASE Assemble(t, f, lag)
    BY <1>4, <2>3 DEF Assemble, Without, Restrict
  <2> QED
    BY <2>1, <2>2, <2>3
<1>5. ASSUME NEW x \in DOMAIN images \ DOMAIN images'
      PROVE  x \in PushedOut(q) \/ (worker'[t] # idle /\ worker'[t].seq = x)
  <2>1. CASE Refuse(f)
    BY <1>5, <2>1 DEF Refuse, Without, Restrict
  <2>2. CASE Store(f, lag)
    BY <1>5, <2>2 DEF Store
  <2>3. CASE Assemble(t, f, lag)
    <3>1. x \in PushedOut(q) \/ x = q
      BY <1>5, <2>3 DEF Assemble, Without, Restrict
    <3>2. worker'[t].st = "checking" /\ worker'[t].seq = q
      BY <2>3 DEF Assemble, Inv, WorkerInv
    <3> QED
      BY <3>1, <3>2 DEF idle
  <2> QED
    BY <2>1, <2>2, <2>3
<1>6. KeptOK'
  <2>1. ASSUME NEW x \in DOMAIN images' PROVE x \in Range(active') /\ Fits(images'[x])
    <3>1. CASE x \in DOMAIN images \ PushedOut(q) /\ images'[x] = images[x]
      BY <1>2, <3>1 DEF WindowInv, KeptOK
    <3>2. CASE /\ x = q /\ images'[q] = Merged(f, lag) /\ Matches(f)
               /\ ~Complete(Merged(f, lag))
      BY <1>2, <3>2, MergedFits DEF WindowInv, Inv, Fits
    <3> QED
      BY <1>4, <2>1, <3>1, <3>2
  <2> QED
    BY <2>1 DEF KeptOK, Fits, Complete
<1>7. Renews
  <2>1. ASSUME NEW x \in DOMAIN images \cap DOMAIN images' PROVE images'[x].age = images[x].age
    BY <1>4, <2>1, MergedFits DEF WindowInv, Inv
  <2>2. \A x \in DOMAIN images : images[x].age \in Nat
    BY Bounds DEF WindowInv, KeptOK, Fits
  <2> QED
    BY <2>1, <2>2 DEF Renews
<1>8. Drops
  <2>1. ASSUME NEW x \in DOMAIN images \ DOMAIN images', x \in PushedOut(q)
        PROVE  Len(active) = MaxCached /\ x = active[1] /\ Newer(active'[MaxCached], Newest)
    BY <1>2, <2>1
  <2> QED
    BY <1>3, <1>5, <2>1 DEF Drops
<1>9. Advances
  BY <1>2 DEF Advances, Newest
<1>10. StampsOK'
  <2>1. completed' = Without(completed, PushedOut(q)) /\ \E s, S : Account(s, S)
    BY DEF Refuse, Store, Assemble
  <2>2. /\ DOMAIN completed' \subseteq DOMAIN completed
        /\ \A s \in DOMAIN completed' : completed'[s] = completed[s]
    BY <2>1 DEF Without, Restrict
  <2>3. overlap' \subseteq Seqs
    BY <2>1 DEF Account, Contended, Checked, WindowInv, StampsOK
  <2>4. ASSUME NEW u \in Threads, worker'[u] # idle PROVE worker'[u].age \in 0 .. CompletedAge
    <3>1. worker'[u] = worker[u] \/ (u = t /\ worker'[u].age = lag)
      BY DEF Refuse, Store, Assemble, Inv, WorkerInv
    <3> QED
      BY <2>4, <3>1, Bounds DEF WindowInv, StampsOK
  <2> QED
    BY <2>2, <2>3, <2>4 DEF WindowInv, StampsOK
<1> QED
  BY <1>2, <1>6, <1>7, <1>8, <1>9, <1>10 DEF Step, WindowInv

\* The watchdog: what it gives up is older than the timeout.
LEMMA ExpireWindow ==
    ASSUME Inv, WindowInv, NEW lag \in Lags, Expire(lag)
    PROVE  Step
<1> DEFINE old == {s \in DOMAIN completed : completed[s] - lag >= 2 * Timeout}
           due == {s \in DOMAIN images : images[s].age - lag >= Timeout}
<1>1. /\ completed' = Without(completed, old) /\ images' = Without(images, due)
      /\ active' = Remaining(due) /\ Account(NoSeq, old) /\ worker' = worker
  BY DEF Expire
<1>2. /\ ActiveOK' /\ Range(active') = Range(active) \ due
      /\ (active # << >> /\ Newest \notin due) => active'[Len(active')] = Newest
  <2> HIDE DEF due
  <2> QED BY <1>1, RemainingShape DEF WindowInv
<1>3. \A s \in due : s \in DOMAIN images /\ images[s].age >= Timeout
  BY Bounds, CameraAssumption DEF WindowInv, KeptOK, Fits, Lags
<1> HIDE DEF due, old
<1>4. /\ DOMAIN images' = DOMAIN images \ due
      /\ \A s \in DOMAIN images' : images'[s] = images[s]
      /\ DOMAIN completed' \subseteq DOMAIN completed
      /\ \A s \in DOMAIN completed' : completed'[s] = completed[s]
  BY <1>1 DEF Without, Restrict
<1>5. KeptOK'
  BY <1>2, <1>4 DEF WindowInv, KeptOK, Fits, Complete
<1>6. StampsOK'
  <2>1. overlap' \subseteq Seqs
    BY <1>1 DEF Account, Contended, Checked, WindowInv, StampsOK
  <2> QED
    BY <1>1, <1>4, <2>1 DEF WindowInv, StampsOK
<1>7. Renews
  BY <1>4, Bounds DEF Renews, WindowInv, KeptOK, Fits
<1>8. Drops
  BY <1>3, <1>4 DEF Drops
<1>9. Advances
  BY <1>2, <1>3 DEF Advances
<1> QED
  BY <1>2, <1>5, <1>6, <1>7, <1>8, <1>9 DEF Step, WindowInv

\* Steps that leave the list alone and neither take images out nor make them younger.
LEMMA QuietWindow ==
    ASSUME WindowInv, KeptOK', StampsOK', active' = active, DOMAIN images' = DOMAIN images,
           \A s \in DOMAIN images : images'[s].age >= images[s].age
    PROVE  Step
BY DEF Step, WindowInv, ActiveOK, Drops, Advances, Renews, Newest

\* The end of a check, time, and nothing at all.
LEMMA OtherWindow ==
    ASSUME Inv, WindowInv,
           (\E t \in Threads : Discard(t) \/ Deliver(t)) \/ Tick \/ UNCHANGED vars
    PROVE  Step
<1>1. ASSUME UNCHANGED <<images, active>>, StampsOK' PROVE Step
  <2>1. KeptOK'
    BY <1>1 DEF WindowInv, KeptOK, Fits, Complete
  <2>2. \A s \in DOMAIN images : images[s].age \in Int
    BY DEF WindowInv, KeptOK, Fits
  <2> QED
    BY <1>1, <2>1, <2>2, QuietWindow
<1>2. ASSUME NEW t \in Threads, Discard(t) PROVE Step
  <2>1. StampsOK'
    BY <1>2 DEF Discard, WindowInv, StampsOK, Inv, WorkerInv
  <2> QED
    BY <1>1, <1>2, <2>1 DEF Discard
<1>3. ASSUME NEW t \in Threads, Deliver(t) PROVE Step
  <2> DEFINE q == worker[t].seq
  <2>1. q \in Seqs /\ worker[t].age \in 0 .. CompletedAge
    BY <1>3 DEF Deliver, Inv, WorkerInv, Busy, WindowInv, StampsOK, idle
  <2>2. /\ completed' = [x \in DOMAIN completed \cup {q} |->
                           IF x = q THEN worker[t].age ELSE completed[x]]
        /\ worker' = [worker EXCEPT ![t] = idle]
        /\ UNCHANGED <<images, active, overlap>>
    BY <1>3 DEF Deliver
  <2>3. \A u \in Threads : worker'[u] # idle => worker'[u] = worker[u]
    BY <2>2 DEF Inv, WorkerInv
  <2> HIDE DEF q
  <2>4. StampsOK'
    BY <2>1, <2>2, <2>3 DEF WindowInv, StampsOK
  <2> QED
    BY <1>1, <2>2, <2>4
<1>4. CASE Tick
  <2>1. /\ images' = [s \in DOMAIN images |->
                        [images[s] EXCEPT !.age = Older(images[s].age, ImageAge)]]
        /\ completed' = [s \in DOMAIN completed |-> Older(completed[s], CompletedAge)]
        /\ worker' = [t \in Threads |->
                        IF worker[t].st = "idle" THEN idle
                        ELSE [worker[t] EXCEPT !.age = Older(worker[t].age, CompletedAge)]]
        /\ UNCHANGED <<active, overlap>>
    BY <1>4 DEF Tick
  <2>2. ASSUME NEW s \in DOMAIN images
        PROVE  Fits(images'[s]) /\ images'[s].age >= images[s].age
    <3>1. images[s] \in Cached /\ Fits(images[s])
      BY DEF Inv, ImagesInv, WindowInv, KeptOK
    <3>2. /\ Older(images[s].age, ImageAge) \in 0 .. ImageAge
          /\ Older(images[s].age, ImageAge) >= images[s].age
      BY <3>1, Bounds DEF Fits
    <3>3. images'[s] = [images[s] EXCEPT !.age = Older(images[s].age, ImageAge)]
      BY <2>1
    <3>4. /\ images'[s].age = Older(images[s].age, ImageAge)
          /\ images'[s].chunks = images[s].chunks /\ images'[s].img = images[s].img
      BY <3>1, <3>3 DEF Cached
    <3> QED
      BY <3>1, <3>2, <3>4 DEF Fits, Complete
  <2>3. KeptOK'
    BY <2>1, <2>2 DEF WindowInv, KeptOK, Fits, Complete
  <2>4. ASSUME NEW t \in Threads, worker'[t] # idle PROVE worker'[t].age \in 0 .. CompletedAge
    <3>1. worker[t] \in Busy /\ worker[t].age \in 0 .. CompletedAge
      BY <2>1, <2>4 DEF Inv, WorkerInv, WindowInv, StampsOK, idle
    <3>2. worker'[t].age = Older(worker[t].age, CompletedAge)
      BY <2>1, <3>1 DEF Busy
    <3> QED
      BY <3>1, <3>2, Bounds
  <2>5. StampsOK'
    BY <2>1, <2>4, Bounds DEF WindowInv, StampsOK
  <2> QED
    BY <2>1, <2>2, <2>3, <2>5, QuietWindow
<1>5. CASE UNCHANGED vars
  BY <1>1, <1>5 DEF vars, WindowInv, StampsOK
<1> QED
  BY <1>2, <1>3, <1>4, <1>5

LEMMA WindowStep == Inv /\ WindowInv /\ [Next]_vars => Step
<1> SUFFICES ASSUME Inv, WindowInv, [Next]_vars PROVE Step
  OBVIOUS
<1>1. ASSUME NEW t \in Threads, NEW f \in Frames, NEW lag \in Lags, Ingest(t, f, lag)
      PROVE  Step
  BY <1>1, IngestWindow, OtherWindow DEF Ingest, Stale
<1> QED
  BY <1>1, ExpireWindow, OtherWindow DEF Next

LEMMA WindowInit == Init => WindowInv
BY CameraAssumption DEF Init, WindowInv, ActiveOK, KeptOK, StampsOK, idle, Range

\* The bounds on what a device makes the bridge hold: no more than MAX_CACHED_SEQUENCES
\* sequences, each in the list once, images only of those, none complete, with the stamps
\* and histories in their ranges (_activate_sequence_locked, _remove_sequence_locked).
THEOREM TypesKept == Spec => []TypeOK
<1>1. Inv /\ WindowInv => TypeOK
  <2> SUFFICES ASSUME Inv, WindowInv PROVE TypeOK
    OBVIOUS
  <2>1. \A s \in DOMAIN images : images[s].img \in Images
    BY DEF Inv, ImagesInv, Cached
  <2>2. \A t \in Threads :
          worker[t] = idle \/ (worker[t].st = "checking" /\ worker[t].seq \in Seqs)
    BY DEF Inv, WorkerInv, Busy
  <2>3. copies \in [Seqs -> 0 .. 2]
    BY DEF Inv, DeliveryInv
  <2> QED
    BY <2>1, <2>2, <2>3 DEF WindowInv, ActiveOK, KeptOK, Fits, StampsOK, TypeOK
<1>2. Inv /\ WindowInv /\ [Next]_vars => WindowInv'
  BY WindowStep DEF Step
<1> QED
  BY <1>1, <1>2, InitInv, NextInv, WindowInit, PTL DEF Spec

\* An image leaves the cache when it is complete, out of date, or the oldest of a full
\* list that a newer sequence enters; the newest sequence moves forward only; no image is
\* given a younger stamp (ingest, expire).
THEOREM Discipline == Spec => CacheDiscipline
<1>1. Inv /\ WindowInv /\ [Next]_vars => WindowInv' /\ [Drops]_vars /\ [Advances]_vars /\ [Renews]_vars
  BY WindowStep DEF Step
<1> QED
  BY <1>1, InitInv, NextInv, WindowInit, PTL
     DEF Spec, CacheDiscipline, DropsOnly, NewestAdvances, NeverRenewed, Drops, Advances, Renews
=============================================================================
