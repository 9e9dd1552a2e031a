-------------------------- MODULE CameraReassembler --------------------------
(***************************************************************************)
(* The reassembly of camera images from LoRaWAN chunks                     *)
(* (src/src/uplink/camera_reassembler.py), for one device: devices share   *)
(* nothing but the lock.                                                   *)
(*                                                                         *)
(* Several threads ingest: one per MQTT connection of the bridge and one   *)
(* per TCP connection (src/src/main.py).  ingest holds the lock while it   *)
(* stores a chunk and, on the last one, takes the image out; it checks the *)
(* image WITHOUT the lock and takes the lock again to mark the sequence    *)
(* completed.  A watchdog expires what is too old.                         *)
(*                                                                         *)
(* Time: the model keeps the age of every stamp, not the clock.  An age    *)
(* stops growing once no comparison can tell it from a higher one.  A      *)
(* caller reads the clock before it takes the lock; by then the reading is *)
(* up to MaxLag old.                                                       *)
(***************************************************************************)
EXTENDS Integers, FiniteSets, Sequences, Functions

CONSTANTS Threads,   \* ingesting threads
          Images,    \* one for each HCv3 header content: length, count, CRC32, repeats
          Count,     \* chunk_count of an image
          Jpeg,      \* the images with JPEG start and end markers
          Corrupt,   \* chunks, <<image, index>>, that may be wrong and pass their CRC16
          SeqMod,    \* image_seq is taken modulo this (2^32 in the code)
          MaxCached, \* MAX_CACHED_SEQUENCES
          Timeout,   \* timeout_seconds
          MaxLag     \* bound of the model: age of a clock reading when it is used

ASSUME CameraAssumption ==
    /\ Count \in [Images -> Nat \ {0}]
    /\ Jpeg \subseteq Images
    /\ \A c \in Corrupt : c[1] \in Images /\ c[2] \in Nat
    /\ SeqMod \in Nat \ {0}
    /\ MaxCached \in Nat \ {0}
    /\ Timeout \in Nat \ {0}
    /\ MaxLag \in Nat

VARIABLES images,    \* _images: sequence -> chunks received so far
          completed, \* _completed: sequence -> age of the completion
          active,    \* _active_sequences, oldest first
          worker,    \* per thread: the assembled image it is checking, if any
          copies,    \* history: deliveries of a sequence since the reassembler
                     \* last had no record of it (0, 1, or 2 for more)
          overlap    \* history: sequences of which a chunk was taken while another
                     \* thread was checking an image of it, forgotten with copies

vars == <<images, completed, active, worker, copies, overlap>>

Seqs == 0 .. SeqMod - 1

\* Bytes that passed the CRC16 of their chunk: those of an image, or wrong ones that
\* the checksum did not give away.
Bytes(i, k) == IF <<i, k>> \in Corrupt THEN {"right", "wrong"} ELSE {"right"}
Frames == UNION {UNION {[seq : Seqs, img : {i}, index : {k}, bytes : Bytes(i, k)]
                        : k \in 0 .. Count[i] - 1} : i \in Images}

\* What is stored of a chunk: the image it was cut from, or that it is wrong.
Content(f) == [of |-> f.img, bytes |-> f.bytes]

ImageAge == Timeout + MaxLag
CompletedAge == 2 * Timeout + MaxLag
Older(age, limit) == IF age < limit THEN age + 1 ELSE limit

idle == [st |-> "idle"]
Lags == 0 .. MaxLag

Init ==
    /\ images = << >>
    /\ completed = << >>
    /\ active = << >>
    /\ worker = [t \in Threads |-> idle]
    /\ copies = [s \in Seqs |-> 0]
    /\ overlap = {}

-----------------------------------------------------------------------------
\* _sequence_is_newer: ahead by less than half the sequence space.
Newer(s, than) ==
    LET delta == (s - than) % SeqMod IN 0 < delta /\ 2 * delta < SeqMod

Newest == active[Len(active)]

ActivatedRoomier(s) ==   \* a slip: >= written for > one too far
    LET longer == Append(active, s) IN
    IF s \in Range(active) THEN active
    ELSE IF Len(longer) > MaxCached + 1 THEN Tail(longer) ELSE longer

ActivatedByNumber(s) ==   \* a slip: the smallest number taken for the oldest
    LET longer == Append(active, s)
        smallest == CHOOSE x \in Range(longer) : \A y \in Range(longer) : x <= y
    IN IF s \in Range(active) THEN active
       ELSE IF Len(longer) > MaxCached THEN SelectSeq(longer, LAMBDA x : x # smallest)
       ELSE longer

\* _activate_sequence_locked: a sequence not yet active is admitted only if newer
\* than the newest, and then pushes the oldest out of a full list.
Admissible(s) ==
    active # << >> => (s \in Range(active)) \/ Newer(s, Newest)
Activated(s) ==
    LET longer == Append(active, s) IN
    IF s \in Range(active) THEN active
    ELSE IF Len(longer) > MaxCached THEN Tail(longer) ELSE longer
PushedOut(s) == Range(active) \ Range(Activated(s))

Without(f, S) == Restrict(f, DOMAIN f \ S)

\* Every locked section of ingest starts with this; s stays admitted whatever becomes
\* of the chunk.
Activate(s) ==
    /\ Admissible(s)
    /\ active' = Activated(s)

\* The image of f.seq as the thread finds it after Activate, with the chunk stored.
\* A chunk received before is kept; the stamp of the first chunk is kept.
Merged(f, lag) ==
    IF f.seq \in DOMAIN images
    THEN [images[f.seq] EXCEPT !.chunks =
            [i \in DOMAIN @ \cup {f.index} |->
               IF i \in DOMAIN @ THEN @[i] ELSE Content(f)]]
    ELSE [img |-> f.img, age |-> lag, chunks |-> [i \in {f.index} |-> Content(f)]]

Complete(image) == DOMAIN image.chunks = 0 .. Count[image.img] - 1

\* The CRC32 of the assembled bytes is the one in the header.
Sound(image) ==
    \A i \in DOMAIN image.chunks : image.chunks[i] = [of |-> image.img, bytes |-> "right"]

MatchesAny(f) == TRUE   \* a slip: headers not compared

Matches(f) == f.seq \in DOMAIN images => images[f.seq].img = f.img

Checking(t, s) == worker[t].st = "checking" /\ worker[t].seq = s
Checked == {s \in Seqs : \E t \in Threads : Checking(t, s)}
Contended == {s \in Seqs : \E t, u \in Threads : t # u /\ Checking(t, s) /\ Checking(u, s)}

\* History: a chunk of sequence s is taken, or none (s = NoSeq), and the completions of
\* the sequences in S are forgotten, but not an overlap that goes on.
NoSeq == -1
Account(s, S) ==
    /\ copies' = [x \in Seqs |-> IF x \in S THEN 0 ELSE copies[x]]
    /\ overlap' = (overlap \ S) \cup Contended \cup ({s} \cap Checked)

-----------------------------------------------------------------------------
\* ingest, locked section: the sequence is stale; nothing changes.
Stale(f) ==
    /\ ~Admissible(f.seq)
    /\ UNCHANGED vars

\* Refused as completed already, or because the header differs from the first one
\* seen: nothing is stored, but the sequence has been activated.
Refuse(f) ==
    /\ Activate(f.seq)
    /\ f.seq \in DOMAIN completed \/ ~Matches(f)
    /\ images' = Without(images, PushedOut(f.seq))
    /\ completed' = Without(completed, PushedOut(f.seq))
    /\ Account(NoSeq, PushedOut(f.seq) \cap DOMAIN completed)
    /\ UNCHANGED worker

\* A chunk that does not make the image complete: "progress" or "duplicate".
Store(f, lag) ==
    /\ Activate(f.seq)
    /\ f.seq \notin DOMAIN completed
    /\ Matches(f)
    /\ LET image == Merged(f, lag) IN
       /\ ~Complete(image)
       /\ images' = [s \in (DOMAIN images \ PushedOut(f.seq)) \cup {f.seq} |->
                       IF s = f.seq THEN image ELSE images[s]]
    /\ completed' = Without(completed, PushedOut(f.seq))
    /\ Account(f.seq, PushedOut(f.seq) \cap DOMAIN completed)
    /\ UNCHANGED worker

AssembleAgain(t, f, lag) ==   \* a slip: completed sequences not looked up
    /\ Activate(f.seq)
    /\ Matches(f)
    /\ LET image == Merged(f, lag) IN
       /\ Complete(image)
       /\ worker' = [worker EXCEPT ![t] = [st |-> "checking", seq |-> f.seq, age |-> lag,
                                            img |-> image.img, chunks |-> image.chunks]]
    /\ images' = Without(images, PushedOut(f.seq) \cup {f.seq})
    /\ completed' = Without(completed, PushedOut(f.seq))
    /\ Account(f.seq, PushedOut(f.seq) \cap DOMAIN completed)

\* The chunk that makes the image complete: the image leaves the cache and the
\* thread goes on to check it without the lock.
Assemble(t, f, lag) ==
    /\ Activate(f.seq)
    /\ f.seq \notin DOMAIN completed
    /\ Matches(f)
    /\ LET image == Merged(f, lag) IN
       /\ Complete(image)
       /\ worker' = [worker EXCEPT ![t] = [st |-> "checking", seq |-> f.seq, age |-> lag,
                                            img |-> image.img, chunks |-> image.chunks]]
    /\ images' = Without(images, PushedOut(f.seq) \cup {f.seq})
    /\ completed' = Without(completed, PushedOut(f.seq))
    /\ Account(f.seq, PushedOut(f.seq) \cap DOMAIN completed)

Passes(image) == Sound(image) /\ image.img \in Jpeg

\* CRC32 or JPEG markers wrong: the image is dropped, the sequence stays active.
Discard(t) ==
    /\ worker[t].st = "checking"
    /\ ~Passes(worker[t])
    /\ worker' = [worker EXCEPT ![t] = idle]
    /\ UNCHANGED <<images, completed, active, copies, overlap>>

\* Marked completed under the lock, with the clock reading of the last chunk, and
\* handed to the uplink pipeline.
Deliver(t) ==
    /\ worker[t].st = "checking"
    /\ Passes(worker[t])
    /\ LET s == worker[t].seq IN
       /\ completed' = [x \in DOMAIN completed \cup {s} |->
                          IF x = s THEN worker[t].age ELSE completed[x]]
       /\ copies' = [copies EXCEPT ![s] = IF @ = 0 THEN 1 ELSE 2]
    /\ worker' = [worker EXCEPT ![t] = idle]
    /\ UNCHANGED <<images, active, overlap>>

Ingest(t, f, lag) ==
    /\ worker[t].st = "idle"
    /\ Stale(f) \/ Refuse(f) \/ Store(f, lag) \/ Assemble(t, f, lag)

\* _remove_sequence_locked, for every image given up.
Remaining(due) ==
    LET kept[k \in 0 .. Len(active)] ==
          IF k = 0 THEN << >>
          ELSE IF active[k] \in due THEN kept[k - 1] ELSE Append(kept[k - 1], active[k])
    IN kept[Len(active)]

\* The watchdog: completions older than twice the timeout are forgotten; images
\* first seen longer ago than the timeout are dropped with their sequences.
Expire(lag) ==
    LET old == {s \in DOMAIN completed : completed[s] - lag >= 2 * Timeout}
        due == {s \in DOMAIN images : images[s].age - lag >= Timeout}
    IN /\ completed' = Without(completed, old)
       /\ images' = Without(images, due)
       /\ active' = Remaining(due)
       /\ Account(NoSeq, old)
       /\ UNCHANGED worker

Tick ==
    /\ images' = [s \in DOMAIN images |-> [images[s] EXCEPT !.age = Older(@, ImageAge)]]
    /\ completed' = [s \in DOMAIN completed |-> Older(completed[s], CompletedAge)]
    /\ worker' = [t \in Threads |->
                    IF worker[t].st = "idle" THEN idle
                    ELSE [worker[t] EXCEPT !.age = Older(@, CompletedAge)]]
    /\ UNCHANGED <<active, copies, overlap>>

Next ==
    \/ \E t \in Threads : \/ \E f \in Frames, lag \in Lags : Ingest(t, f, lag)
                          \/ Discard(t)
                          \/ Deliver(t)
    \/ \E lag \in Lags : Expire(lag)
    \/ Tick

Spec == Init /\ [][Next]_vars

-----------------------------------------------------------------------------
\* Types, and the bounds on what a device makes the bridge hold: no more sequences
\* than MaxCached, an image only for an active sequence, and never a complete one.
TypeOK ==
    /\ active \in Seq(Seqs)
    /\ Len(active) <= MaxCached
    /\ \A i, j \in DOMAIN active : active[i] = active[j] => i = j
    /\ DOMAIN images \subseteq Range(active)
    /\ \A s \in DOMAIN images :
         LET image == images[s] IN
         /\ image.img \in Images
         /\ image.age \in 0 .. ImageAge
         /\ DOMAIN image.chunks \subseteq 0 .. Count[image.img] - 1
         /\ ~Complete(image)
    /\ DOMAIN completed \subseteq Seqs
    /\ \A s \in DOMAIN completed : completed[s] \in 0 .. CompletedAge
    /\ \A t \in Threads :
         worker[t] = idle \/ (worker[t].st = "checking" /\ worker[t].seq \in Seqs)
    /\ copies \in [Seqs -> 0 .. 2]
    /\ overlap \subseteq Seqs

\* Chunks of two images are never mixed, although the same sequence number may come
\* with another header after a reset of the camera and although a sequence may be
\* dropped and begun again: what is stored under a header was cut from its image.
\* An image check fails therefore only for a corruption the CRC16 let through.
NoMixing ==
    /\ \A s \in DOMAIN images : \A i \in DOMAIN images[s].chunks :
         images[s].chunks[i].of = images[s].img
    /\ \A t \in Threads : worker[t] # idle =>
         /\ Complete(worker[t])
         /\ \A i \in DOMAIN worker[t].chunks :
              worker[t].chunks[i].of = worker[t].img

\* Received chunks are not thrown away: an image disappears from the cache only by
\* being completed, by its timeout, or as the oldest of MaxCached when a newer
\* sequence arrives.
DropsOnly ==
    [][\A s \in DOMAIN images \ DOMAIN images' :
         \/ \E t \in Threads : worker[t] = idle /\ worker'[t] # idle /\ worker'[t].seq = s
         \/ images[s].age >= Timeout
         \/ Len(active) = MaxCached /\ s = active[1] /\ Newer(active'[MaxCached], Newest)]_vars

\* The newest sequence, against which staleness is decided, moves only forward in
\* the wrapping order, unless the watchdog gave the newest image up.
NewestAdvances ==
    [][(/\ active # << >> /\ active' # << >>
        /\ active'[Len(active')] # Newest)
       => \/ Newer(active'[Len(active')], Newest)
          \/ Newest \in DOMAIN images /\ images[Newest].age >= Timeout]_vars

\* While the reassembler remembers the completion of a sequence it delivers no other
\* image of it: late copies of the chunks are refused.  The one way round it is a chunk
\* taken while another thread is checking an image of the same sequence, without the
\* lock (ingest); with one ingesting thread there is none.
DeliveredOnce == \A s \in Seqs : copies[s] > 1 => s \in overlap

\* The stamp of an image is that of its first chunk for as long as it is in the cache:
\* a camera that keeps repeating chunks does not keep an image it cannot complete alive,
\* the watchdog gives it up a timeout after it began (expire).
NeverRenewed ==
    [][\A s \in DOMAIN images \cap DOMAIN images' : images'[s].age >= images[s].age]_vars

\* An image leaves the cache for the three reasons the code has, no other: so it is not
\* thrown away too early, kept past its timeout, or refused by a newest sequence that went
\* backwards (ingest, expire).
CacheDiscipline == DropsOnly /\ NewestAdvances /\ NeverRenewed
=============================================================================
