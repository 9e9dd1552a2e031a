----------------------------- MODULE DedupCache -----------------------------
(***************************************************************************)
(* The idempotence cache of the downlink (src/src/downlink/dedup.py):      *)
(* check_and_mark called by several threads at once.  The RPC handler and  *)
(* the Pub/Sub handler share one instance.                                 *)
(*                                                                         *)
(* A call reads the monotonic clock BEFORE it takes the lock, so between   *)
(* the two any number of other calls may run with a later reading.  The    *)
(* model splits a call there: Call takes the reading, Admit or Refuse is   *)
(* the body under the lock, Return gives the caller its answer.            *)
(***************************************************************************)
EXTENDS Integers, FiniteSets

CONSTANTS Callers,   \* threads that call check_and_mark
          CacheIds,  \* command identifiers
          Ttl,       \* ttl_seconds
          MaxSize,   \* max_size
          MaxClock   \* bound of the model: the clock stops here

ASSUME DedupAssumption ==
    /\ Ttl \in Nat \ {0}
    /\ MaxSize \in Nat \ {0}
    /\ MaxClock \in Nat

VARIABLES clock,    \* time.monotonic()
          marks,    \* _cache: identifier -> stamp of the call that marked it
          call,     \* per thread: the call in progress and what it has read
          promise   \* history: the identifier must not be admitted again up to
                    \* this time; Never when no promise is open

cacheVars == <<clock, marks, call, promise>>

Never == -1

Call0 == [st : {"idle"}]
InCall == [st : {"called", "admitted", "refused"}, id : CacheIds, now : Nat]
idle == [st |-> "idle"]

CacheTypeOK ==
    /\ clock \in Nat
    /\ DOMAIN marks \subseteq CacheIds
    /\ IsFiniteSet(DOMAIN marks)
    /\ Cardinality(DOMAIN marks) <= MaxSize
    /\ \A i \in DOMAIN marks : marks[i] \in Nat
    /\ call \in [Callers -> Call0 \cup InCall]
    /\ promise \in [CacheIds -> Nat \cup {Never}]

CacheInit ==
    /\ clock = 0
    /\ marks = [i \in {} |-> 0]
    /\ call = [c \in Callers |-> idle]
    /\ promise = [i \in CacheIds |-> Never]

-----------------------------------------------------------------------------
\* Slips of the kind a change to this code could make (the mutants of PROJECT.json):
\* an entry expired one tick early, an entry never expired, no room made, the wrong
\* end of the cache dropped.
UnexpiredForever(now) == DOMAIN marks
RoomyNever(S) == {S}

-----------------------------------------------------------------------------
\* What _evict_expired_locked(now) keeps: entries not older than now - Ttl.
Unexpired(now) == {i \in DOMAIN marks : marks[i] >= now - Ttl}

\* The entries of S that _evict_oldest_locked may choose.  Python's min takes the
\* first inserted of equal stamps; the model allows any of them.
Oldest(S) == {i \in S : \A j \in S : marks[i] <= marks[j]}

\* The sets of entries the capacity check may leave before the insertion.
Roomy(S) == IF Cardinality(S) >= MaxSize THEN {S \ {v} : v \in Oldest(S)} ELSE {S}

-----------------------------------------------------------------------------
Call(c, i) ==
    /\ call[c].st = "idle"
    /\ call' = [call EXCEPT ![c] = [st |-> "called", id |-> i, now |-> clock]]
    /\ UNCHANGED <<clock, marks, promise>>

AdmitUnchecked(c) ==   \* a slip: the membership test made outside the lock
    /\ call[c].st = "called"
    /\ \E kept \in Roomy(Unexpired(call[c].now)) :
         marks' = [j \in kept \cup {call[c].id} |->
                     IF j = call[c].id THEN call[c].now ELSE marks[j]]
    /\ call' = [call EXCEPT ![c].st = "admitted"]
    /\ promise' = [promise EXCEPT ![call[c].id] = call[c].now + Ttl]
    /\ UNCHANGED clock

\* Not in the cache once expired entries are gone: make room, mark, return True.
\* The promise of an entry the capacity check drops is withdrawn.
Admit(c) ==
    /\ call[c].st = "called"
    /\ LET i == call[c].id
           now == call[c].now
           live == Unexpired(now)
       IN /\ i \notin live
          /\ \E kept \in Roomy(live) :
               /\ marks' = [j \in kept \cup {i} |-> IF j = i THEN now ELSE marks[j]]
               /\ promise' = [j \in CacheIds |-> IF j = i THEN now + Ttl
                                                 ELSE IF j \in live \ kept THEN Never
                                                 ELSE promise[j]]
    /\ call' = [call EXCEPT ![c].st = "admitted"]
    /\ UNCHANGED clock

Refuse(c) ==
    /\ call[c].st = "called"
    /\ LET live == Unexpired(call[c].now)
       IN /\ call[c].id \in live
          /\ marks' = [j \in live |-> marks[j]]
    /\ call' = [call EXCEPT ![c].st = "refused"]
    /\ UNCHANGED <<clock, promise>>

Return(c) ==
    /\ call[c].st \in {"admitted", "refused"}
    /\ call' = [call EXCEPT ![c] = idle]
    /\ UNCHANGED <<clock, marks, promise>>

\* clear(): every promise is withdrawn with its entry.
Clear ==
    /\ marks' = [i \in {} |-> 0]
    /\ promise' = [i \in CacheIds |-> IF i \in DOMAIN marks THEN Never ELSE promise[i]]
    /\ UNCHANGED <<clock, call>>

Tick ==
    /\ clock < MaxClock
    /\ clock' = clock + 1
    /\ UNCHANGED <<marks, call, promise>>

CacheNext ==
    \/ \E c \in Callers : \/ \E i \in CacheIds : Call(c, i)
                          \/ Admit(c)
                          \/ Refuse(c)
                          \/ Return(c)
    \/ Clear
    \/ Tick

CacheSpec == CacheInit /\ [][CacheNext]_cacheVars

-----------------------------------------------------------------------------
\* The inductive invariant.  An entry of the cache carries exactly the promise
\* its admission made, a promise without an entry has run out, and a call in
\* progress holds a reading of the past.
PromiseKept ==
    /\ \A i \in DOMAIN marks : promise[i] = marks[i] + Ttl
    /\ \A i \in CacheIds \ DOMAIN marks : promise[i] < clock
    /\ \A c \in Callers : call[c].st # "idle" => call[c].now <= clock

\* No double execution: whatever the interleaving and however stale the clock
\* reading of a call, an identifier is admitted again only after more than Ttl has
\* passed since its last admission read the clock, unless that entry was dropped
\* for capacity or by clear().
NoRepeatInWindow ==
    [][\A c \in Callers :
         call[c].st = "called" /\ call'[c].st = "admitted"
           => promise[call[c].id] < clock]_cacheVars

\* No false duplicate: a call is refused only for an admission whose window, counted
\* from its own reading of the clock, covers the reading of the refused call.
RefusedInWindow ==
    [][\A c \in Callers :
         call[c].st = "called" /\ call'[c].st = "refused"
           => promise[call[c].id] >= call[c].now]_cacheVars

=============================================================================
