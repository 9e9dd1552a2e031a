---------------------------- MODULE DownlinkProofs ----------------------------
(***************************************************************************)
(* Proofs about the downlink path, for every set of requests, identifiers, *)
(* devices and brokers and every number of retries; about the dedup cache  *)
(* it shares between its two channels, for every set of callers and        *)
(* identifiers, every window and every capacity; and that the cache does   *)
(* what the downlink path takes it to do.                                  *)
(***************************************************************************)
EXTENDS Downlink, DedupCache, FiniteSetTheorems, TLAPS

-----------------------------------------------------------------------------
(* The downlink path.                                                          *)

\* A request backs off only when a try is left (retry.max_retries), so the index of
\* an attempt stays within Tries.
RetriesLeft == \A r \in Requests : stage[r] = "backoff" => try[r] < MaxRetries

\* The types of the parts of a request, as facts to cite.
LEMMA CommandFacts ==
    ASSUME NEW c \in Command PROVE c # NoCommand /\ c.id \in Ids /\ c.dev \in Devices
  BY DEF Command, NoCommand

LEMMA CommandOf ==
    ASSUME TypeOK, NEW r \in Requests, stage[r] # "new"
    PROVE  cmd[r] \in Command /\ cmd[r] # NoCommand /\ cmd[r].id \in Ids
  BY CommandFacts DEF TypeOK

LEMMA TryFacts ==
    /\ 0 \in Tries
    /\ \A k \in Tries : k < MaxRetries => k + 1 \in Tries
  BY DownlinkAssumption DEF Tries

\* Init establishes the types.
LEMMA TypeInit == Init => TypeOK /\ RetriesLeft
  BY TryFacts DEF Init, TypeOK, RetriesLeft, NoCommand, Attempt, AttemptStates,
                  NotAdmitted, Handling

\* The attempts keep their type when the state or the mark of one changes.
LEMMA AttemptUpdate ==
    ASSUME attempt \in [Requests -> [Tries -> Attempt]],
           NEW r \in Requests, NEW k \in Tries
    PROVE  /\ \A st \in AttemptStates :
                [attempt EXCEPT ![r][k].st = st] \in [Requests -> [Tries -> Attempt]]
           /\ [attempt EXCEPT ![r][k].late = TRUE] \in [Requests -> [Tries -> Attempt]]
<1>1. attempt[r] \in [Tries -> Attempt] /\ attempt[r][k] \in Attempt
  OBVIOUS
<1>2. ASSUME NEW st \in AttemptStates
      PROVE  [attempt EXCEPT ![r][k].st = st] \in [Requests -> [Tries -> Attempt]]
  <2>1. [attempt[r][k] EXCEPT !.st = st] \in Attempt
    BY <1>1 DEF Attempt
  <2>2. [attempt[r] EXCEPT ![k] = [attempt[r][k] EXCEPT !.st = st]] \in [Tries -> Attempt]
    BY <1>1, <2>1
  <2> QED
    BY <2>2
<1>3. [attempt EXCEPT ![r][k].late = TRUE] \in [Requests -> [Tries -> Attempt]]
  <2>1. [attempt[r][k] EXCEPT !.late = TRUE] \in Attempt
    BY <1>1 DEF Attempt
  <2>2. [attempt[r] EXCEPT ![k] = [attempt[r][k] EXCEPT !.late = TRUE]] \in [Tries -> Attempt]
    BY <1>1, <2>1
  <2> QED
    BY <2>2
<1> QED
  BY <1>2, <1>3

\* Every step preserves the types.
LEMMA TypeNext == TypeOK /\ RetriesLeft /\ [Next]_vars => TypeOK' /\ RetriesLeft'
<1> SUFFICES ASSUME TypeOK, RetriesLeft, [Next]_vars PROVE TypeOK' /\ RetriesLeft'
  OBVIOUS
<1> USE DownlinkAssumption DEF bridgeVars, history
<1>1. ASSUME NEW r \in Requests, NEW c \in Command, Submit(r, c)
      PROVE  TypeOK' /\ RetriesLeft'
  BY <1>1, CommandFacts DEF TypeOK, RetriesLeft, Submit, GoTo, Handling
<1>2. ASSUME NEW r \in Requests, Receive(r)
      PROVE  TypeOK' /\ RetriesLeft'
  BY <1>2 DEF TypeOK, RetriesLeft, Receive, GoTo, Answer, Handling, Codes, Refusals
<1>3. ASSUME NEW r \in Requests, Lookup(r)
      PROVE  TypeOK' /\ RetriesLeft'
  BY <1>3 DEF TypeOK, RetriesLeft, Lookup, GoTo, Answer, Handling, Codes, Refusals
<1>4. ASSUME NEW r \in Requests, CheckAndMark(r)
      PROVE  TypeOK' /\ RetriesLeft'
  <2>1. cmd[r].id \in Ids
    BY <1>4, CommandOf DEF CheckAndMark
  <2>2. CASE cmd[r].id \in seen
    BY <1>4, <2>2 DEF TypeOK, RetriesLeft, CheckAndMark, Answer, Codes, Refusals, Handling
  <2>3. CASE cmd[r].id \notin seen
    <3>1. epoch[cmd[r].id] \in Nat
      BY <2>1 DEF TypeOK
    <3>2. admittedIn' \in [Requests -> Nat \cup {NotAdmitted}] /\ seen' \subseteq Ids
      BY <1>4, <2>1, <2>3, <3>1 DEF TypeOK, CheckAndMark
    <3> QED
      BY <1>4, <2>3, <3>2 DEF TypeOK, RetriesLeft, CheckAndMark, GoTo, Handling
  <2> QED
    BY <2>2, <2>3
<1>5. ASSUME NEW r \in Requests, BuildFails(r)
      PROVE  TypeOK' /\ RetriesLeft'
  BY <1>5 DEF TypeOK, RetriesLeft, BuildFails, Answer, Codes, Refusals, Handling
<1>6. ASSUME NEW r \in Requests, NEW k \in Tries, stage[r] \in Handling, StartAttempt(r, k),
             UNCHANGED <<bridgeVars, cmd, history>>
      PROVE  TypeOK' /\ RetriesLeft'
  <2>1. attempt' \in [Requests -> [Tries -> Attempt]]
    BY <1>6, AttemptUpdate DEF TypeOK, StartAttempt, AttemptStates
  <2> QED
    BY <1>6, <2>1 DEF TypeOK, RetriesLeft, StartAttempt, GoTo, Handling
<1>7. ASSUME NEW r \in Requests, StartPublish(r)
      PROVE  TypeOK' /\ RetriesLeft'
  <2>1. CASE StartAttempt(r, 0)
    BY <1>6, <1>7, <2>1, TryFacts DEF StartPublish, Handling
  <2>2. CASE Answer(r, "offline") /\ UNCHANGED <<attempt, try>>
    BY <1>7, <2>2 DEF TypeOK, RetriesLeft, StartPublish, Answer, Codes, Refusals, Handling
  <2> QED
    BY <1>7, <2>1, <2>2 DEF StartPublish
<1>8. ASSUME NEW r \in Requests, NEW code \in {"failed", "timeout"},
             stage[r] = "join", AfterFailure(r, code)
      PROVE  /\ stage' \in [Requests -> Handling \cup {"new", "queued", "answered", "raised"}]
             /\ answer' \in [Requests -> Codes \cup {"none"}]
             /\ \A s \in Requests : (stage'[s] = "new") <=> (stage[s] = "new")
             /\ \A s \in Requests : stage'[s] = "backoff" => try[s] < MaxRetries
  BY <1>8 DEF TypeOK, RetriesLeft, AfterFailure, GoTo, Answer, Handling, Codes
<1>9. ASSUME NEW r \in Requests, Join(r)
      PROVE  TypeOK' /\ RetriesLeft'
  <2>1. CASE AfterFailure(r, "failed")
    BY <1>8, <1>9, <2>1 DEF TypeOK, RetriesLeft, Join
  <2>2. CASE Answer(r, "ok")
    BY <1>9, <2>2 DEF TypeOK, RetriesLeft, Join, Answer, Codes, Handling
  <2> QED
    BY <1>9, <2>1, <2>2 DEF Join
<1>18. ASSUME NEW r \in Requests, Raise(r)
       PROVE  TypeOK' /\ RetriesLeft'
  BY <1>18 DEF TypeOK, RetriesLeft, Raise, LookupRaises, MarkRaises, JoinRaises, GoTo, Handling
<1>10. ASSUME NEW r \in Requests, TimeOut(r)
       PROVE  TypeOK' /\ RetriesLeft'
  <2>1. attempt' \in [Requests -> [Tries -> Attempt]]
    BY <1>10, AttemptUpdate DEF TypeOK, TimeOut
  <2> QED
    BY <1>8, <1>10, <2>1 DEF TypeOK, RetriesLeft, TimeOut
<1>11. ASSUME NEW r \in Requests, Retry(r)
       PROVE  TypeOK' /\ RetriesLeft'
  <2>1. try[r] + 1 \in Tries
    BY <1>11, TryFacts DEF TypeOK, RetriesLeft, Retry
  <2> QED
    BY <1>6, <1>11, <2>1 DEF Retry, Handling
<1>12. ASSUME NEW r \in Requests, NEW k \in Tries, NEW st \in AttemptStates,
              attempt' = [attempt EXCEPT ![r][k].st = st],
              UNCHANGED <<bridgeVars, cmd, stage, answer, try, history>>
       PROVE  TypeOK' /\ RetriesLeft'
  <2>1. attempt' \in [Requests -> [Tries -> Attempt]]
    BY <1>12, AttemptUpdate DEF TypeOK
  <2> QED
    BY <1>12, <2>1 DEF TypeOK, RetriesLeft
<1>13. ASSUME NEW r \in Requests, NEW k \in Tries, Acquire(r, k) \/ Publish(r, k) \/ PubAck(r, k)
       PROVE  TypeOK' /\ RetriesLeft'
  BY <1>12, <1>13 DEF Acquire, Publish, PubAck, AttemptStates
<1>14. ASSUME NEW d \in Devices, Register(d)
       PROVE  TypeOK' /\ RetriesLeft'
  BY <1>14 DEF TypeOK, RetriesLeft, Register, requestVars
<1>15. ASSUME NEW b \in Brokers, LinkChange(b)
       PROVE  TypeOK' /\ RetriesLeft'
  BY <1>15 DEF TypeOK, RetriesLeft, LinkChange, requestVars
<1>16. ASSUME NEW i \in Ids, Forget(i)
       PROVE  TypeOK' /\ RetriesLeft'
  BY <1>16 DEF TypeOK, RetriesLeft, Forget, requestVars
<1>17. CASE UNCHANGED vars
  BY <1>17 DEF TypeOK, RetriesLeft, vars
<1> QED
  BY <1>1, <1>2, <1>3, <1>4, <1>5, <1>7, <1>9, <1>10, <1>11, <1>13, <1>14, <1>15,
     <1>16, <1>17, <1>18 DEF Next, Handle

\* The variables keep their types, and a request is never tried more often than
\* retry.max_retries allows, for any configuration.
THEOREM TypeCorrect == Spec => []TypeOK
<1>1. Init => TypeOK /\ RetriesLeft
  BY TypeInit
<1>2. TypeOK /\ RetriesLeft /\ [Next]_vars => TypeOK' /\ RetriesLeft'
  BY TypeNext
<1> QED
  BY <1>1, <1>2, PTL DEF Spec

-----------------------------------------------------------------------------
\* One execution per window.  OncePerWindow is not inductive: that the epoch of a new
\* admission is new for its identifier follows from what Admissions keeps of the
\* earlier ones.
Window == TypeOK /\ RetriesLeft /\ Admissions /\ OncePerWindow

LEMMA WindowInit == Init => Admissions /\ OncePerWindow
  BY DEF Init, Admissions, OncePerWindow

LEMMA WindowNext == Window /\ [Next]_vars => Admissions' /\ OncePerWindow'
<1> SUFFICES ASSUME TypeOK, Admissions, OncePerWindow, [Next]_vars
             PROVE  Admissions' /\ OncePerWindow'
  BY DEF Window
<1> USE DEF bridgeVars, history
<1>1. ASSUME NEW r \in Requests, NEW c \in Command, Submit(r, c)
      PROVE  Admissions' /\ OncePerWindow'
  <2>1. cmd[r] = NoCommand
    BY <1>1 DEF TypeOK, Submit
  <2>2. admittedIn[r] = NotAdmitted
    BY <2>1 DEF Admissions
  <2>3. \A s \in Requests : admittedIn[s] # NotAdmitted => cmd'[s] = cmd[s]
    BY <1>1, <2>2 DEF TypeOK, Submit
  <2> QED
    BY <1>1, <2>3 DEF Admissions, OncePerWindow, Submit
<1>2. ASSUME NEW r \in Requests, CheckAndMark(r)
      PROVE  Admissions' /\ OncePerWindow'
  <2> DEFINE i == cmd[r].id
  <2>1. i \in Ids /\ cmd[r] # NoCommand
    BY <1>2, CommandOf DEF CheckAndMark
  <2>2. CASE i \in seen
    BY <1>2, <2>2 DEF Admissions, OncePerWindow, CheckAndMark
  <2>3. CASE i \notin seen
    <3>1. /\ seen' = seen \cup {i}
          /\ admittedIn' = [admittedIn EXCEPT ![r] = epoch[i]]
          /\ UNCHANGED <<cmd, epoch>>
      BY <1>2, <2>3 DEF CheckAndMark
    <3>2. epoch[i] \in Nat
      BY <2>1 DEF TypeOK
    <3>3. Admissions'
      BY <2>1, <3>1, <3>2 DEF TypeOK, Admissions
    <3>4. \A s \in Requests :
            admittedIn[s] # NotAdmitted /\ cmd[s].id = i => admittedIn[s] # epoch[i]
      BY <2>3 DEF Admissions
    <3>5. OncePerWindow'
      BY <3>1, <3>4 DEF TypeOK, OncePerWindow
    <3> QED
      BY <3>3, <3>5
  <2> QED
    BY <2>2, <2>3
<1>3. ASSUME NEW i \in Ids, Forget(i)
      PROVE  Admissions' /\ OncePerWindow'
  <2>1. /\ UNCHANGED <<cmd, admittedIn>>
        /\ seen' = seen \ {i}
        /\ epoch' = [epoch EXCEPT ![i] = @ + 1]
    BY <1>3 DEF Forget, requestVars
  <2>2. OncePerWindow'
    BY <2>1 DEF OncePerWindow
  <2>3. ASSUME NEW r \in Requests, admittedIn[r] # NotAdmitted
        PROVE  /\ cmd[r] # NoCommand
               /\ admittedIn[r] <= epoch'[cmd[r].id]
               /\ admittedIn[r] = epoch'[cmd[r].id] => cmd[r].id \in seen'
    <3>1. /\ cmd[r] # NoCommand
          /\ admittedIn[r] <= epoch[cmd[r].id]
          /\ admittedIn[r] = epoch[cmd[r].id] => cmd[r].id \in seen
      BY <2>3 DEF Admissions
    <3>2. cmd[r].id \in Ids /\ epoch[cmd[r].id] \in Nat /\ admittedIn[r] \in Nat
      BY <2>3, <3>1, CommandOf DEF TypeOK
    <3>3. CASE cmd[r].id = i
      BY <2>1, <3>1, <3>2, <3>3 DEF TypeOK
    <3>4. CASE cmd[r].id # i
      BY <2>1, <3>1, <3>2, <3>4 DEF TypeOK
    <3> QED
      BY <3>3, <3>4
  <2> QED
    BY <2>1, <2>2, <2>3 DEF Admissions
<1>4. ASSUME UNCHANGED <<seen, cmd, epoch, admittedIn>>
      PROVE  Admissions' /\ OncePerWindow'
  BY <1>4 DEF Admissions, OncePerWindow
<1> QED
  <2>1. ASSUME NEW r \in Requests, Handle(r), ~CheckAndMark(r)
        PROVE  UNCHANGED <<seen, cmd, epoch, admittedIn>>
    BY <2>1 DEF Handle, Receive, Lookup, BuildFails, StartPublish, Join, Raise, TimeOut, Retry
  <2>2. ASSUME NEW r \in Requests, NEW k \in Tries, Acquire(r, k) \/ Publish(r, k) \/ PubAck(r, k)
        PROVE  UNCHANGED <<seen, cmd, epoch, admittedIn>>
    BY <2>2 DEF Acquire, Publish, PubAck
  <2>3. ASSUME NEW x, Register(x) \/ LinkChange(x)
        PROVE  UNCHANGED <<seen, cmd, epoch, admittedIn>>
    BY <2>3 DEF Register, LinkChange, requestVars
  <2>4. CASE UNCHANGED vars
    BY <1>4, <2>4 DEF vars
  <2> QED
    BY <1>1, <1>2, <1>3, <1>4, <2>1, <2>2, <2>3, <2>4 DEF Next

\* For every number of requests on the two channels, a command identifier is admitted
\* at most once between two times the cache forgets it: the RPC and the Pub/Sub
\* handler never both execute a command that was sent over both.
THEOREM AdmittedOncePerWindow == Spec => []OncePerWindow
<1>1. Init => Window
  BY TypeInit, WindowInit DEF Window
<1>2. Window /\ [Next]_vars => Window'
  BY TypeNext, WindowNext DEF Window
<1>3. Window => OncePerWindow
  BY DEF Window
<1> QED
  BY <1>1, <1>2, <1>3, PTL DEF Spec

-----------------------------------------------------------------------------
\* What publishes, and what the answer says of it.  An attempt is over for the handler
\* once it was refused or given up.
Settled(a) == a.st = "refused" \/ a.late

Untried == {"new", "queued", "lookup", "dedup", "build"}

\* How far a request has come, what it has passed on the way and where each of its
\* attempts stands: those before the current one are settled, those after it are not
\* begun.
Story(r) ==
    /\ stage[r] # "answered" => answer[r] = "none"
    /\ stage[r] \in {"dedup", "build", "join", "backoff"} => cmd[r].dev \in known
    /\ stage[r] \in {"build", "join", "backoff"} => admittedIn[r] # NotAdmitted
    /\ stage[r] \in Handling => Accepted(r)
    /\ stage[r] \in {"join", "backoff"} => Builds(cmd[r])
    /\ stage[r] \in Untried =>
         \A k \in Tries : attempt[r][k].st = "none" /\ ~attempt[r][k].late
    /\ \A k \in Tries :
         attempt[r][k].st # "none" => /\ Accepted(r) /\ Builds(cmd[r])
                                     /\ cmd[r].dev \in known
                                     /\ admittedIn[r] # NotAdmitted
                                     /\ answer[r] \notin Refusals
    /\ \A k \in Tries : k > try[r] => attempt[r][k].st = "none" /\ ~attempt[r][k].late
    /\ \A k \in Tries : k < try[r] => Settled(attempt[r][k])
    /\ stage[r] = "join" => ~attempt[r][try[r]].late
    /\ stage[r] = "backoff" => Settled(attempt[r][try[r]])
    /\ answer[r] \in {"failed", "timeout"} => Settled(attempt[r][try[r]])
    /\ (answer[r] = "ok" /\ Builds(cmd[r])) =>
         Published(attempt[r][try[r]]) /\ ~attempt[r][try[r]].late

Stories == \A r \in Requests : Story(r)

LEMMA StoriesInit == Init => Stories
  BY TryFacts, DownlinkAssumption
  DEF Init, Stories, Story, Accepted, Handling, Untried, Settled, NoCommand, Codes, Refusals, Tries

\* The effect of an update of one attempt.
LEMMA AttemptState ==
    ASSUME TypeOK, NEW r \in Requests, NEW k \in Tries, NEW st \in AttemptStates,
           attempt' = [attempt EXCEPT ![r][k].st = st]
    PROVE  /\ attempt'[r][k].st = st
           /\ attempt'[r][k].late = attempt[r][k].late
           /\ \A j \in Tries \ {k} : attempt'[r][j] = attempt[r][j]
           /\ \A s \in Requests \ {r} : attempt'[s] = attempt[s]
<1>1. attempt[r] \in [Tries -> Attempt] /\ attempt[r][k] \in Attempt
  BY DEF TypeOK
<1>2. attempt'[r] = [attempt[r] EXCEPT ![k] = [attempt[r][k] EXCEPT !.st = st]]
  BY <1>1 DEF TypeOK
<1>3. attempt'[r][k] = [attempt[r][k] EXCEPT !.st = st]
  BY <1>1, <1>2
<1> QED
  BY <1>1, <1>2, <1>3 DEF TypeOK, Attempt

LEMMA AttemptGivenUp ==
    ASSUME TypeOK, NEW r \in Requests, NEW k \in Tries,
           attempt' = [attempt EXCEPT ![r][k].late = TRUE]
    PROVE  /\ attempt'[r][k].late
           /\ attempt'[r][k].st = attempt[r][k].st
           /\ \A j \in Tries \ {k} : attempt'[r][j] = attempt[r][j]
           /\ \A s \in Requests \ {r} : attempt'[s] = attempt[s]
<1>1. attempt[r] \in [Tries -> Attempt] /\ attempt[r][k] \in Attempt
  BY DEF TypeOK
<1>2. attempt'[r] = [attempt[r] EXCEPT ![k] = [attempt[r][k] EXCEPT !.late = TRUE]]
  BY <1>1 DEF TypeOK
<1>3. attempt'[r][k] = [attempt[r][k] EXCEPT !.late = TRUE]
  BY <1>1, <1>2
<1> QED
  BY <1>1, <1>2, <1>3 DEF TypeOK, Attempt

\* A request that a step does not touch keeps its story; the registry only grows.
LEMMA Untouched ==
    ASSUME Stories, NEW s \in Requests,
           stage'[s] = stage[s], answer'[s] = answer[s], cmd'[s] = cmd[s],
           attempt'[s] = attempt[s], try'[s] = try[s], admittedIn'[s] = admittedIn[s],
           known \subseteq known'
    PROVE  Story(s)'
<1>1. Story(s)
  BY DEF Stories
<1> QED
  BY <1>1 DEF Story, Accepted, Handling, Settled, Published

\* A step of the handler of r, or of one of its attempts, leaves the others alone.
OnlyConcerns(r) ==
    \A s \in Requests \ {r} :
      /\ stage'[s] = stage[s] /\ answer'[s] = answer[s] /\ cmd'[s] = cmd[s]
      /\ attempt'[s] = attempt[s] /\ try'[s] = try[s] /\ admittedIn'[s] = admittedIn[s]

LEMMA StoryOf ==
    ASSUME Stories, NEW r \in Requests, OnlyConcerns(r), known \subseteq known', Story(r)'
    PROVE  Stories'
<1>1. ASSUME NEW s \in Requests, s # r
      PROVE  Story(s)'
  BY <1>1, Untouched DEF OnlyConcerns
<1> QED
  BY <1>1 DEF Stories

\* The steps that move r on without touching its attempts.
LEMMA StoriesBefore ==
    ASSUME TypeOK, TypeOK', Stories, NEW r \in Requests,
           \/ \E c \in Command : Submit(r, c)
           \/ Receive(r) \/ Lookup(r) \/ CheckAndMark(r) \/ BuildFails(r)
    PROVE  Stories'
<1>0. Story(r) /\ try[r] \in Tries
  BY DEF Stories, TypeOK
<1>1. ASSUME NEW c \in Command, Submit(r, c)
      PROVE  Stories'
  <2>1. Story(r)'
    BY <1>0, <1>1 DEF TypeOK, Story, Accepted, Handling, Submit, GoTo, Untried, bridgeVars, history, Codes,
                      Refusals, Settled, Published
  <2>2. OnlyConcerns(r)
    BY <1>1 DEF TypeOK, OnlyConcerns, Submit, GoTo, history
  <2> QED
    BY <1>1, <2>1, <2>2, StoryOf DEF Submit, bridgeVars
<1>2. ASSUME Receive(r)
      PROVE  Stories'
  <2>1. Story(r)'
    BY <1>0, <1>2 DEF TypeOK, Story, Accepted, Handling, Receive, GoTo, Answer, Untried, bridgeVars, history,
                      Settled, Published
  <2>2. OnlyConcerns(r)
    BY <1>2 DEF TypeOK, OnlyConcerns, Receive, GoTo, Answer, history
  <2> QED
    BY <1>2, <2>1, <2>2, StoryOf DEF Receive, bridgeVars
<1>3. ASSUME Lookup(r)
      PROVE  Stories'
  <2>1. Story(r)'
    BY <1>0, <1>3 DEF TypeOK, Story, Accepted, Handling, Lookup, GoTo, Answer, Untried, bridgeVars, history,
                      Settled, Published
  <2>2. OnlyConcerns(r)
    BY <1>3 DEF TypeOK, OnlyConcerns, Lookup, GoTo, Answer, history
  <2> QED
    BY <1>3, <2>1, <2>2, StoryOf DEF Lookup, bridgeVars
<1>4. ASSUME CheckAndMark(r)
      PROVE  Stories'
  <2>1. cmd[r].id \in Ids
    BY <1>4, CommandOf DEF CheckAndMark
  <2>2. epoch[cmd[r].id] # NotAdmitted
    BY <2>1 DEF TypeOK, NotAdmitted
  <2>3. Story(r)'
    BY <1>0, <1>4, <2>2 DEF TypeOK, Story, Accepted, Handling, CheckAndMark, GoTo, Answer, Untried, Settled,
                            Published
  <2>4. OnlyConcerns(r)
    BY <1>4 DEF TypeOK, OnlyConcerns, CheckAndMark, GoTo, Answer
  <2> QED
    BY <1>4, <2>3, <2>4, StoryOf DEF CheckAndMark
<1>5. ASSUME BuildFails(r)
      PROVE  Stories'
  <2>1. Story(r)'
    BY <1>0, <1>5 DEF TypeOK, Story, Accepted, Handling, BuildFails, Answer, Untried, bridgeVars, history,
                      Settled, Published
  <2>2. OnlyConcerns(r)
    BY <1>5 DEF TypeOK, OnlyConcerns, BuildFails, Answer, history
  <2> QED
    BY <1>5, <2>1, <2>2, StoryOf DEF BuildFails, bridgeVars
<1> QED
  BY <1>1, <1>2, <1>3, <1>4, <1>5

\* The steps that begin an attempt or draw the consequence of one.
LEMMA StoriesDuring ==
    ASSUME TypeOK, TypeOK', RetriesLeft, Stories, NEW r \in Requests,
           StartPublish(r) \/ Join(r) \/ Raise(r) \/ TimeOut(r) \/ Retry(r)
    PROVE  Stories'
<1> USE DEF bridgeVars, history
<1>0. /\ Story(r)
      /\ try[r] \in Tries
      /\ attempt \in [Requests -> [Tries -> Attempt]]
  BY DEF Stories, TypeOK
<1>1. ASSUME NEW k \in Tries, StartAttempt(r, k), UNCHANGED <<bridgeVars, cmd, history>>,
             \/ k = 0 /\ stage[r] = "build" /\ Builds(cmd[r])
             \/ k = try[r] + 1 /\ stage[r] = "backoff"
      PROVE  Stories'
  <2>1. /\ attempt' = [attempt EXCEPT ![r][k].st = "waiting"]
        /\ try' = [try EXCEPT ![r] = k]
        /\ stage' = [stage EXCEPT ![r] = "join"]
        /\ UNCHANGED <<answer, cmd, known, admittedIn>>
    BY <1>1 DEF StartAttempt, GoTo
  <2>2. /\ attempt'[r][k].st = "waiting"
        /\ attempt'[r][k].late = attempt[r][k].late
        /\ \A j \in Tries \ {k} : attempt'[r][j] = attempt[r][j]
        /\ \A s \in Requests \ {r} : attempt'[s] = attempt[s]
    BY <2>1, AttemptState DEF AttemptStates
  <2>3. try'[r] = k /\ stage'[r] = "join"
    BY <2>1 DEF TypeOK
  <2>4. OnlyConcerns(r)
    BY <2>1, <2>2 DEF TypeOK, OnlyConcerns
  <2>5. /\ ~attempt[r][k].late
        /\ \A j \in Tries : j > k => attempt[r][j].st = "none" /\ ~attempt[r][j].late
        /\ \A j \in Tries : j < k => Settled(attempt[r][j])
    <3>1. Tries \subseteq Int
      BY DEF Tries
    <3>2. CASE k = 0 /\ stage[r] = "build"
      BY <1>0, <3>1, <3>2 DEF Story, Accepted, Handling, Untried, Tries
    <3>3. CASE k = try[r] + 1 /\ stage[r] = "backoff"
      <4>1. /\ \A j \in Tries : j > try[r] => attempt[r][j].st = "none" /\ ~attempt[r][j].late
            /\ \A j \in Tries : j < try[r] => Settled(attempt[r][j])
            /\ Settled(attempt[r][try[r]])
        BY <1>0, <3>3 DEF Story
      <4>2. k \in Int /\ try[r] \in Int /\ k = try[r] + 1
        BY <1>0, <1>1, <3>1, <3>3
      <4>3. k > try[r]
        BY <4>2
      <4>4. \A j \in Tries : j > k => j > try[r]
        BY <3>1, <4>2
      <4>5. \A j \in Tries : j < k => j < try[r] \/ j = try[r]
        BY <3>1, <4>2
      <4> QED
        BY <1>1, <4>1, <4>3, <4>4, <4>5
    <3> QED
      BY <1>1, <3>2, <3>3
  <2>6. /\ answer[r] = "none" /\ Accepted(r) /\ Builds(cmd[r]) /\ cmd[r].dev \in known
        /\ admittedIn[r] # NotAdmitted
    BY <1>0, <1>1 DEF Story, Accepted, Handling
  <2>7. Story(r)'
    <3>1. \A j \in Tries : j > k => attempt'[r][j].st = "none" /\ ~attempt'[r][j].late
      BY <2>2, <2>5 DEF Tries
    <3>2. \A j \in Tries : j < k => Settled(attempt'[r][j])
      BY <2>2, <2>5 DEF Tries
    <3> QED
      BY <2>1, <2>2, <2>3, <2>5, <2>6, <3>1, <3>2
      DEF Story, Accepted, Handling, Untried, Codes, Refusals, Settled
  <2> QED
    BY <2>1, <2>4, <2>7, StoryOf
<1>2. ASSUME StartPublish(r)
      PROVE  Stories'
  <2>1. CASE StartAttempt(r, 0)
    BY <1>1, <1>2, <2>1, TryFacts DEF StartPublish
  <2>2. CASE Answer(r, "offline") /\ UNCHANGED <<attempt, try>>
    <3>1. Story(r)'
      BY <1>0, <1>2, <2>2 DEF TypeOK, Story, Accepted, Handling, StartPublish, Answer, Untried, Settled,
                              Published
    <3>2. OnlyConcerns(r)
      BY <1>2, <2>2 DEF TypeOK, OnlyConcerns, StartPublish, Answer
    <3> QED
      BY <1>2, <3>1, <3>2, StoryOf DEF StartPublish
  <2> QED
    BY <1>2, <2>1, <2>2 DEF StartPublish
<1>3. ASSUME Retry(r)
      PROVE  Stories'
  <2>1. try[r] + 1 \in Tries
    BY <1>0, <1>3, TryFacts DEF RetriesLeft, Retry
  <2> QED
    BY <1>1, <1>3, <2>1 DEF Retry
<1>4. ASSUME Join(r)
      PROVE  Stories'
  <2>1. OnlyConcerns(r) /\ UNCHANGED <<known, attempt, try, cmd, admittedIn>>
    BY <1>4 DEF TypeOK, OnlyConcerns, Join, AfterFailure, GoTo, Answer
  <2>2. CASE Published(attempt[r][try[r]]) /\ Answer(r, "ok")
    <3>1. stage'[r] = "answered" /\ answer'[r] = "ok"
      BY <2>2 DEF TypeOK, Answer
    <3>2. stage[r] = "join"
      BY <1>4 DEF Join
    <3>3. Story(r)'
      BY <1>0, <2>1, <2>2, <3>1, <3>2 DEF Story, Accepted, Handling, Untried, Codes, Refusals, Settled, Published
    <3> QED
      BY <2>1, <3>3, StoryOf
  <2>3. CASE attempt[r][try[r]].st = "refused" /\ AfterFailure(r, "failed")
    <3>1. \/ stage'[r] = "answered" /\ answer'[r] = "failed"
          \/ stage'[r] = "backoff" /\ answer'[r] = answer[r]
      BY <2>3 DEF TypeOK, AfterFailure, GoTo, Answer
    <3>2. stage[r] = "join"
      BY <1>4 DEF Join
    <3>3. Story(r)'
      BY <1>0, <2>1, <2>3, <3>1, <3>2 DEF Story, Accepted, Handling, Untried, Codes, Refusals, Settled, Published
    <3> QED
      BY <2>1, <3>3, StoryOf
  <2> QED
    BY <1>4, <2>2, <2>3 DEF Join
<1>6. ASSUME Raise(r)
      PROVE  Stories'
  <2>1. Story(r)'
    BY <1>0, <1>6 DEF TypeOK, Story, Accepted, Handling, Raise, LookupRaises, MarkRaises, JoinRaises,
                      GoTo, Untried, Settled, Published
  <2>2. OnlyConcerns(r)
    BY <1>6 DEF TypeOK, OnlyConcerns, Raise, LookupRaises, MarkRaises, JoinRaises, GoTo
  <2> QED
    BY <1>6, <2>1, <2>2, StoryOf DEF Raise
<1>5. ASSUME TimeOut(r)
      PROVE  Stories'
  <2>1. /\ attempt'[r][try[r]].late
        /\ attempt'[r][try[r]].st = attempt[r][try[r]].st
        /\ \A j \in Tries \ {try[r]} : attempt'[r][j] = attempt[r][j]
        /\ \A s \in Requests \ {r} : attempt'[s] = attempt[s]
    BY <1>0, <1>5, AttemptGivenUp DEF TimeOut
  <2>2. /\ stage[r] = "join"
        /\ UNCHANGED <<known, try, cmd, admittedIn>>
    BY <1>5 DEF TimeOut
  <2>3. OnlyConcerns(r)
    BY <1>5, <2>1 DEF TypeOK, OnlyConcerns, TimeOut, AfterFailure, GoTo, Answer
  <2>4. \/ stage'[r] = "answered" /\ answer'[r] = "timeout"
        \/ stage'[r] = "backoff" /\ answer'[r] = answer[r]
    BY <1>5 DEF TypeOK, TimeOut, AfterFailure, GoTo, Answer
  <2>5. \A k \in Tries : attempt'[r][k].st = attempt[r][k].st
    BY <2>1
  <2>6. Settled(attempt'[r][try[r]])
    BY <2>1 DEF Settled
  <2>7. /\ \A k \in Tries : k > try[r] => attempt'[r][k] = attempt[r][k]
        /\ \A k \in Tries : k < try[r] => attempt'[r][k] = attempt[r][k]
    BY <1>0, <2>1 DEF Tries
  <2>8. Story(r)'
    BY <1>0, <2>2, <2>4, <2>5, <2>6, <2>7 DEF Story, Accepted, Handling, Untried, Codes, Refusals, Settled
  <2> QED
    BY <2>2, <2>3, <2>8, StoryOf
<1> QED
  BY <1>2, <1>3, <1>4, <1>5, <1>6

\* The steps of an attempt, which may outlive the handling of its request.
LEMMA StoriesOfAttempts ==
    ASSUME TypeOK, Stories, NEW r \in Requests, NEW k \in Tries,
           Acquire(r, k) \/ Publish(r, k) \/ PubAck(r, k)
    PROVE  Stories'
<1>1. PICK st \in AttemptStates \ {"none"} :
        /\ attempt' = [attempt EXCEPT ![r][k].st = st]
        /\ attempt[r][k].st = "sent" => st = "acked"
        /\ attempt[r][k].st \in {"waiting", "locked", "sent"}
  BY DEF Acquire, Publish, PubAck, AttemptStates
<1>2. UNCHANGED <<bridgeVars, cmd, stage, answer, try, history>>
  BY DEF Acquire, Publish, PubAck
<1>3. /\ attempt'[r][k].st = st
      /\ attempt'[r][k].late = attempt[r][k].late
      /\ \A j \in Tries \ {k} : attempt'[r][j] = attempt[r][j]
      /\ \A s \in Requests \ {r} : attempt'[s] = attempt[s]
  BY <1>1, AttemptState
<1>4. OnlyConcerns(r)
  BY <1>2, <1>3 DEF OnlyConcerns, history
<1>5. Story(r) /\ try[r] \in Tries
  BY DEF Stories, TypeOK
<1>6. /\ \A j \in Tries : Settled(attempt[r][j]) => Settled(attempt'[r][j])
      /\ \A j \in Tries : attempt'[r][j].late = attempt[r][j].late
      /\ \A j \in Tries : attempt[r][j].st = "none" => attempt'[r][j].st = "none"
      /\ \A j \in Tries : attempt'[r][j].st # "none" => attempt[r][j].st # "none"
      /\ \A j \in Tries : Published(attempt[r][j]) => Published(attempt'[r][j])
  BY <1>1, <1>3 DEF Settled, Published
<1>7. Story(r)'
  BY <1>2, <1>5, <1>6 DEF Story, Accepted, Handling, bridgeVars, history
<1> QED
  BY <1>2, <1>4, <1>7, StoryOf DEF bridgeVars

Inductive == TypeOK /\ RetriesLeft /\ Stories

LEMMA InductiveNext == Inductive /\ [Next]_vars => Inductive'
<1> SUFFICES ASSUME TypeOK, RetriesLeft, Stories, [Next]_vars PROVE Inductive'
  BY DEF Inductive
<1>1. TypeOK' /\ RetriesLeft'
  BY TypeNext
<1>2. ASSUME NEW r \in Requests, (\E c \in Command : Submit(r, c)) \/ Handle(r)
      PROVE  Stories'
  BY <1>1, <1>2, StoriesBefore, StoriesDuring DEF Handle
<1>3. ASSUME NEW r \in Requests, NEW k \in Tries, Acquire(r, k) \/ Publish(r, k) \/ PubAck(r, k)
      PROVE  Stories'
  BY <1>3, StoriesOfAttempts
<1>4. ASSUME NEW x, Register(x) \/ LinkChange(x) \/ Forget(x)
      PROVE  Stories'
  <2>1. UNCHANGED <<requestVars, admittedIn>> /\ known \subseteq known'
    BY <1>4 DEF Register, LinkChange, Forget, requestVars, history
  <2> QED
    BY <2>1, Untouched DEF Stories, requestVars
<1>5. ASSUME UNCHANGED vars PROVE Stories'
  <2>1. UNCHANGED <<requestVars, admittedIn>> /\ known \subseteq known'
    BY <1>5 DEF vars, requestVars
  <2> QED
    BY <2>1, Untouched DEF Stories, requestVars
<1>6. ASSUME Next PROVE Stories'
  BY <1>2, <1>3, <1>4, <1>6 DEF Next
<1> QED
  BY <1>1, <1>5, <1>6 DEF Inductive

LEMMA StoriesImply == Stories /\ TypeOK => OnlyAdmittedPublish /\ AnswerMatchesAttempts
<1> SUFFICES ASSUME Stories, TypeOK, NEW r \in Requests
             PROVE  /\ (\E k \in Tries : attempt[r][k].st # "none") =>
                         /\ Accepted(r) /\ Builds(cmd[r])
                         /\ cmd[r].dev \in known
                         /\ admittedIn[r] # NotAdmitted
                         /\ answer[r] \notin Refusals
                    /\ LET onTime == {k \in Tries : Published(attempt[r][k]) /\ ~attempt[r][k].late}
                       IN /\ Cardinality(onTime) <= 1
                          /\ (answer[r] = "ok" /\ Builds(cmd[r])) => onTime # {}
                          /\ answer[r] \in {"failed", "timeout"} => onTime = {}
  BY DEF OnlyAdmittedPublish, AnswerMatchesAttempts
<1> DEFINE onTime == {k \in Tries : Published(attempt[r][k]) /\ ~attempt[r][k].late}
<1>1. Story(r) /\ try[r] \in Tries
  BY DEF Stories, TypeOK
<1>2. \A k \in Tries : Published(attempt[r][k]) /\ ~attempt[r][k].late => k = try[r]
  BY <1>1 DEF Story, Accepted, Handling, Published, Settled, Tries
<1>3. onTime = {} \/ onTime = {try[r]}
  BY <1>2
<1>4. Cardinality(onTime) <= 1
  <2>1. Cardinality({}) = 0 /\ Cardinality({try[r]}) = 1
    BY FS_EmptySet, FS_Singleton
  <2> HIDE DEF onTime
  <2> QED
    BY <1>3, <2>1
<1>5. (answer[r] = "ok" /\ Builds(cmd[r])) => onTime # {}
  BY <1>1 DEF Story, Accepted, Handling
<1>6. answer[r] \in {"failed", "timeout"} => onTime = {}
  BY <1>1, <1>3 DEF Story, Accepted, Handling, Settled, Published
<1> QED
  BY <1>1, <1>4, <1>5, <1>6 DEF Story, Accepted, Handling

\* A message reaches an MQTT client only for a valid command to a registered device
\* that the cache admitted, and never after a refusal, however long an attempt the
\* handler gave up on keeps running.
THEOREM OnlyAdmitted == Spec => []OnlyAdmittedPublish
<1>1. Init => Inductive
  BY TypeInit, StoriesInit DEF Inductive
<1>2. Inductive => OnlyAdmittedPublish
  BY StoriesImply DEF Inductive
<1> QED
  BY <1>1, <1>2, InductiveNext, PTL DEF Spec

\* For every number of retries: a success is backed by exactly one attempt that ended in
\* time, and a failure or a time-out by none, so a repeated or unreported execution is
\* always an attempt that was given up.
THEOREM AnswersMatch == Spec => []AnswerMatchesAttempts
<1>1. Init => Inductive
  BY TypeInit, StoriesInit DEF Inductive
<1>2. Inductive => AnswerMatchesAttempts
  BY StoriesImply DEF Inductive
<1> QED
  BY <1>1, <1>2, InductiveNext, PTL DEF Spec

\* A device is made to do what a command says at most once per window, and only for a
\* command that was not refused, for any numbers of requests, retries and brokers.
THEOREM ExecutedOnce == Spec => []OneExecution
<1>1. OncePerWindow /\ OnlyAdmittedPublish => OneExecution
  BY DEF OneExecution
<1> QED
  BY <1>1, AdmittedOncePerWindow, OnlyAdmitted, PTL

-----------------------------------------------------------------------------
\* Refusals as duplicate.  What the cache holds was put there by a request that it
\* admitted, and a request asks the cache once.
Originals ==
    /\ \A i \in seen : \E s \in Requests : cmd[s] # NoCommand /\ cmd[s].id = i
                                            /\ admittedIn[s] # NotAdmitted
    /\ \A r \in Requests : stage[r] \in {"new", "queued", "lookup", "dedup"}
                             => admittedIn[r] = NotAdmitted /\ answer[r] = "none"
    /\ DuplicateHasOriginal

\* A step that neither brings a command nor asks the cache.
LEMMA OriginalsElsewhere ==
    ASSUME Originals, UNCHANGED <<cmd, admittedIn>>, seen' \subseteq seen,
           \A s \in Requests :
             /\ stage'[s] \in {"new", "queued", "lookup", "dedup"}
                  => /\ stage[s] \in {"new", "queued", "lookup", "dedup"}
                     /\ answer'[s] = answer[s]
             /\ answer'[s] = "duplicate" => answer[s] = "duplicate"
    PROVE  Originals'
  BY DEF Originals, DuplicateHasOriginal

LEMMA OriginalsNext == TypeOK /\ RetriesLeft /\ Originals /\ [Next]_vars => Originals'
<1> SUFFICES ASSUME TypeOK, RetriesLeft, Originals, [Next]_vars PROVE Originals'
  OBVIOUS
<1> USE DEF bridgeVars, history
<1>1. ASSUME NEW r \in Requests, NEW c \in Command, Submit(r, c) PROVE Originals'
  <2>1. /\ cmd' = [cmd EXCEPT ![r] = c]
        /\ stage' = [stage EXCEPT ![r] = "queued"]
        /\ UNCHANGED <<seen, answer, admittedIn>>
        /\ stage[r] = "new" /\ cmd[r] = NoCommand
    BY <1>1 DEF Submit, GoTo, TypeOK
  <2>2. admittedIn[r] = NotAdmitted /\ answer[r] = "none"
    BY <2>1 DEF Originals
  <2>3. \A s \in Requests \ {r} : cmd'[s] = cmd[s] /\ stage'[s] = stage[s]
    BY <2>1 DEF TypeOK
  <2>4. \A i \in seen' : \E s \in Requests : cmd'[s] # NoCommand /\ cmd'[s].id = i
                                             /\ admittedIn'[s] # NotAdmitted
    BY <2>1, <2>2, <2>3 DEF Originals
  <2>5. DuplicateHasOriginal'
    BY <2>1, <2>2, <2>3 DEF Originals, DuplicateHasOriginal
  <2>6. \A s \in Requests : stage'[s] \in {"new", "queued", "lookup", "dedup"}
                             => admittedIn'[s] = NotAdmitted /\ answer'[s] = "none"
    BY <2>1, <2>2, <2>3 DEF Originals
  <2> QED
    BY <2>4, <2>5, <2>6 DEF Originals
<1>2. ASSUME NEW r \in Requests, CheckAndMark(r) PROVE Originals'
  <2> DEFINE i == cmd[r].id
  <2>1. stage[r] = "dedup" /\ i \in Ids /\ cmd[r] # NoCommand
    BY <1>2, CommandOf DEF CheckAndMark
  <2>2. admittedIn[r] = NotAdmitted /\ answer[r] = "none"
    BY <2>1 DEF Originals
  <2>3. CASE i \in seen
    <3>1. /\ answer' = [answer EXCEPT ![r] = "duplicate"]
          /\ stage' = [stage EXCEPT ![r] = "answered"]
          /\ UNCHANGED <<cmd, seen, admittedIn>>
      BY <1>2, <2>3 DEF CheckAndMark, Answer
    <3>2. \E s \in Requests \ {r} : cmd[s] # NoCommand /\ cmd[s].id = i
                                    /\ admittedIn[s] # NotAdmitted
      BY <2>2, <2>3 DEF Originals
    <3>3. \A s \in Requests \ {r} : answer'[s] = answer[s] /\ stage'[s] = stage[s]
      BY <3>1 DEF TypeOK
    <3>4. DuplicateHasOriginal'
      BY <3>1, <3>2, <3>3 DEF Originals, DuplicateHasOriginal
    <3>5. stage'[r] = "answered"
      BY <3>1 DEF TypeOK
    <3> QED
      BY <3>1, <3>3, <3>4, <3>5 DEF Originals
  <2>4. CASE i \notin seen
    <3>1. /\ seen' = seen \cup {i}
          /\ admittedIn' = [admittedIn EXCEPT ![r] = epoch[i]]
          /\ stage' = [stage EXCEPT ![r] = "build"]
          /\ UNCHANGED <<cmd, answer>>
      BY <1>2, <2>4 DEF CheckAndMark, GoTo
    <3>2. admittedIn'[r] # NotAdmitted /\ stage'[r] = "build"
      BY <2>1, <3>1 DEF TypeOK, NotAdmitted
    <3>3. \A s \in Requests \ {r} : admittedIn'[s] = admittedIn[s] /\ stage'[s] = stage[s]
      BY <3>1 DEF TypeOK
    <3>4. \A s \in Requests : admittedIn[s] # NotAdmitted => admittedIn'[s] # NotAdmitted
      BY <3>2, <3>3
    <3>5. DuplicateHasOriginal'
      BY <3>1, <3>4 DEF Originals, DuplicateHasOriginal
    <3>6. \A j \in seen' : \E s \in Requests : cmd'[s] # NoCommand /\ cmd'[s].id = j
                                               /\ admittedIn'[s] # NotAdmitted
      BY <2>1, <3>1, <3>2, <3>4 DEF Originals
    <3> QED
      BY <3>1, <3>2, <3>3, <3>5, <3>6 DEF Originals
  <2> QED
    BY <2>3, <2>4
<1>3. ASSUME NEW r \in Requests, Handle(r), ~CheckAndMark(r) PROVE Originals'
  <2>1. /\ UNCHANGED <<cmd, seen, admittedIn>>
        /\ \/ /\ \E st \in {"lookup", "dedup", "join", "backoff", "raised"} :
                   stage' = [stage EXCEPT ![r] = st]
                   /\ (st \in {"lookup", "dedup"} => stage[r] \in {"queued", "lookup"})
              /\ answer' = answer
           \/ \E code \in Codes \ {"duplicate"} : Answer(r, code)
    BY <1>3 DEF Handle, Receive, Lookup, BuildFails, StartPublish, Join, Raise, TimeOut, Retry,
                GoTo, StartAttempt, AfterFailure, Answer, Codes, Refusals
  <2>2. \A s \in Requests \ {r} : answer'[s] = answer[s] /\ stage'[s] = stage[s]
    BY <2>1 DEF Answer, TypeOK
  <2>3. /\ stage'[r] \in {"new", "queued", "lookup", "dedup"}
             => stage[r] \in {"new", "queued", "lookup", "dedup"} /\ answer'[r] = answer[r]
        /\ answer'[r] = "duplicate" => answer[r] = "duplicate"
    BY <2>1 DEF Answer, TypeOK
  <2> QED
    BY <2>1, <2>2, <2>3, OriginalsElsewhere
<1>4. ASSUME UNCHANGED <<cmd, stage, answer, admittedIn>>, seen' \subseteq seen
      PROVE  Originals'
  BY <1>4, OriginalsElsewhere
<1>5. ASSUME NEW r \in Requests, NEW k \in Tries, Acquire(r, k) \/ Publish(r, k) \/ PubAck(r, k)
      PROVE  Originals'
  BY <1>4, <1>5 DEF Acquire, Publish, PubAck
<1>6. ASSUME NEW x, Register(x) \/ LinkChange(x) \/ Forget(x) PROVE Originals'
  BY <1>4, <1>6 DEF Register, LinkChange, Forget, requestVars
<1>7. CASE UNCHANGED vars
  BY <1>4, <1>7 DEF vars
<1> QED
  BY <1>1, <1>2, <1>3, <1>5, <1>6, <1>7 DEF Next

\* For every number of requests and retries the answer of the bridge is true: of the
\* attempts made, and when it calls a command a duplicate, of another request admitted.
THEOREM AnswersTrue == Spec => []TrueAnswers
<1>1. Init => TypeOK /\ RetriesLeft /\ Originals
  BY TypeInit DEF Init, Originals, DuplicateHasOriginal
<1>2. TypeOK /\ RetriesLeft /\ Originals /\ [Next]_vars => (TypeOK /\ RetriesLeft /\ Originals)'
  BY TypeNext, OriginalsNext
<1>3. AnswerMatchesAttempts /\ Originals => TrueAnswers
  BY DEF TrueAnswers, Originals
<1> QED
  BY <1>1, <1>2, <1>3, AnswersMatch, PTL DEF Spec

-----------------------------------------------------------------------------
(* The dedup cache.                                                            *)

\* Making room leaves a subset with space for one more entry.
LEMMA RoomyLeavesSpace ==
    ASSUME NEW S, IsFiniteSet(S), Cardinality(S) <= MaxSize,
           NEW kept \in Roomy(S)
    PROVE  /\ kept \subseteq S
           /\ IsFiniteSet(kept)
           /\ Cardinality(kept) + 1 <= MaxSize
<1>0. Cardinality(S) \in Nat /\ MaxSize \in Nat
  BY FS_CardinalityType, DedupAssumption
<1>1. CASE Cardinality(S) >= MaxSize
  <2>1. PICK v \in Oldest(S) : kept = S \ {v}
    BY <1>1 DEF Roomy
  <2>2. v \in S
    BY DEF Oldest
  <2>3. IsFiniteSet(kept) /\ Cardinality(kept) = Cardinality(S) - 1
    BY <2>1, <2>2, FS_RemoveElement
  <2> QED
    BY <1>0, <2>1, <2>3
<1>2. CASE ~(Cardinality(S) >= MaxSize)
  BY <1>0, <1>2 DEF Roomy
<1> QED
  BY <1>1, <1>2

\* Expiry keeps a finite part of the cache.
LEMMA UnexpiredPart ==
    ASSUME CacheTypeOK, NEW now \in Nat
    PROVE  /\ Unexpired(now) \subseteq DOMAIN marks
           /\ IsFiniteSet(Unexpired(now))
           /\ Cardinality(Unexpired(now)) <= MaxSize
<1>1. Unexpired(now) \in SUBSET DOMAIN marks
  BY DEF Unexpired
<1>2. /\ IsFiniteSet(Unexpired(now))
      /\ Cardinality(Unexpired(now)) <= Cardinality(DOMAIN marks)
  BY <1>1, FS_Subset DEF CacheTypeOK
<1>3. /\ Cardinality(Unexpired(now)) \in Nat
      /\ Cardinality(DOMAIN marks) \in Nat
      /\ MaxSize \in Nat
  BY <1>2, FS_CardinalityType, DedupAssumption DEF CacheTypeOK
<1> QED
  BY <1>1, <1>2, <1>3 DEF CacheTypeOK

\* What a call in progress holds.
LEMMA CallFields ==
    ASSUME CacheTypeOK, NEW c \in Callers, call[c].st # "idle"
    PROVE  call[c] \in InCall /\ call[c].id \in CacheIds /\ call[c].now \in Nat
BY DEF CacheTypeOK, Call0, InCall

LEMMA InitTypeOK == CacheInit => CacheTypeOK
<1> SUFFICES ASSUME CacheInit PROVE CacheTypeOK
  OBVIOUS
<1>1. DOMAIN marks = {}
  BY DEF CacheInit
<1>2. IsFiniteSet(DOMAIN marks) /\ Cardinality(DOMAIN marks) <= MaxSize
  BY <1>1, FS_EmptySet, DedupAssumption
<1> QED
  BY <1>1, <1>2 DEF CacheInit, CacheTypeOK, Call0, idle, Never

LEMMA NextTypeOK == CacheTypeOK /\ [CacheNext]_cacheVars => CacheTypeOK'
<1> SUFFICES ASSUME CacheTypeOK, [CacheNext]_cacheVars PROVE CacheTypeOK'
  OBVIOUS
<1> USE DedupAssumption
<1>1. ASSUME NEW c \in Callers, NEW i \in CacheIds, Call(c, i)
      PROVE  CacheTypeOK'
  BY <1>1 DEF CacheTypeOK, Call, Call0, InCall
<1>2. ASSUME NEW c \in Callers, Admit(c)
      PROVE  CacheTypeOK'
  <2> DEFINE i == call[c].id
             now == call[c].now
             live == Unexpired(now)
  <2>1. call[c] \in InCall /\ i \in CacheIds /\ now \in Nat
    BY <1>2, CallFields DEF Admit
  <2>2. PICK kept \in Roomy(live) :
          /\ marks' = [j \in kept \cup {i} |-> IF j = i THEN now ELSE marks[j]]
          /\ promise' = [j \in CacheIds |-> IF j = i THEN now + Ttl
                                       ELSE IF j \in live \ kept THEN Never
                                       ELSE promise[j]]
    BY <1>2 DEF Admit
  <2>3. live \subseteq DOMAIN marks /\ IsFiniteSet(live) /\ Cardinality(live) <= MaxSize
    BY <2>1, UnexpiredPart
  <2>4. kept \subseteq live /\ IsFiniteSet(kept) /\ Cardinality(kept) + 1 <= MaxSize
    <3> HIDE DEF live
    <3> QED BY <2>3, RoomyLeavesSpace
  <2>5. /\ IsFiniteSet(kept \cup {i})
        /\ Cardinality(kept \cup {i}) <= Cardinality(kept) + 1
        /\ Cardinality(kept) \in Nat
    <3> HIDE DEF live, i, now
    <3>1. Cardinality(kept) \in Nat
      BY <2>4, FS_CardinalityType
    <3>2. /\ IsFiniteSet(kept \cup {i})
          /\ Cardinality(kept \cup {i}) =
               IF i \in kept THEN Cardinality(kept) ELSE Cardinality(kept) + 1
      BY <2>4, FS_AddElement
    <3> QED BY <3>1, <3>2
  <2>6. DOMAIN marks' = kept \cup {i}
    BY <2>2
  <2>7. Cardinality(kept \cup {i}) <= MaxSize
    BY <2>4, <2>5, FS_CardinalityType
  <2>8. \A j \in DOMAIN marks' : marks'[j] \in Nat
    <3> HIDE DEF live, i, now
    <3> QED BY <2>1, <2>2, <2>3, <2>4 DEF CacheTypeOK
  <2>9. promise' \in [CacheIds -> Nat \cup {Never}]
    <3> HIDE DEF live, i, now
    <3> QED BY <2>1, <2>2 DEF CacheTypeOK
  <2>10. call' \in [Callers -> Call0 \cup InCall]
    BY <1>2, <2>1 DEF Admit, CacheTypeOK, InCall
  <2>11. DOMAIN marks' \subseteq CacheIds
    BY <2>1, <2>3, <2>4, <2>6 DEF CacheTypeOK
  <2>12. clock' \in Nat
    BY <1>2 DEF Admit, CacheTypeOK
  <2> HIDE DEF live, i, now
  <2> QED
    BY <2>5, <2>6, <2>7, <2>8, <2>9, <2>10, <2>11, <2>12 DEF CacheTypeOK
<1>3. ASSUME NEW c \in Callers, Refuse(c)
      PROVE  CacheTypeOK'
  <2>1. call[c] \in InCall /\ call[c].now \in Nat
    BY <1>3, CallFields DEF Refuse
  <2>2. DOMAIN marks' = Unexpired(call[c].now)
    BY <1>3 DEF Refuse
  <2>3. /\ DOMAIN marks' \subseteq DOMAIN marks
        /\ IsFiniteSet(DOMAIN marks')
        /\ Cardinality(DOMAIN marks') <= MaxSize
    BY <2>1, <2>2, UnexpiredPart
  <2>4. \A j \in DOMAIN marks' : marks'[j] = marks[j]
    BY <1>3, <2>2 DEF Refuse
  <2>5. call' \in [Callers -> Call0 \cup InCall]
    BY <1>3, <2>1 DEF Refuse, CacheTypeOK, InCall
  <2> QED
    BY <1>3, <2>3, <2>4, <2>5 DEF Refuse, CacheTypeOK
<1>4. ASSUME NEW c \in Callers, Return(c)
      PROVE  CacheTypeOK'
  BY <1>4 DEF CacheTypeOK, Return, Call0, idle
<1>5. CASE Clear
  <2>1. DOMAIN marks' = {}
    BY <1>5 DEF Clear
  <2>2. IsFiniteSet(DOMAIN marks') /\ Cardinality(DOMAIN marks') <= MaxSize
    BY <2>1, FS_EmptySet
  <2> QED
    BY <1>5, <2>1, <2>2 DEF Clear, CacheTypeOK
<1>6. CASE Tick
  BY <1>6 DEF Tick, CacheTypeOK
<1>7. CASE UNCHANGED cacheVars
  BY <1>7 DEF cacheVars, CacheTypeOK
<1> QED
  BY <1>1, <1>2, <1>3, <1>4, <1>5, <1>6, <1>7 DEF CacheNext

\* The cache is well formed and never holds more than max_size entries.
THEOREM CacheTypeCorrect == CacheSpec => []CacheTypeOK
BY InitTypeOK, NextTypeOK, PTL DEF CacheSpec

-----------------------------------------------------------------------------
LEMMA InitPromiseKept == CacheInit => PromiseKept
BY DEF CacheInit, PromiseKept, idle, Never

LEMMA NextPromiseKept == CacheTypeOK /\ PromiseKept /\ [CacheNext]_cacheVars => PromiseKept'
<1> SUFFICES ASSUME CacheTypeOK, PromiseKept, [CacheNext]_cacheVars PROVE PromiseKept'
  OBVIOUS
<1> USE DedupAssumption
<1>1. ASSUME NEW c \in Callers, NEW i \in CacheIds, Call(c, i)
      PROVE  PromiseKept'
  <2>1. \A d \in Callers : call'[d].st # "idle" => call'[d].now <= clock'
    BY <1>1 DEF CacheTypeOK, PromiseKept, Call
  <2> QED
    BY <1>1, <2>1 DEF PromiseKept, Call
<1>2. ASSUME NEW c \in Callers, Admit(c)
      PROVE  PromiseKept'
  <2> DEFINE i == call[c].id
             now == call[c].now
             live == Unexpired(now)
  <2>1. i \in CacheIds /\ now \in Nat /\ now <= clock /\ clock \in Nat
    BY <1>2, CallFields DEF Admit, PromiseKept, CacheTypeOK
  <2>2. PICK kept \in Roomy(live) :
          /\ marks' = [j \in kept \cup {i} |-> IF j = i THEN now ELSE marks[j]]
          /\ promise' = [j \in CacheIds |-> IF j = i THEN now + Ttl
                                       ELSE IF j \in live \ kept THEN Never
                                       ELSE promise[j]]
    BY <1>2 DEF Admit
  <2>3. kept \subseteq live /\ live \subseteq DOMAIN marks
    BY DEF Roomy, Unexpired
  <2>4. \A j \in DOMAIN marks \ live : marks[j] + Ttl < now
    BY <2>1 DEF Unexpired, CacheTypeOK
  <2>5. \A d \in Callers : call'[d].st # "idle" => call'[d].now <= clock'
    BY <1>2 DEF Admit, PromiseKept, CacheTypeOK
  <2>6. clock' = clock /\ DOMAIN marks' = kept \cup {i}
    BY <1>2, <2>2 DEF Admit
  <2> HIDE DEF live, i, now
  <2>7. \A j \in DOMAIN marks' : promise'[j] = marks'[j] + Ttl
    BY <2>1, <2>2, <2>3, <2>6 DEF PromiseKept, CacheTypeOK
  <2>8. ASSUME NEW j \in CacheIds \ DOMAIN marks'
        PROVE  promise'[j] < clock'
    <3>1. CASE j \in live
      BY <2>1, <2>2, <2>6, <2>8, <3>1 DEF Never
    <3>2. CASE j \in DOMAIN marks \ live
      <4>1. promise'[j] = promise[j]
        BY <2>2, <2>6, <2>8, <3>2
      <4>2. promise[j] = marks[j] + Ttl /\ marks[j] \in Nat
        BY <3>2 DEF PromiseKept, CacheTypeOK
      <4> QED
        BY <2>1, <2>4, <2>6, <3>2, <4>1, <4>2
    <3>3. CASE j \notin DOMAIN marks
      <4>1. promise'[j] = promise[j]
        BY <2>2, <2>3, <2>6, <2>8, <3>3
      <4> QED
        BY <2>6, <2>8, <3>3, <4>1 DEF PromiseKept
    <3> QED
      BY <3>1, <3>2, <3>3
  <2> QED
    BY <2>5, <2>7, <2>8 DEF PromiseKept
<1>3. ASSUME NEW c \in Callers, Refuse(c)
      PROVE  PromiseKept'
  <2> DEFINE now == call[c].now
             live == Unexpired(now)
  <2>1. now \in Nat /\ now <= clock /\ clock \in Nat
    BY <1>3, CallFields DEF Refuse, PromiseKept, CacheTypeOK
  <2>2. /\ marks' = [j \in live |-> marks[j]]
        /\ promise' = promise /\ clock' = clock
    BY <1>3 DEF Refuse
  <2>3. \A d \in Callers : call'[d].st # "idle" => call'[d].now <= clock'
    BY <1>3 DEF Refuse, PromiseKept, CacheTypeOK
  <2>4. live \subseteq DOMAIN marks /\ \A j \in DOMAIN marks \ live : marks[j] + Ttl < now
    BY <2>1 DEF Unexpired, CacheTypeOK
  <2> HIDE DEF live, now
  <2>5. \A j \in DOMAIN marks' : promise'[j] = marks'[j] + Ttl
    BY <2>2, <2>4 DEF PromiseKept
  <2>6. \A j \in CacheIds \ DOMAIN marks' : promise'[j] < clock'
    BY <2>1, <2>2, <2>4 DEF PromiseKept, CacheTypeOK
  <2> QED
    BY <2>3, <2>5, <2>6 DEF PromiseKept
<1>4. ASSUME NEW c \in Callers, Return(c)
      PROVE  PromiseKept'
  <2>1. \A d \in Callers : call'[d].st # "idle" => call'[d].now <= clock'
    BY <1>4 DEF CacheTypeOK, PromiseKept, Return, idle
  <2> QED
    BY <1>4, <2>1 DEF PromiseKept, Return
<1>5. CASE Clear
  BY <1>5 DEF Clear, PromiseKept, CacheTypeOK, Never
<1>6. CASE Tick
  <2>1. \A d \in Callers : call[d].st # "idle" => call[d].now \in Nat
    BY CallFields
  <2>2. /\ clock \in Nat /\ clock' = clock + 1
        /\ marks' = marks /\ call' = call /\ promise' = promise
    BY <1>6 DEF Tick, CacheTypeOK
  <2>3. \A j \in CacheIds : promise[j] \in Int
    BY DEF CacheTypeOK, Never
  <2> QED
    BY <2>1, <2>2, <2>3 DEF PromiseKept
<1>7. CASE UNCHANGED cacheVars
  BY <1>7 DEF cacheVars, PromiseKept
<1> QED
  BY <1>1, <1>2, <1>3, <1>4, <1>5, <1>6, <1>7 DEF CacheNext

\* Every entry carries the promise of its admission, and a promise without an
\* entry has run out: the invariant the two guarantees below rest on.
THEOREM PromiseInvariant == CacheSpec => []PromiseKept
<1>1. CacheInit => CacheTypeOK /\ PromiseKept
  BY InitTypeOK, InitPromiseKept
<1>2. CacheTypeOK /\ PromiseKept /\ [CacheNext]_cacheVars => (CacheTypeOK /\ PromiseKept)'
  BY NextTypeOK, NextPromiseKept
<1> QED
  BY <1>1, <1>2, PTL DEF CacheSpec

-----------------------------------------------------------------------------
\* Only Admit turns a call into an admitted one, only Refuse into a refused one.
LEMMA WhoAnswers ==
    ASSUME CacheTypeOK, [CacheNext]_cacheVars, NEW c \in Callers, call[c].st = "called"
    PROVE  /\ call'[c].st = "admitted" => Admit(c)
           /\ call'[c].st = "refused" => Refuse(c)
<1>1. ASSUME NEW d \in Callers, NEW i \in CacheIds, Call(d, i)
      PROVE  call'[c] = call[c]
  BY <1>1 DEF Call, CacheTypeOK
<1>2. ASSUME NEW d \in Callers, Admit(d)
      PROVE  IF d = c THEN call'[c].st = "admitted" ELSE call'[c] = call[c]
  <2>1. call[d] \in InCall
    BY <1>2, CallFields DEF Admit
  <2> QED
    BY <1>2, <2>1 DEF Admit, CacheTypeOK, InCall
<1>3. ASSUME NEW d \in Callers, Refuse(d)
      PROVE  IF d = c THEN call'[c].st = "refused" ELSE call'[c] = call[c]
  <2>1. call[d] \in InCall
    BY <1>3, CallFields DEF Refuse
  <2> QED
    BY <1>3, <2>1 DEF Refuse, CacheTypeOK, InCall
<1>4. ASSUME NEW d \in Callers, Return(d)
      PROVE  call'[c] = call[c]
  BY <1>4 DEF Return, CacheTypeOK
<1>5. Clear \/ Tick \/ UNCHANGED cacheVars => call' = call
  BY DEF Clear, Tick, cacheVars
<1> QED
  BY <1>1, <1>2, <1>3, <1>4, <1>5 DEF CacheNext

\* No double execution within the window, for any number of threads and however
\* long a thread is suspended between reading the clock and taking the lock.
THEOREM NoRepeat == CacheSpec => NoRepeatInWindow
<1> DEFINE Step == \A c \in Callers :
                     call[c].st = "called" /\ call'[c].st = "admitted"
                       => promise[call[c].id] < clock
<1>1. CacheTypeOK /\ PromiseKept /\ [CacheNext]_cacheVars => Step
  <2> SUFFICES ASSUME CacheTypeOK, PromiseKept, [CacheNext]_cacheVars,
                      NEW c \in Callers,
                      call[c].st = "called", call'[c].st = "admitted"
               PROVE  promise[call[c].id] < clock
    OBVIOUS
  <2>1. Admit(c)
    BY WhoAnswers
  <2>2. /\ call[c].id \in CacheIds
        /\ call[c].now \in Nat
        /\ call[c].now <= clock
        /\ clock \in Nat
    BY <2>1, CallFields DEF Admit, PromiseKept, CacheTypeOK
  <2>3. call[c].id \notin Unexpired(call[c].now)
    BY <2>1 DEF Admit
  <2>4. CASE call[c].id \in DOMAIN marks
    BY <2>2, <2>3, <2>4, DedupAssumption DEF Unexpired, PromiseKept, CacheTypeOK
  <2>5. CASE call[c].id \notin DOMAIN marks
    BY <2>2, <2>5 DEF PromiseKept
  <2> QED
    BY <2>4, <2>5
<1>2. CacheTypeOK /\ PromiseKept /\ [CacheNext]_cacheVars => [Step]_cacheVars
  BY <1>1
<1> QED
  BY <1>2, CacheTypeCorrect, PromiseInvariant, PTL DEF CacheSpec, NoRepeatInWindow

\* No false duplicate, under the same generality.
THEOREM Refused == CacheSpec => RefusedInWindow
<1> DEFINE Step == \A c \in Callers :
                     call[c].st = "called" /\ call'[c].st = "refused"
                       => promise[call[c].id] >= call[c].now
<1>1. CacheTypeOK /\ PromiseKept /\ [CacheNext]_cacheVars => Step
  <2> SUFFICES ASSUME CacheTypeOK, PromiseKept, [CacheNext]_cacheVars,
                      NEW c \in Callers,
                      call[c].st = "called", call'[c].st = "refused"
               PROVE  promise[call[c].id] >= call[c].now
    OBVIOUS
  <2>1. Refuse(c)
    BY WhoAnswers
  <2>2. call[c].id \in Unexpired(call[c].now) /\ call[c].now \in Nat
    BY <2>1, CallFields DEF Refuse
  <2> QED
    BY <2>2, DedupAssumption DEF Unexpired, PromiseKept, CacheTypeOK
<1>2. CacheTypeOK /\ PromiseKept /\ [CacheNext]_cacheVars => [Step]_cacheVars
  BY <1>1
<1> QED
  BY <1>2, CacheTypeCorrect, PromiseInvariant, PTL DEF CacheSpec, RefusedInWindow

-----------------------------------------------------------------------------
(* The downlink path and its cache.                                            *)

\* Downlink keeps a set of identifiers, from which any may be forgotten at any time and to
\* which CheckAndMark adds one that is not there.  That is how the keys of the cache change:
\* a step drops entries, and admits at most one call, whose identifier it has not kept; a
\* call that it refuses has its identifier among those kept.
ForgetThenMark ==
    \E kept \in SUBSET DOMAIN marks :
      \/ \E c \in Callers :
           /\ call[c].st = "called" /\ call'[c].st = "admitted" /\ call[c].id \notin kept
           /\ DOMAIN marks' = kept \cup {call[c].id}
           /\ \A d \in Callers \ {c} : call'[d] = call[d]
      \/ /\ DOMAIN marks' = kept
         /\ \A c \in Callers :
              /\ ~(call[c].st = "called" /\ call'[c].st = "admitted")
              /\ call[c].st = "called" /\ call'[c].st = "refused" => call[c].id \in kept

LEMMA AdmitMarks ==
    ASSUME CacheTypeOK, NEW c \in Callers, Admit(c)
    PROVE  ForgetThenMark
<1> DEFINE live == Unexpired(call[c].now)
<1>1. call[c] \in InCall /\ call \in [Callers -> Call0 \cup InCall]
  BY CallFields DEF Admit, CacheTypeOK
<1>2. /\ call[c].st = "called" /\ call'[c].st = "admitted"
      /\ \A d \in Callers \ {c} : call'[d] = call[d]
  BY <1>1 DEF Admit, InCall
<1>3. live \subseteq DOMAIN marks /\ call[c].id \notin live
  BY DEF Admit, Unexpired
<1>4. PICK kept \in Roomy(live) : DOMAIN marks' = kept \cup {call[c].id}
  BY DEF Admit
<1>5. kept \subseteq live
  BY <1>4 DEF Roomy
<1> QED
  BY <1>2, <1>3, <1>4, <1>5 DEF ForgetThenMark

LEMMA OthersForget ==
    ASSUME CacheTypeOK, [CacheNext]_cacheVars, \A c \in Callers : ~Admit(c)
    PROVE  ForgetThenMark
<1>1. ASSUME NEW c \in Callers
      PROVE  /\ ~(call[c].st = "called" /\ call'[c].st = "admitted")
             /\ call[c].st = "called" /\ call'[c].st = "refused" => Refuse(c)
  BY <1>1, WhoAnswers
<1>2. CASE \E c \in Callers : Refuse(c)
  <2>1. PICK c \in Callers : Refuse(c)
    BY <1>2
  <2>2. /\ DOMAIN marks' = Unexpired(call[c].now) /\ call[c].id \in Unexpired(call[c].now)
        /\ Unexpired(call[c].now) \subseteq DOMAIN marks
    BY <2>1 DEF Refuse, Unexpired
  <2>3. ASSUME NEW d \in Callers, call[d].st = "called", call'[d].st = "refused"
        PROVE  d = c
    BY <2>1, <2>3 DEF Refuse, CacheTypeOK
  <2> QED
    BY <1>1, <2>2, <2>3 DEF ForgetThenMark
<1>3. CASE ~\E c \in Callers : Refuse(c)
  <2>1. DOMAIN marks' \subseteq DOMAIN marks
    <3>1. marks' = marks \/ Clear
      BY <1>3 DEF CacheNext, Call, Return, Tick, cacheVars
    <3> QED
      BY <3>1 DEF Clear
  <2> QED
    BY <1>1, <1>3, <2>1 DEF ForgetThenMark
<1> QED
  BY <1>2, <1>3

\* The cache does to its identifiers what Downlink takes it to do to its set of them, for
\* any callers, window and capacity (check_and_mark, clear).
THEOREM CacheForgetsThenMarks == CacheSpec => [][ForgetThenMark]_cacheVars
<1>1. CacheTypeOK /\ [CacheNext]_cacheVars => [ForgetThenMark]_cacheVars
  BY AdmitMarks, OthersForget
<1> QED
  BY <1>1, CacheTypeCorrect, PTL DEF CacheSpec
=============================================================================
