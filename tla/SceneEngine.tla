----------------------------- MODULE SceneEngine -----------------------------
(***************************************************************************)
(* The scene engine (src/src/scene_engine/engine.py): rules that turn      *)
(* sensor reports into downlink commands.  Three kinds of threads use it:  *)
(*   - uplink threads call on_uplink for every report; it looks at running *)
(*     first and takes the engine's lock for all the rest;                 *)
(*   - the VSOA server's one thread manages the rules; reload reads the    *)
(*     file before it takes the lock;                                      *)
(*   - a timer thread per timed activation sends the stop commands.        *)
(* A body that runs under the lock is one action.  Errors that change      *)
(* nothing (unknown scene, invalid rule, full or taken) are no steps.      *)
(* Of the stamps of a rule the model keeps whether a copy of it is behind: *)
(* a trigger has come that its last_triggered_at does not show.  The other *)
(* stamps decide nothing and are left out.                                 *)
(*                                                                         *)
(* The model keeps the age of every stamp instead of the clock; ages and   *)
(* the times of a rule do not exceed MaxAge.                               *)
(***************************************************************************)
EXTENDS Integers, Sequences, FiniteSets, Functions

CONSTANTS Scenes,    \* scene identifiers
          Bodies,    \* per scene: the definitions a client may give it
          Devices,   \* devices that report
          Sensors,   \* what they report of
          Tests,     \* comparisons with a threshold
          Targets,   \* devices that actions are sent to
          Threads,   \* uplink threads
          MaxRules,  \* max_rules
          MaxAge,    \* longest time of a rule
          MaxTimers  \* bound of the model: stop timers of a scene at once

\* A condition tests a sensor; from is the set of devices it accepts.
Conditions == [sensor : Sensors, test : Tests, mode : {"level", "edge"},
               hold : 0 .. MaxAge, from : SUBSET Devices]

\* An action is a command or a capture, which only goes into the event.  The command
\* that starts the target, or the one that stops it, may raise: build_mqtt_message for
\* what its board cannot be told, _stop_params for a list or an object as a value.
Actions == [target : Targets, kind : {"command", "capture"}, raises : SUBSET {"start", "stop"}]

SceneAssumption ==
    /\ MaxRules \in Nat
    /\ MaxAge \in Nat
    /\ MaxTimers \in Nat
    /\ \A s \in Scenes : \A b \in Bodies[s] :
         /\ b.conds \in Seq(Conditions) /\ b.conds # << >>
         /\ b.acts \in Seq(Actions) /\ b.acts # << >>
         /\ b.logic \in {"and", "or"}
         /\ b.duration \in 0 .. MaxAge
         /\ b.cooldown \in 0 .. MaxAge
         /\ b.schedule \in {"always", "window", "naive"}

ASSUME SceneAssumption

VARIABLES running,  \* False once stop() was called
          rules,    \* _rules, in insertion order
          disk,     \* the rules in the file
          loaded,   \* what a reload in progress has read from the file, if any
          draft,    \* the rule an update in progress has found, if any
          inside,   \* uplink threads that found the engine running
          edge,     \* _edge_state: scene, device, sensor -> last outcome
          since,    \* _level_since: scene, device, sensor -> age
          last,     \* _last_trigger_monotonic: scene -> age
          timers,   \* per scene: the stop timers, oldest first
          out,      \* the commands published by the last step
          quiet,    \* history: age of the last start command of a scene
          owed,     \* history: <<scene, target>> that a timed activation started and no
                    \* stop command was published to since
          hindered, \* history: those whose stop met a hindrance (Hindered)
          fell,     \* history: <<scene, device, sensor>> with a report that did not meet
                    \* the condition, evaluated since the device last started the scene
                    \* as its one edge rose
          lostSave  \* history: a save failed, and none has succeeded since outside a reload

ruleVars == <<rules, disk, loaded, draft, lostSave>>
memory == <<edge, since, last>>
debts == <<owed, hindered>>
history == <<quiet, debts, fell>>
vars == <<running, ruleVars, inside, memory, timers, out, history>>

NotHeld == -1
Ages == 0 .. MaxAge
Older(age) == IF age < MaxAge THEN age + 1 ELSE age

Rule == UNION {[id : {s}, body : Bodies[s], enabled : BOOLEAN, behind : BOOLEAN] : s \in Scenes}
Ids(rs) == {rs[i].id : i \in DOMAIN rs}
RuleOf(s) == rules[CHOOSE i \in DOMAIN rules : rules[i].id = s]
BodyOf(s) == RuleOf(s).body
NewRule(s, b, on, late) == [id |-> s, body |-> b, enabled |-> on, behind |-> late]
Stamped(r, late) == NewRule(r.id, r.body, r.enabled, late)

\* Copies of rules that do not see the triggers of the scenes S.
Passed(r, S) == Stamped(r, r.behind \/ r.id \in S)
AllPassed(rs, S) == [i \in DOMAIN rs |-> Passed(rs[i], S)]

Init ==
    /\ running = TRUE
    /\ rules = << >> /\ disk = << >>
    /\ loaded = {} /\ draft = {}
    /\ inside = {}
    /\ edge = [s \in Scenes |-> [d \in Devices |-> [x \in Sensors |-> FALSE]]]
    /\ since = [s \in Scenes |-> [d \in Devices |-> [x \in Sensors |-> NotHeld]]]
    /\ last = [s \in Scenes |-> MaxAge]
    /\ timers = [s \in Scenes |-> << >>]
    /\ out = {}
    /\ quiet = [s \in Scenes |-> MaxAge]
    /\ owed = {} /\ hindered = {}
    /\ fell = Scenes \X Devices \X Sensors
    /\ lostSave = FALSE

-----------------------------------------------------------------------------
\* A report comes from a device and meets some of the tests; a sensor it does not carry
\* meets none.
Reports == [dev : Devices, meets : SUBSET (Sensors \X Tests)]
Meets(c, rep) == <<c.sensor, c.test>> \in rep.meets

\* What a condition makes of the memory of its sensor.
Evaluated(m, c, rep) ==
    IF rep.dev \notin c.from THEN m
    ELSE IF c.mode = "edge" THEN [m EXCEPT !.edge[c.sensor] = Meets(c, rep)]
    ELSE IF c.hold = 0 THEN m
    ELSE [m EXCEPT !.since[c.sensor] =
            IF ~Meets(c, rep) THEN NotHeld ELSE IF @ = NotHeld THEN 0 ELSE @]

\* The memory of a rule's scene for the device of the report after k of the conditions:
\* all conditions of the rule on one sensor share an entry.
Memo(r, rep) ==
    LET after[k \in 0 .. Len(r.body.conds)] ==
          IF k = 0
          THEN [edge |-> edge[r.id][rep.dev], since |-> since[r.id][rep.dev]]
          ELSE Evaluated(after[k - 1], r.body.conds[k], rep)
    IN after

\* The outcome of condition k: an edge must rise, a level must have been held.
Outcome(r, rep, k) ==
    LET c == r.body.conds[k]
        m == Memo(r, rep)[k - 1]
    IN /\ rep.dev \in c.from
       /\ Meets(c, rep)
       /\ c.mode = "edge" => ~m.edge[c.sensor]
       /\ (c.mode = "level" /\ c.hold > 0) => m.since[c.sensor] >= c.hold

Matches(r, rep) ==
    IF r.body.logic = "and" THEN \A k \in DOMAIN r.body.conds : Outcome(r, rep, k)
                            ELSE \E k \in DOMAIN r.body.conds : Outcome(r, rep, k)

\* History: the sensors whose edge conditions the report is evaluated for and does not meet.
Fallen(r, rep) ==
    {c.sensor : c \in {d \in Range(r.body.conds) :
                         d.mode = "edge" /\ rep.dev \in d.from /\ ~Meets(d, rep)}}

\* A rule with one condition that has to rise.
OneEdge(b) == Len(b.conds) = 1 /\ b.conds[1].mode = "edge"

CoolingDown(r) == last[r.id] < r.body.cooldown

\* The commands of a list of actions that start or stop (what) the targets, given what
\* each is at the moment: "up", "down" (the publisher refuses) or "unknown" to the
\* registry.  A command that raises ends the list.
Raises(a, what, net) == a.kind = "command" /\ what \in a.raises /\ net[a.target] # "unknown"
Done(acts, what, net) ==
    {k \in DOMAIN acts : \A j \in 1 .. k : ~Raises(acts[j], what, net)}
Breaks(acts, what, net) == Done(acts, what, net) # DOMAIN acts
Commanded(acts, what, net) ==
    {acts[k].target : k \in {j \in Done(acts, what, net) :
                               acts[j].kind = "command" /\ net[acts[j].target] = "up"}}
Captures(acts, net) == \E k \in Done(acts, "start", net) : acts[k].kind = "capture"

\* _save_locked; a save that fails leaves the file as it was.  Bound of the model: none
\* fails while one is lost.
Saved == disk' = rules' /\ lostSave' = (lostSave /\ loaded # {})
SaveFails(file) == ~lostSave /\ disk' = file /\ lostSave' = TRUE
Save(file) == Saved \/ SaveFails(file)

-----------------------------------------------------------------------------
\* on_uplink, before the lock.
Enter(t) ==
    /\ running
    /\ t \notin inside
    /\ inside' = inside \cup {t}
    /\ out' = {}
    /\ UNCHANGED <<running, ruleVars, memory, timers, history>>

\* on_uplink under the lock.  The rules are taken in order, those in closed being out
\* of their schedule; one whose action raises ends the whole call, before its trigger
\* is recorded and before the save, and so does one whose schedule is a date without a
\* time zone.
Uplink(t, rep, net, closed) ==
    LET due == {i \in DOMAIN rules : rules[i].enabled /\ rules[i].id \notin closed}
        undated == {i \in due : rules[i].body.schedule = "naive"}
        ripe == {i \in due : Matches(rules[i], rep) /\ ~CoolingDown(rules[i])}
        broken == {i \in ripe : Breaks(rules[i].body.acts, "start", net)}
        reached == {i \in due : (\A j \in broken : i <= j) /\ (\A j \in undated : i < j)}
        hot == {i \in ripe \cap reached : Commanded(rules[i].body.acts, "start", net) # {}}
        fired == {i \in (ripe \cap reached) \ broken :
                    i \in hot \/ Captures(rules[i].body.acts, net)}
        seen == {rules[i].id : i \in reached}
        started == {rules[i].id : i \in hot}
        triggered == {rules[i].id : i \in fired}
        timed == {rules[i].id : i \in {j \in fired : rules[j].body.duration > 0}}
        passed == AllPassed(disk, triggered)
        lent == UNION {{<<s, m>> : m \in Commanded(BodyOf(s).acts, "start", net)} : s \in timed}
        memo(s) == Memo(RuleOf(s), rep)[Len(BodyOf(s).conds)]
    IN /\ t \in inside
       /\ \A s \in timed : Len(timers[s]) < MaxTimers
       /\ inside' = inside \ {t}
       /\ edge' = [s \in Scenes |-> IF s \in seen
                                    THEN [edge[s] EXCEPT ![rep.dev] = memo(s).edge]
                                    ELSE edge[s]]
       /\ since' = [s \in Scenes |-> IF s \in seen
                                     THEN [since[s] EXCEPT ![rep.dev] = memo(s).since]
                                     ELSE since[s]]
       /\ last' = [s \in Scenes |-> IF s \in triggered THEN 0 ELSE last[s]]
       /\ timers' = [s \in Scenes |->
                       IF s \in timed
                       THEN Append(timers[s], [left |-> BodyOf(s).duration, woken |-> FALSE])
                       ELSE timers[s]]
       /\ rules' = [i \in DOMAIN rules |->
                      Stamped(rules[i], rules[i].behind /\ rules[i].id \notin triggered)]
       /\ loaded' = {AllPassed(rs, triggered) : rs \in loaded}
       /\ draft' = {Passed(r, triggered) : r \in draft}
       /\ IF fired # {} /\ broken \cup undated = {}
          THEN Save(passed)
          ELSE disk' = passed /\ UNCHANGED lostSave
       /\ out' = {<<s, "start">> : s \in started}
       /\ quiet' = [s \in Scenes |-> IF s \in started THEN 0 ELSE quiet[s]]
       /\ owed' = owed \cup lent
       /\ hindered' = hindered \ lent
       /\ fell' = (fell \ {<<s, rep.dev, BodyOf(s).conds[1].sensor>> :
                             s \in {x \in started : OneEdge(BodyOf(x))}})
                  \cup UNION {{<<s, rep.dev, x>> : x \in Fallen(RuleOf(s), rep)} : s \in seen}
       /\ UNCHANGED running

-----------------------------------------------------------------------------
\* The timer of a stop runs out; from here on cancelling it has no effect.
Wake(s, k) ==
    /\ k \in DOMAIN timers[s]
    /\ timers[s][k].left = 0
    /\ ~timers[s][k].woken
    /\ timers' = [timers EXCEPT ![s][k].woken = TRUE]
    /\ out' = {}
    /\ UNCHANGED <<running, ruleVars, inside, memory, history>>

\* What keeps the callback of scene s from stopping a target: the rule is gone, its actions
\* name the target no more, the target cannot be reached, or one of its actions raises.
Hindered(s, m, net) ==
    \/ s \notin Ids(rules)
    \/ \A k \in DOMAIN BodyOf(s).acts :
         BodyOf(s).acts[k].kind # "command" \/ BodyOf(s).acts[k].target # m
    \/ net[m] # "up"
    \/ \E k \in DOMAIN BodyOf(s).acts : Raises(BodyOf(s).acts[k], "stop", net)

\* The timer's callback under the lock: stop commands for the actions the rule has
\* now, if there still is a rule.
StopActions(s, k, net) ==
    LET stopped == IF s \in Ids(rules) THEN Commanded(BodyOf(s).acts, "stop", net) ELSE {}
    IN /\ k \in DOMAIN timers[s]
       /\ timers[s][k].woken
       /\ timers' = [timers EXCEPT ![s] = [i \in 1 .. Len(@) - 1 |-> @[IF i < k THEN i ELSE i + 1]]]
       /\ out' = IF stopped # {} THEN {<<s, "stop">>} ELSE {}
       /\ owed' = {p \in owed : p[1] = s => p[2] \notin stopped}
       /\ hindered' = {p \in owed' : p \in hindered \/ (p[1] = s /\ Hindered(s, p[2], net))}
       /\ UNCHANGED <<running, ruleVars, inside, memory, quiet, fell>>

-----------------------------------------------------------------------------
\* The one thread of the server is in none of the two operations that let go of the lock.
ManagerFree == loaded = {} /\ draft = {}

\* Rules rs saved and in use, everything else as it is.
Manages(rs) ==
    /\ rules' = rs
    /\ Save(disk)
    /\ out' = {}
    /\ UNCHANGED <<running, loaded, inside, memory, timers, history>>

AddOverfull(s, b, on) ==   \* a slip: > written for >=
    /\ ManagerFree
    /\ s \notin Ids(rules)
    /\ Len(rules) <= MaxRules
    /\ Manages(Append(rules, NewRule(s, b, on, FALSE)))
    /\ UNCHANGED draft

\* add_rule.  A failed save is reported, but the rule stays.
Add(s, b, on) ==
    /\ ManagerFree
    /\ s \notin Ids(rules)
    /\ Len(rules) < MaxRules
    /\ Manages(Append(rules, NewRule(s, b, on, FALSE)))
    /\ UNCHANGED draft

\* The rules with r in the place of the rule of its scene.
Replaced(r) == [i \in DOMAIN rules |-> IF rules[i].id = r.id THEN r ELSE rules[i]]

\* set_enabled changes the rule itself.
SetEnabled(s, on) ==
    /\ ManagerFree
    /\ s \in Ids(rules)
    /\ Manages(Replaced(NewRule(s, BodyOf(s), on, RuleOf(s).behind)))
    /\ UNCHANGED draft

\* update_rule makes a new rule from the old one without the lock: a trigger that comes
\* in between is not in it.
UpdateRead(s) ==
    /\ ManagerFree
    /\ s \in Ids(rules)
    /\ draft' = {RuleOf(s)}
    /\ out' = {}
    /\ UNCHANGED <<running, rules, disk, loaded, lostSave, inside, memory, timers, history>>

UpdateCancels(b, on) ==   \* a slip: the timers of the old rule dropped
    /\ \E r \in draft :
         /\ b \in Bodies[r.id]
         /\ rules' = Replaced(NewRule(r.id, b, on, r.behind))
         /\ timers' = [timers EXCEPT ![r.id] = << >>]
    /\ Save(disk)
    /\ draft' = {} /\ out' = {}
    /\ UNCHANGED <<running, loaded, inside, memory, history>>

\* The rule is replaced where it stands; what the engine remembers of the scene (edges,
\* holds, cooldown, timers) is not touched.
UpdateSet(b, on) ==
    /\ \E r \in draft : b \in Bodies[r.id] /\ Manages(Replaced(NewRule(r.id, b, on, r.behind)))
    /\ draft' = {}

\* The rules without that of scene s.
Dropped(s) ==
    LET k == CHOOSE i \in DOMAIN rules : rules[i].id = s
    IN [i \in 1 .. Len(rules) - 1 |-> rules[IF i < k THEN i ELSE i + 1]]

RemoveUnsaved(s) ==   \* a slip: the save forgotten
    /\ ManagerFree
    /\ s \in Ids(rules)
    /\ rules' = Dropped(s)
    /\ out' = {}
    /\ UNCHANGED <<running, disk, lostSave, loaded, draft, inside, memory, timers, history>>

RemoveForgetsTrigger(s) ==   \* a slip: the cooldown removed with the rule
    /\ ManagerFree
    /\ s \in Ids(rules)
    /\ rules' = Dropped(s)
    /\ last' = [last EXCEPT ![s] = MaxAge]
    /\ Save(disk)
    /\ out' = {}
    /\ UNCHANGED <<running, loaded, draft, inside, edge, since, timers, history>>

\* remove_rule.
Remove(s) ==
    /\ ManagerFree
    /\ s \in Ids(rules)
    /\ Manages(Dropped(s))
    /\ UNCHANGED draft

\* reload: the file is read without the lock, which the rules are replaced under.  A
\* trigger saved in between is undone in memory.
ReloadRead ==
    /\ ManagerFree
    /\ loaded' = {disk}
    /\ out' = {}
    /\ UNCHANGED <<running, rules, disk, draft, lostSave, inside, memory, timers, history>>

ReloadSet ==
    /\ \E rs \in loaded : rules' = rs
    /\ loaded' = {}
    /\ out' = {}
    /\ UNCHANGED <<running, disk, draft, lostSave, inside, memory, timers, history>>

\* The stop timers of scene s that have run out, in order.
Woken(s) ==
    LET kept[k \in 0 .. Len(timers[s])] ==
          IF k = 0 THEN << >>
          ELSE IF timers[s][k].woken THEN Append(kept[k - 1], timers[s][k]) ELSE kept[k - 1]
    IN kept[Len(timers[s])]

\* stop(): the timers not yet run out are cancelled.
Stop ==
    /\ running
    /\ running' = FALSE
    /\ timers' = [s \in Scenes |-> Woken(s)]
    /\ out' = {}
    /\ UNCHANGED <<ruleVars, inside, memory, history>>

Tick ==
    /\ since' = [s \in Scenes |-> [d \in Devices |-> [x \in Sensors |->
                   IF since[s][d][x] = NotHeld THEN NotHeld ELSE Older(since[s][d][x])]]]
    /\ last' = [s \in Scenes |-> Older(last[s])]
    /\ timers' = [s \in Scenes |-> [k \in DOMAIN timers[s] |->
                    [timers[s][k] EXCEPT !.left = IF @ = 0 THEN 0 ELSE @ - 1]]]
    /\ quiet' = [s \in Scenes |-> Older(quiet[s])]
    /\ out' = {}
    /\ UNCHANGED <<running, ruleVars, inside, edge, debts, fell>>

Nets == [Targets -> {"up", "down", "unknown"}]
Scheduled == {rules[i].id : i \in {j \in DOMAIN rules : rules[j].body.schedule # "always"}}

Manage ==
    \/ \E s \in Scenes, on \in BOOLEAN :
         \/ SetEnabled(s, on)
         \/ \E b \in Bodies[s] : Add(s, b, on) \/ UpdateSet(b, on)
    \/ \E s \in Scenes : UpdateRead(s) \/ Remove(s)
    \/ ReloadRead
    \/ ReloadSet

Next ==
    \/ \E t \in Threads :
         \/ Enter(t)
         \/ \E rep \in Reports, net \in Nets :
              \E closed \in SUBSET Scheduled : Uplink(t, rep, net, closed)
    \/ \E s \in Scenes, k \in 1 .. MaxTimers :
         Wake(s, k) \/ \E net \in Nets : StopActions(s, k, net)
    \/ Manage
    \/ Stop
    \/ Tick

Spec == Init /\ [][Next]_vars

\* Time passes, and the timer threads run when they can.
FairSpec ==
    /\ Spec
    /\ WF_vars(Tick)
    /\ \A s \in Scenes :
         /\ WF_vars(\E k \in 1 .. MaxTimers : Wake(s, k))
         /\ WF_vars(\E k \in 1 .. MaxTimers, net \in Nets : StopActions(s, k, net))

-----------------------------------------------------------------------------
\* Types; no more rules than max_rules and one per scene, in memory and in the file.
TypeOK ==
    /\ running \in BOOLEAN
    /\ \A rs \in {rules, disk} \cup loaded :
         /\ rs \in Seq(Rule)
         /\ Len(rs) <= MaxRules
         /\ \A i, j \in DOMAIN rs : rs[i].id = rs[j].id => i = j
    /\ draft \subseteq Rule
    /\ inside \subseteq Threads
    /\ edge \in [Scenes -> [Devices -> [Sensors -> BOOLEAN]]]
    /\ since \in [Scenes -> [Devices -> [Sensors -> Ages \cup {NotHeld}]]]
    /\ last \in [Scenes -> Ages]
    /\ timers \in [Scenes -> Seq([left : Ages, woken : BOOLEAN])]
    /\ \A s \in Scenes : Len(timers[s]) <= MaxTimers
    /\ out \subseteq Scenes \X {"start", "stop"}
    /\ quiet \in [Scenes -> Ages]
    /\ hindered \subseteq owed /\ owed \subseteq Scenes \X Targets
    /\ fell \subseteq Scenes \X Devices \X Sensors
    /\ lostSave \in BOOLEAN

\* What the rules say, without the stamp.
Definitions(rs) ==
    [i \in DOMAIN rs |-> [id |-> rs[i].id, body |-> rs[i].body, enabled |-> rs[i].enabled]]

\* The file says what the rules in use say, whatever management, reloads and triggers
\* happen at the same time, but after a failed save: from then until a save succeeds
\* while no reload is under way, and with it the rules the reload will put back.  The
\* stamp of the last trigger is not part of this: a reload that overtakes the save of a
\* trigger, and an action that raises behind one, leave two stamps.
RulesOnDisk == ~lostSave => Definitions(disk) = Definitions(rules)

\* The actions of a scene never raise as it starts.
Buildable(s) ==
    \A b \in Bodies[s] : \A k \in DOMAIN b.acts :
      ~(b.acts[k].kind = "command" /\ "start" \in b.acts[k].raises)

\* A scene whose actions can always be built starts its devices at most once per cooldown,
\* although its rule may be changed, removed and added again, or reloaded in between.
CooldownKept ==
    [][\A s \in Scenes :
         (<<s, "start">> \in out' /\ Buildable(s))
           => quiet[s] >= BodyOf(s).cooldown]_vars

\* A scene that waits for a rising edge starts again only after a report of the device
\* was evaluated that did not meet the condition, whatever happens to the rule.
EdgeRises ==
    [][\A s \in Scenes :
         (<<s, "start">> \in out' /\ OneEdge(BodyOf(s)))
           => \E d \in Devices : <<s, d, BodyOf(s).conds[1].sensor>> \in fell \ fell']_vars

\* A scene never starts its devices for what it has reacted to already: its memory of the
\* last trigger and of the conditions survives management of the rule (on_uplink, _matches).
StartsOnce == CooldownKept /\ EdgeRises

\* To every device that a timed activation started a stop command is published, unless the
\* engine is stopped or the callback of a stop timer met a hindrance: the rule was removed,
\* its actions name the device no more, the device could not be reached, or an action
\* raised.  A rule disabled, replaced or reloaded in between, and a timer that another
\* activation started, are none.  (An activation that raises half-way sets no timer.)
ActivationEnds ==
    \A p \in Scenes \X Targets : p \in owed ~> (p \notin owed \/ p \in hindered \/ ~running)

\* After stop() the engine comes to rest: no timer is left to send commands.
QuietAfterStop == <>[](~running) => <>[](\A s \in Scenes : timers[s] = << >>)

\* The stop timers do all they are for and no more (_stop_later, stop).
TimersEnd == ActivationEnds /\ QuietAfterStop

=============================================================================
