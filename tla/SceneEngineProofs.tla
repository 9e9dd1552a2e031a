-------------------------- MODULE SceneEngineProofs --------------------------
(***************************************************************************)
(* Proofs about the scene engine: the file agrees with the rules until a   *)
(* save fails, and a scene starts at most once per cooldown.               *)
(***************************************************************************)
EXTENDS SceneEngine, SequenceTheorems, WellFoundedInduction, TLAPS

\* What a reload in progress has read says what the engine works with: every operation that
\* changes the definitions waits for the one thread the reload runs on.
DiskInv ==
    /\ lostSave \in BOOLEAN
    /\ loaded = {} \/ draft = {}
    /\ ~lostSave => \A rs \in {disk} \cup loaded : Definitions(rs) = Definitions(rules)

\* A trigger changes stamps only (on_uplink).
LEMMA PassedOnly ==
    ASSUME NEW rs, NEW S
    PROVE  Definitions(AllPassed(rs, S)) = Definitions(rs)
  BY DEF AllPassed, Passed, Definitions, Stamped, NewRule

\* The file and a reload in progress hold the definitions of the engine's rules as long as
\* no save is lost, in every state (reload, _save_locked).
THEOREM DiskInvariant == Spec => []DiskInv
<1>1. Init => DiskInv
  BY DEF Init, DiskInv
<1>2. DiskInv /\ [Next]_vars => DiskInv'
  <2> SUFFICES ASSUME DiskInv, [Next]_vars PROVE DiskInv'
    OBVIOUS
  <2> USE DEF DiskInv
  <2>1. ASSUME NEW rs, Manages(rs), loaded = {} PROVE DiskInv'
    BY <2>1 DEF Manages, Save, Saved, SaveFails
  <2>2. ASSUME NEW t \in Threads, Enter(t) PROVE DiskInv'
    BY <2>2 DEF Enter, ruleVars
  <2>3. ASSUME NEW t \in Threads, NEW rep \in Reports, NEW net \in Nets,
               NEW closed \in SUBSET Scheduled, Uplink(t, rep, net, closed)
        PROVE DiskInv'
    <3>1. PICK S :
            /\ rules' = [i \in DOMAIN rules |->
                           Stamped(rules[i], rules[i].behind /\ rules[i].id \notin S)]
            /\ loaded' = {AllPassed(rs, S) : rs \in loaded}
            /\ draft' = {Passed(r, S) : r \in draft}
            /\ \/ Save(AllPassed(disk, S))
               \/ disk' = AllPassed(disk, S) /\ UNCHANGED lostSave
      BY <2>3, Zenon DEF Uplink
    <3>2. Definitions(rules') = Definitions(rules)
      BY <3>1 DEF Definitions, Stamped, NewRule
    <3>3. \A rs : Definitions(AllPassed(rs, S)) = Definitions(rs)
      BY PassedOnly
    <3>4. lostSave' \in BOOLEAN /\ (lostSave' \/ ~lostSave \/ (loaded = {} /\ disk' = rules'))
      BY <3>1 DEF Save, Saved, SaveFails
    <3>5. disk' = rules' \/ disk' = AllPassed(disk, S)
      BY <3>1 DEF Save, Saved, SaveFails
    <3>6. loaded' = {} \/ draft' = {}
      BY <3>1
    <3>7. ASSUME ~lostSave', NEW rs \in {disk'} \cup loaded'
          PROVE  Definitions(rs) = Definitions(rules')
      <4>1. CASE lostSave
        BY <3>1, <3>4, <3>7, <4>1
      <4>2. CASE ~lostSave /\ rs = disk'
        BY <3>2, <3>3, <3>5, <4>2
      <4>3. CASE ~lostSave /\ rs \in loaded'
        BY <3>1, <3>2, <3>3, <4>3
      <4> QED
        BY <3>7, <4>1, <4>2, <4>3
    <3> QED
      BY <3>4, <3>6, <3>7
  <2>4. ASSUME NEW s \in Scenes, NEW k \in 1 .. MaxTimers,
               Wake(s, k) \/ \E net \in Nets : StopActions(s, k, net)
        PROVE DiskInv'
    BY <2>4 DEF Wake, StopActions, ruleVars
  <2>5. ASSUME NEW s \in Scenes, NEW on \in BOOLEAN,
               SetEnabled(s, on) \/ Remove(s) \/ \E b \in Bodies[s] : Add(s, b, on)
        PROVE DiskInv'
    BY <2>1, <2>5 DEF SetEnabled, Remove, Add, ManagerFree
  <2>6. ASSUME NEW s \in Scenes, NEW on \in BOOLEAN, NEW b \in Bodies[s], UpdateSet(b, on)
        PROVE DiskInv'
    BY <2>1, <2>6 DEF UpdateSet
  <2>7. ASSUME NEW s \in Scenes, UpdateRead(s) PROVE DiskInv'
    BY <2>7 DEF UpdateRead, ManagerFree
  <2>8. CASE ReloadRead \/ ReloadSet
    BY <2>8 DEF ReloadRead, ReloadSet, ManagerFree
  <2>9. CASE Stop \/ Tick
    BY <2>9 DEF Stop, Tick, ruleVars
  <2>10. CASE UNCHANGED vars
    BY <2>10 DEF vars, ruleVars
  <2>11. CASE Manage
    BY <2>5, <2>6, <2>7, <2>8, <2>11 DEF Manage
  <2> QED
    BY <2>2, <2>3, <2>4, <2>9, <2>10, <2>11 DEF Next
<1> QED
  BY <1>1, <1>2, PTL DEF Spec

\* The file holds the definitions of the engine's rules unless a save is lost, whatever is
\* triggered, managed and reloaded at once (on_uplink, reload, _save_locked).
THEOREM RulesKept == Spec => []RulesOnDisk
<1>1. DiskInv => RulesOnDisk
  BY DEF DiskInv, RulesOnDisk
<1> QED
  BY <1>1, DiskInvariant, PTL

-----------------------------------------------------------------------------
\* A list of rules: one rule per scene, with a body the scene may have.
RuleList(rs) ==
    /\ rs \in Seq(Rule)
    /\ \A i, j \in DOMAIN rs : rs[i].id = rs[j].id => i = j

\* The stamp of the last trigger is at least as young as the last start command: the
\* cooldown the engine sees is the one the devices have.
CooldownInv ==
    /\ RuleList(rules)
    /\ RuleList(disk)
    /\ \A rs \in loaded : RuleList(rs)
    /\ draft \subseteq Rule
    /\ last \in [Scenes -> Ages]
    /\ quiet \in [Scenes -> Ages]
    /\ \A s \in Scenes : Buildable(s) => last[s] <= quiet[s]

\* What a member of Rule is.
LEMMA RuleParts ==
    /\ \A r \in Rule : /\ r.id \in Scenes /\ r.body \in Bodies[r.id] /\ r.enabled \in BOOLEAN
                       /\ r.behind \in BOOLEAN
    /\ \A s \in Scenes : \A b \in Bodies[s], on \in BOOLEAN, late \in BOOLEAN :
         NewRule(s, b, on, late) \in Rule /\ NewRule(s, b, on, late).id = s
  BY DEF Rule, NewRule

\* A stamp leaves one rule per scene.
LEMMA StampsStay ==
    ASSUME NEW rs, RuleList(rs), NEW same, DOMAIN same = DOMAIN rs,
           \A i \in DOMAIN rs : \E late \in BOOLEAN : same[i] = Stamped(rs[i], late),
           same = [i \in DOMAIN rs |-> same[i]]
    PROVE  RuleList(same) /\ Len(same) = Len(rs)
<1>1. rs \in Seq(Rule) /\ DOMAIN rs = 1 .. Len(rs) /\ Len(rs) \in Nat
  BY DEF RuleList
<1>2. \A i \in DOMAIN rs : same[i] \in Rule /\ same[i].id = rs[i].id
  <2> TAKE i \in DOMAIN rs
  <2>1. rs[i] \in Rule
    BY <1>1
  <2>2. PICK late \in BOOLEAN : same[i] = NewRule(rs[i].id, rs[i].body, rs[i].enabled, late)
    BY DEF Stamped
  <2>3. /\ rs[i].id \in Scenes /\ rs[i].body \in Bodies[rs[i].id]
        /\ rs[i].enabled \in BOOLEAN
    BY <2>1, RuleParts
  <2>4. /\ NewRule(rs[i].id, rs[i].body, rs[i].enabled, late) \in Rule
        /\ NewRule(rs[i].id, rs[i].body, rs[i].enabled, late).id = rs[i].id
    <3> DEFINE x == rs[i].id  b == rs[i].body  on == rs[i].enabled
    <3>1. x \in Scenes /\ b \in Bodies[x] /\ on \in BOOLEAN
      BY <2>3
    <3> HIDE DEF x, b, on
    <3>2. NewRule(x, b, on, late) \in Rule /\ NewRule(x, b, on, late).id = x
      BY <3>1, RuleParts
    <3> QED
      BY <3>2 DEF x, b, on
  <2> QED
    BY <2>2, <2>4
<1>3. same \in Seq(Rule) /\ Len(same) = Len(rs)
  BY <1>1, <1>2
<1>4. \A i, j \in DOMAIN same : same[i].id = same[j].id => i = j
  BY <1>2 DEF RuleList
<1> QED
  BY <1>3, <1>4 DEF RuleList

LEMMA PassedStay ==
    ASSUME NEW rs, RuleList(rs), NEW S
    PROVE  RuleList(AllPassed(rs, S)) /\ Len(AllPassed(rs, S)) = Len(rs)
<1> DEFINE same == AllPassed(rs, S)
<1>1. DOMAIN same = DOMAIN rs /\ same = [i \in DOMAIN rs |-> same[i]]
  BY DEF AllPassed
<1>2. ASSUME NEW i \in DOMAIN rs PROVE \E late \in BOOLEAN : same[i] = Stamped(rs[i], late)
  <2>1. rs[i] \in Rule
    BY DEF RuleList
  <2>2. (rs[i].behind \/ rs[i].id \in S) \in BOOLEAN
    OBVIOUS
  <2>3. same[i] = Stamped(rs[i], rs[i].behind \/ rs[i].id \in S)
    BY DEF AllPassed, Passed
  <2> QED
    BY <2>2, <2>3
<1> HIDE DEF same
<1>3. RuleList(same) /\ Len(same) = Len(rs)
  BY <1>1, <1>2, StampsStay
<1> QED
  BY <1>3 DEF same

\* What the evaluation of a report makes of the rules and their copies (on_uplink).
LEMMA UplinkLists ==
    ASSUME RuleList(rules), RuleList(disk), \A rs \in loaded : RuleList(rs), draft \subseteq Rule,
           NEW t \in Threads, NEW rep \in Reports, NEW net \in Nets,
           NEW closed \in SUBSET Scheduled, Uplink(t, rep, net, closed)
    PROVE  /\ RuleList(rules') /\ Len(rules') = Len(rules)
           /\ RuleList(disk') /\ Len(disk') \in {Len(rules), Len(disk)}
           /\ \A rs \in loaded' : RuleList(rs) /\ \E old \in loaded : Len(rs) = Len(old)
           /\ draft' \subseteq Rule
<1>1. PICK S :
        /\ rules' = [i \in DOMAIN rules |->
                       Stamped(rules[i], rules[i].behind /\ rules[i].id \notin S)]
        /\ loaded' = {AllPassed(rs, S) : rs \in loaded}
        /\ draft' = {Passed(r, S) : r \in draft}
        /\ \/ Save(AllPassed(disk, S))
           \/ disk' = AllPassed(disk, S) /\ UNCHANGED lostSave
  BY Zenon DEF Uplink
<1>2. RuleList(rules') /\ Len(rules') = Len(rules)
  <2> DEFINE same == [i \in DOMAIN rules |->
                        Stamped(rules[i], rules[i].behind /\ rules[i].id \notin S)]
  <2>1. DOMAIN same = DOMAIN rules /\ same = [i \in DOMAIN rules |-> same[i]]
    OBVIOUS
  <2>2. ASSUME NEW i \in DOMAIN rules PROVE \E late \in BOOLEAN : same[i] = Stamped(rules[i], late)
    <3>1. (rules[i].behind /\ rules[i].id \notin S) \in BOOLEAN
      OBVIOUS
    <3> QED
      BY <3>1
  <2> HIDE DEF same
  <2>3. RuleList(same) /\ Len(same) = Len(rules)
    BY <2>1, <2>2, StampsStay
  <2> QED
    BY <1>1, <2>3 DEF same
<1>3. \A rs \in loaded \cup {disk} : RuleList(AllPassed(rs, S)) /\ Len(AllPassed(rs, S)) = Len(rs)
  BY PassedStay
<1>4. disk' = rules' \/ disk' = AllPassed(disk, S)
  BY <1>1 DEF Save, Saved, SaveFails
<1>5. \A r \in Rule : Passed(r, S) \in Rule
  <2> TAKE r \in Rule
  <2>1. (r.behind \/ r.id \in S) \in BOOLEAN
    OBVIOUS
  <2> QED
    BY <2>1, RuleParts DEF Passed, Stamped
<1> QED
  BY <1>1, <1>2, <1>3, <1>4, <1>5

\* The rule of a scene is the one at its place in the list (get_rule).
LEMMA RuleAt ==
    ASSUME RuleList(rules), NEW i \in DOMAIN rules
    PROVE  RuleOf(rules[i].id) = rules[i]
<1> DEFINE k == CHOOSE j \in DOMAIN rules : rules[j].id = rules[i].id
<1>1. k \in DOMAIN rules /\ rules[k].id = rules[i].id
  OBVIOUS
<1>2. k = i
  BY <1>1 DEF RuleList
<1> QED
  BY <1>2 DEF RuleOf

\* Adding, replacing and removing leave one rule per scene (add_rule, update_rule,
\* remove_rule).
LEMMA RulesStay ==
    ASSUME RuleList(rules), NEW new \in Rule
    PROVE  /\ new.id \notin Ids(rules) => /\ RuleList(Append(rules, new))
                                          /\ Len(Append(rules, new)) = Len(rules) + 1
           /\ RuleList(Replaced(new)) /\ Len(Replaced(new)) = Len(rules)
<1> DEFINE s == new.id
           longer == Append(rules, new)
           same == [i \in DOMAIN rules |-> IF rules[i].id = s THEN new ELSE rules[i]]
<1>2. rules \in Seq(Rule) /\ DOMAIN rules = 1 .. Len(rules) /\ Len(rules) \in Nat
  BY DEF RuleList
<1>3. ASSUME s \notin Ids(rules) PROVE RuleList(longer) /\ Len(longer) = Len(rules) + 1
  <2>1. longer \in Seq(Rule) /\ DOMAIN longer = 1 .. Len(rules) + 1 /\ Len(longer) = Len(rules) + 1
    BY <1>2
  <2>2. \A i \in 1 .. Len(rules) : longer[i] = rules[i] /\ rules[i].id # s
    BY <1>2, <1>3 DEF Ids
  <2>3. longer[Len(rules) + 1] = new
    BY <1>2
  <2>4. ASSUME NEW i \in DOMAIN longer, NEW j \in DOMAIN longer, longer[i].id = longer[j].id
        PROVE i = j
    <3>1. CASE i \in 1 .. Len(rules) /\ j \in 1 .. Len(rules)
      BY <3>1, <2>2, <2>4, <1>2 DEF RuleList
    <3>2. CASE ~(i \in 1 .. Len(rules) /\ j \in 1 .. Len(rules))
      BY <3>2, <2>1, <2>2, <2>3, <2>4, <1>2
    <3> QED
      BY <3>1, <3>2
  <2> QED
    BY <2>1, <2>4 DEF RuleList
<1>4. RuleList(same) /\ Len(same) = Len(rules)
  <2>1. same \in Seq(Rule) /\ Len(same) = Len(rules)
    BY <1>2
  <2>2. \A i \in DOMAIN rules : same[i].id = rules[i].id
    OBVIOUS
  <2> QED
    BY <2>1, <2>2 DEF RuleList
<1> QED
  BY <1>3, <1>4 DEF Replaced

LEMMA RulesStayWithout ==
    ASSUME RuleList(rules), NEW s \in Ids(rules)
    PROVE  RuleList(Dropped(s)) /\ Len(Dropped(s)) = Len(rules) - 1
<1> DEFINE k == CHOOSE i \in DOMAIN rules : rules[i].id = s
           at(i) == IF i < k THEN i ELSE i + 1
           rest == [i \in 1 .. Len(rules) - 1 |-> rules[at(i)]]
<1>1. k \in DOMAIN rules
  BY DEF Ids
<1>2. rules \in Seq(Rule) /\ DOMAIN rules = 1 .. Len(rules) /\ Len(rules) \in Nat
  BY DEF RuleList
<1> HIDE DEF k
<1>3. Len(rules) - 1 \in Nat /\ \A i \in 1 .. Len(rules) - 1 : at(i) \in DOMAIN rules
  BY <1>1, <1>2
<1>4. \A i, j \in 1 .. Len(rules) - 1 : at(i) = at(j) => i = j
  BY <1>1, <1>2
<1>5. rest \in Seq(Rule) /\ DOMAIN rest = 1 .. Len(rules) - 1 /\ Len(rest) = Len(rules) - 1
  BY <1>2, <1>3
<1>6. \A i, j \in DOMAIN rest : rest[i].id = rest[j].id => i = j
  BY <1>3, <1>4, <1>5 DEF RuleList
<1>7. Dropped(s) = rest
  BY DEF Dropped, k
<1> HIDE DEF rest
<1> QED
  BY <1>5, <1>6, <1>7 DEF RuleList

\* The rules that publish a start command of a scene have their trigger recorded when
\* their actions can be built, and none of them was cooling down (on_uplink).
LEMMA StartIsRecorded ==
    ASSUME CooldownInv, NEW t \in Threads, NEW rep \in Reports, NEW net \in Nets,
           NEW closed \in SUBSET Scheduled,
           Uplink(t, rep, net, closed), NEW s \in Scenes
    PROVE  /\ last'[s] \in {0, last[s]} /\ quiet'[s] \in {0, quiet[s]}
           /\ Buildable(s) => last'[s] <= quiet'[s]
           /\ <<s, "start">> \in out' /\ Buildable(s) => last[s] >= BodyOf(s).cooldown
<1> DEFINE due == {i \in DOMAIN rules : rules[i].enabled /\ rules[i].id \notin closed}
           ripe == {i \in due : Matches(rules[i], rep) /\ ~CoolingDown(rules[i])}
           broken == {i \in ripe : Breaks(rules[i].body.acts, "start", net)}
           undated == {i \in due : rules[i].body.schedule = "naive"}
           reached == {i \in due : (\A j \in broken : i <= j) /\ (\A j \in undated : i < j)}
           hot == {i \in ripe \cap reached : Commanded(rules[i].body.acts, "start", net) # {}}
           fired == {i \in (ripe \cap reached) \ broken :
                       i \in hot \/ Captures(rules[i].body.acts, net)}
           started == {rules[i].id : i \in hot}
           triggered == {rules[i].id : i \in fired}
<1>1. /\ last' = [x \in Scenes |-> IF x \in triggered THEN 0 ELSE last[x]]
      /\ quiet' = [x \in Scenes |-> IF x \in started THEN 0 ELSE quiet[x]]
      /\ out' = {<<x, "start">> : x \in started}
  BY DEF Uplink
<1>2. RuleList(rules) /\ \A i \in DOMAIN rules : rules[i] \in Rule
  BY DEF CooldownInv, RuleList
<1>3. ASSUME s \in started, Buildable(s)
      PROVE  s \in triggered /\ last[s] >= BodyOf(s).cooldown
  <2>1. PICK i \in hot : rules[i].id = s
    BY <1>3
  <2>2. i \in DOMAIN rules /\ i \in ripe /\ i \in reached
    OBVIOUS
  <2>3. rules[i].body \in Bodies[s]
    BY <1>2, <2>1, <2>2, RuleParts
  <2>4. ~Breaks(rules[i].body.acts, "start", net)
    <3> DEFINE acts == rules[i].body.acts
    <3>1. \A k \in DOMAIN acts : ~(acts[k].kind = "command" /\ "start" \in acts[k].raises)
      BY <1>3, <2>3 DEF Buildable
    <3>2. acts \in Seq(Actions)
      BY <2>3, SceneAssumption DEF SceneAssumption
    <3> HIDE DEF acts
    <3>3. \A k \in DOMAIN acts : \A j \in 1 .. k : ~Raises(acts[j], "start", net)
      BY <3>1, <3>2 DEF Raises
    <3> QED
      BY <3>3 DEF Breaks, Done, acts
  <2>5. i \in fired
    BY <2>2, <2>4
  <2>6. BodyOf(s) = rules[i].body
    BY <1>2, <2>1, <2>2, RuleAt DEF BodyOf
  <2>7. rules[i].body.cooldown \in 0 .. MaxAge
    BY <2>3, SceneAssumption DEF SceneAssumption
  <2>8. ~(last[s] < rules[i].body.cooldown)
    BY <2>1, <2>2 DEF CoolingDown
  <2>9. last[s] \in Int
    BY DEF CooldownInv, Ages
  <2> QED
    BY <2>1, <2>5, <2>6, <2>7, <2>8, <2>9
<1> HIDE DEF started, triggered
<1>4. /\ last'[s] = IF s \in triggered THEN 0 ELSE last[s]
      /\ quiet'[s] = IF s \in started THEN 0 ELSE quiet[s]
  BY <1>1
<1>5. <<s, "start">> \in out' => s \in started
  BY <1>1
<1>6. last[s] \in Nat /\ quiet[s] \in Nat /\ (Buildable(s) => last[s] <= quiet[s])
  BY SceneAssumption DEF CooldownInv, Ages, SceneAssumption
<1> QED
  BY <1>3, <1>4, <1>5, <1>6

\* The steps of the engine keep the invariant behind the cooldown.
LEMMA CooldownStep == CooldownInv /\ [Next]_vars => CooldownInv'
<1> SUFFICES ASSUME CooldownInv, [Next]_vars PROVE CooldownInv'
  OBVIOUS
<1> USE DEF CooldownInv
<1>1. ASSUME UNCHANGED <<last, quiet>>, RuleList(rules'), RuleList(disk'),
             \A rs \in loaded' : RuleList(rs), draft' \subseteq Rule
      PROVE CooldownInv'
  BY <1>1 DEF RuleList
<1>2. ASSUME UNCHANGED <<ruleVars, last, quiet>> PROVE CooldownInv'
  BY <1>1, <1>2 DEF ruleVars
<1>3. ASSUME NEW rs, Manages(rs), RuleList(rs), draft' \subseteq Rule PROVE CooldownInv'
  BY <1>1, <1>3 DEF Manages, Save, Saved, SaveFails, memory, history
<1>4. ASSUME NEW t \in Threads, Enter(t) PROVE CooldownInv'
  BY <1>2, <1>4 DEF Enter, memory, history
<1>5. ASSUME NEW t \in Threads, NEW rep \in Reports, NEW net \in Nets,
             NEW closed \in SUBSET Scheduled, Uplink(t, rep, net, closed)
      PROVE CooldownInv'
  <2>1. RuleList(rules') /\ RuleList(disk') /\ (\A rs \in loaded' : RuleList(rs)) /\ draft' \subseteq Rule
    BY <1>5, UplinkLists
  <2>2. \A s \in Scenes : /\ last'[s] \in {0, last[s]} /\ quiet'[s] \in {0, quiet[s]}
                          /\ Buildable(s) => last'[s] <= quiet'[s]
    BY <1>5, StartIsRecorded
  <2>3. 0 \in Ages
    BY SceneAssumption DEF SceneAssumption, Ages
  <2>4. /\ \E S : last' = [s \in Scenes |-> IF s \in S THEN 0 ELSE last[s]]
        /\ \E S : quiet' = [s \in Scenes |-> IF s \in S THEN 0 ELSE quiet[s]]
    BY <1>5 DEF Uplink
  <2>5. last' \in [Scenes -> Ages] /\ quiet' \in [Scenes -> Ages]
    BY <2>3, <2>4
  <2> QED
    BY <2>1, <2>2, <2>5
<1>6. ASSUME NEW s \in Scenes, NEW k \in 1 .. MaxTimers,
             Wake(s, k) \/ \E net \in Nets : StopActions(s, k, net)
      PROVE CooldownInv'
  BY <1>2, <1>6 DEF Wake, StopActions, memory, history
<1>7. ASSUME NEW s \in Scenes, NEW on \in BOOLEAN, NEW b \in Bodies[s], Add(s, b, on)
      PROVE CooldownInv'
  <2>1. NewRule(s, b, on, FALSE) \in Rule /\ NewRule(s, b, on, FALSE).id = s
    BY RuleParts
  <2> QED
    BY <1>3, <1>7, <2>1, RulesStay DEF Add
<1>8. ASSUME NEW s \in Scenes, NEW on \in BOOLEAN, SetEnabled(s, on) PROVE CooldownInv'
  <2>1. BodyOf(s) \in Bodies[s] /\ RuleOf(s).behind \in BOOLEAN
    BY <1>8, RuleAt, RuleParts DEF SetEnabled, Ids, RuleList, BodyOf
  <2>2. NewRule(s, BodyOf(s), on, RuleOf(s).behind) \in Rule
    BY <2>1, RuleParts
  <2> QED
    BY <1>3, <1>8, <2>2, RulesStay DEF SetEnabled
<1>13. ASSUME NEW s \in Scenes, UpdateRead(s) PROVE CooldownInv'
  <2>1. RuleOf(s) \in Rule
    BY <1>13, RuleAt DEF UpdateRead, Ids, RuleList
  <2> QED
    BY <1>1, <1>13, <2>1 DEF UpdateRead, memory, history
<1>14. ASSUME NEW s \in Scenes, NEW on \in BOOLEAN, NEW b \in Bodies[s], UpdateSet(b, on)
       PROVE CooldownInv'
  <2>1. PICK r \in draft : b \in Bodies[r.id] /\ Manages(Replaced(NewRule(r.id, b, on, r.behind)))
    BY <1>14 DEF UpdateSet
  <2>2. NewRule(r.id, b, on, r.behind) \in Rule
    BY <2>1, RuleParts
  <2> QED
    BY <1>3, <1>14, <2>1, <2>2, RulesStay DEF UpdateSet
<1>15. ASSUME NEW s \in Scenes, Remove(s) PROVE CooldownInv'
  BY <1>3, <1>15, RulesStayWithout DEF Remove
<1>9. CASE ReloadRead \/ ReloadSet
  BY <1>1, <1>9 DEF ReloadRead, ReloadSet, memory, history
<1>10. CASE Stop
  BY <1>2, <1>10 DEF Stop, memory, history
<1>11. CASE Tick
  <2>1. \A a \in Ages : Older(a) \in Ages
    BY SceneAssumption DEF SceneAssumption, Ages, Older
  <2>2. \A a, b \in Ages : a <= b => Older(a) <= Older(b)
    BY SceneAssumption DEF SceneAssumption, Ages, Older
  <2>3. /\ last' = [s \in Scenes |-> Older(last[s])]
        /\ quiet' = [s \in Scenes |-> Older(quiet[s])]
        /\ UNCHANGED ruleVars
    BY <1>11 DEF Tick
  <2>4. \A s \in Scenes : last[s] \in Ages /\ quiet[s] \in Ages
    OBVIOUS
  <2>5. last' \in [Scenes -> Ages] /\ quiet' \in [Scenes -> Ages]
    BY <2>1, <2>3, <2>4
  <2>6. \A s \in Scenes : Buildable(s) => last'[s] <= quiet'[s]
    BY <2>2, <2>3, <2>4
  <2> QED
    BY <2>3, <2>5, <2>6 DEF ruleVars
<1>12. CASE UNCHANGED vars
  BY <1>2, <1>12 DEF vars, ruleVars, memory, history
<1> QED
  BY <1>4, <1>5, <1>6, <1>7, <1>8, <1>9, <1>10, <1>11, <1>12, <1>13, <1>14, <1>15 DEF Next,
    Manage

\* One rule per scene, in memory, in the file and in what a reload has read, and the stamp
\* of the last trigger covers the last start, in every state.
THEOREM CooldownInvariant == Spec => []CooldownInv
<1>1. Init => CooldownInv
  <2>1. RuleList(<< >>)
    BY DEF RuleList
  <2>2. MaxAge \in Ages
    BY SceneAssumption DEF SceneAssumption, Ages
  <2>3. ASSUME Init PROVE CooldownInv
    <3>1. /\ rules = << >> /\ disk = << >> /\ loaded = {} /\ draft = {}
          /\ last = [s \in Scenes |-> MaxAge] /\ quiet = [s \in Scenes |-> MaxAge]
      BY <2>3 DEF Init
    <3>2. MaxAge <= MaxAge
      BY SceneAssumption DEF SceneAssumption
    <3> QED
      BY <2>1, <2>2, <3>1, <3>2 DEF CooldownInv
  <2> QED
    BY <2>3
<1> QED
  BY <1>1, CooldownStep, PTL DEF Spec

\* Start commands come from the evaluation of a report only.
LEMMA OnlyUplinkStarts ==
    ASSUME Next, NEW s \in Scenes, <<s, "start">> \in out'
    PROVE  \E t \in Threads, rep \in Reports, net \in Nets :
             \E closed \in SUBSET Scheduled : Uplink(t, rep, net, closed)
<1>1. ASSUME NEW x \in Scenes, NEW k \in 1 .. MaxTimers, NEW net \in Nets,
             StopActions(x, k, net)
      PROVE FALSE
  BY <1>1 DEF StopActions
<1> QED
  BY <1>1 DEF Next, Manage, Manages, Enter, Wake, Add, SetEnabled, UpdateRead, UpdateSet, Remove,
              ReloadRead, ReloadSet, Stop, Tick

\* A scene whose actions can always be built starts its devices at most once per cooldown,
\* for any rules, reports, threads and management of the rules meanwhile (on_uplink).
THEOREM OncePerCooldown == Spec => CooldownKept
<1> DEFINE Kept == \A s \in Scenes : (<<s, "start">> \in out' /\ Buildable(s))
                                       => quiet[s] >= BodyOf(s).cooldown
<1>1. CooldownInv /\ [Next]_vars => [Kept]_vars
  <2> SUFFICES ASSUME CooldownInv, Next, NEW s \in Scenes, <<s, "start">> \in out', Buildable(s)
               PROVE  quiet[s] >= BodyOf(s).cooldown
    OBVIOUS
  <2>1. \E t \in Threads, rep \in Reports, net \in Nets :
          \E closed \in SUBSET Scheduled : Uplink(t, rep, net, closed)
    BY OnlyUplinkStarts
  <2>2. PICK t \in Threads, rep \in Reports, net \in Nets :
          \E closed \in SUBSET Scheduled : Uplink(t, rep, net, closed)
    BY <2>1
  <2>3. PICK closed \in SUBSET Scheduled : Uplink(t, rep, net, closed)
    BY <2>2
  <2>4. last[s] >= BodyOf(s).cooldown
    BY <2>3, StartIsRecorded
  <2>5. last[s] <= quiet[s] /\ last[s] \in Int /\ quiet[s] \in Int
    BY DEF CooldownInv, Ages
  <2>6. BodyOf(s).cooldown \in Int
    <3>1. \E i \in DOMAIN rules : rules[i].id = s
      BY <2>3 DEF Uplink
    <3>2. PICK i \in DOMAIN rules : rules[i].id = s
      BY <3>1
    <3>3. rules[i] \in Rule /\ RuleOf(s) = rules[i]
      BY <3>2, RuleAt DEF CooldownInv, RuleList
    <3>4. BodyOf(s) \in Bodies[s]
      BY <3>2, <3>3, RuleParts DEF BodyOf
    <3> QED
      BY <3>4, SceneAssumption DEF SceneAssumption
  <2> QED
    BY <2>4, <2>5, <2>6
<1> QED
  BY <1>1, CooldownInvariant, PTL DEF Spec, CooldownKept

-----------------------------------------------------------------------------
\* What the engine remembers of a scene and a device.
Memos == [edge : [Sensors -> BOOLEAN], since : [Sensors -> Ages \cup {NotHeld}]]

\* The memory of an edge is down only where a report that did not meet the condition was
\* evaluated since the edge last started the scene.
EdgeInv ==
    /\ edge \in [Scenes -> [Devices -> [Sensors -> BOOLEAN]]]
    /\ since \in [Scenes -> [Devices -> [Sensors -> Ages \cup {NotHeld}]]]
    /\ \A s \in Scenes, d \in Devices, x \in Sensors : ~edge[s][d][x] => <<s, d, x>> \in fell

\* A set of naturals that is not empty has a least member.
LEMMA Least ==
    ASSUME NEW S \in SUBSET Nat, S # {}
    PROVE  \E k \in S : \A l \in S : k <= l
<1>1. PICK k \in S : \A l \in S : <<l, k>> \notin OpToRel(<, Nat)
  BY NatLessThanWellFounded, WFMin
<1>2. \A l \in S : ~(l < k)
  BY <1>1, Zenon DEF OpToRel
<1> QED
  BY <1>2

\* The memory is a function on the prefixes of the conditions.
Recalls(f, n, r, rep) ==
    f = [k \in 0 .. n |->
           IF k = 0
           THEN [edge |-> edge[r.id][rep.dev], since |-> since[r.id][rep.dev]]
           ELSE Evaluated(f[k - 1], r.body.conds[k], rep)]

LEMMA RecallsExists ==
    ASSUME NEW r, NEW rep
    PROVE  \A n \in Nat : \E f : Recalls(f, n, r, rep)
<1> DEFINE without == {n \in Nat : ~\E f : Recalls(f, n, r, rep)}
           first == [edge |-> edge[r.id][rep.dev], since |-> since[r.id][rep.dev]]
<1>1. SUFFICES ASSUME without # {} PROVE FALSE
  OBVIOUS
<1>2. PICK n \in without : \A l \in without : n <= l
  <2> HIDE DEF without
  <2>1. without \in SUBSET Nat
    BY DEF without
  <2> QED
    BY <1>1, <2>1, Least
<1> HIDE DEF first
<1>3. n # 0
  <2> DEFINE f == [k \in 0 .. 0 |-> first]
  <2>1. Recalls(f, 0, r, rep)
    BY DEF Recalls, first
  <2> QED
    BY <2>1
<1>4. PICK g : Recalls(g, n - 1, r, rep)
  BY <1>2, <1>3
<1> DEFINE last1 == Evaluated(g[n - 1], r.body.conds[n], rep)
           f == [k \in 0 .. n |-> IF k = n THEN last1 ELSE g[k]]
<1>5. n \in Nat /\ n - 1 \in Nat
  BY <1>3
<1>6. \A k \in 0 .. n - 1 :
        g[k] = IF k = 0 THEN first ELSE Evaluated(g[k - 1], r.body.conds[k], rep)
  BY <1>4 DEF Recalls, first
<1> HIDE DEF last1
<1>7. \A k \in 0 .. n :
        f[k] = IF k = 0 THEN first ELSE Evaluated(f[k - 1], r.body.conds[k], rep)
  <2> TAKE k \in 0 .. n
  <2>1. CASE k = n
    <3>1. f[n] = last1 /\ f[n - 1] = g[n - 1]
      BY <1>5
    <3> QED
      BY <1>3, <2>1, <3>1 DEF last1
  <2>2. CASE k # n /\ k # 0
    <3>1. k \in 0 .. n - 1 /\ f[k] = g[k] /\ f[k - 1] = g[k - 1]
      BY <1>5, <2>2
    <3> QED
      BY <1>6, <2>2, <3>1
  <2>3. CASE k # n /\ k = 0
    BY <1>5, <1>6, <2>3
  <2> QED
    BY <2>1, <2>2, <2>3
<1>8. Recalls(f, n, r, rep)
  <2>1. f = [k \in 0 .. n |-> f[k]]
    OBVIOUS
  <2> HIDE DEF f
  <2> QED
    BY <1>7, <2>1 DEF Recalls, first
<1> QED
  BY <1>8

\* The memory condition by condition, as _matches computes it.
LEMMA MemoSteps ==
    ASSUME NEW r \in Rule, NEW rep \in Reports
    PROVE  /\ r.body.conds \in Seq(Conditions) /\ Len(r.body.conds) \in Nat
           /\ DOMAIN r.body.conds = 1 .. Len(r.body.conds)
           /\ \A k \in 0 .. Len(r.body.conds) :
                Memo(r, rep)[k] =
                  IF k = 0
                  THEN [edge |-> edge[r.id][rep.dev], since |-> since[r.id][rep.dev]]
                  ELSE Evaluated(Memo(r, rep)[k - 1], r.body.conds[k], rep)
<1>1. /\ r.body.conds \in Seq(Conditions) /\ Len(r.body.conds) \in Nat
      /\ DOMAIN r.body.conds = 1 .. Len(r.body.conds)
  <2>1. r.id \in Scenes /\ r.body \in Bodies[r.id]
    BY RuleParts
  <2>2. r.body.conds \in Seq(Conditions)
    BY <2>1, SceneAssumption DEF SceneAssumption
  <2> QED
    BY <2>2
<1> DEFINE f == CHOOSE g : Recalls(g, Len(r.body.conds), r, rep)
<1>2. Memo(r, rep) = f
  BY DEF Memo, Recalls
<1>3. Recalls(f, Len(r.body.conds), r, rep)
  BY <1>1, RecallsExists
<1> HIDE DEF f
<1> QED
  BY <1>1, <1>2, <1>3 DEF Recalls

\* One condition: the edge of a sensor it takes down has not been met.
LEMMA EvaluatedShape ==
    ASSUME NEW m \in Memos, NEW c \in Conditions, NEW rep \in Reports
    PROVE  /\ Evaluated(m, c, rep) \in Memos
           /\ \A x \in Sensors :
                ~Evaluated(m, c, rep).edge[x] =>
                  \/ ~m.edge[x]
                  \/ x = c.sensor /\ c.mode = "edge" /\ rep.dev \in c.from /\ ~Meets(c, rep)
           /\ (c.mode = "edge" /\ rep.dev \in c.from /\ Meets(c, rep)) =>
                Evaluated(m, c, rep).edge[c.sensor]
<1>1. c.sensor \in Sensors /\ Meets(c, rep) \in BOOLEAN
  BY DEF Conditions, Meets
<1>2. 0 \in Ages
  BY SceneAssumption DEF SceneAssumption, Ages
<1> DEFINE e == [m EXCEPT !.edge[c.sensor] = Meets(c, rep)]
<1>3. /\ e \in Memos
      /\ \A x \in Sensors : e.edge[x] = IF x = c.sensor THEN Meets(c, rep) ELSE m.edge[x]
  BY <1>1 DEF Memos
<1>4. [m EXCEPT !.since[c.sensor] =
         IF ~Meets(c, rep) THEN NotHeld ELSE IF @ = NotHeld THEN 0 ELSE @] \in Memos
  BY <1>1, <1>2 DEF Memos
<1>5. [m EXCEPT !.since[c.sensor] =
         IF ~Meets(c, rep) THEN NotHeld ELSE IF @ = NotHeld THEN 0 ELSE @].edge = m.edge
  BY DEF Memos
<1> HIDE DEF e
<1>6. CASE rep.dev \in c.from /\ c.mode = "edge"
  <2>1. Evaluated(m, c, rep) = e
    BY <1>6 DEF Evaluated, e
  <2> QED
    BY <1>1, <1>3, <1>6, <2>1
<1>7. CASE ~(rep.dev \in c.from /\ c.mode = "edge")
  BY <1>4, <1>5, <1>7 DEF Evaluated
<1> QED
  BY <1>6, <1>7

\* All conditions of a rule: an edge that is down was down before, or is in Fallen.
LEMMA MemoShape ==
    ASSUME EdgeInv, NEW r \in Rule, NEW rep \in Reports
    PROVE  \A k \in 0 .. Len(r.body.conds) :
             /\ Memo(r, rep)[k] \in Memos
             /\ \A x \in Sensors : ~Memo(r, rep)[k].edge[x] =>
                  ~edge[r.id][rep.dev][x] \/ x \in Fallen(r, rep)
<1> DEFINE conds == r.body.conds
           M(k) == Memo(r, rep)[k]
           Right(k) == /\ M(k) \in Memos
                       /\ \A x \in Sensors : ~M(k).edge[x] =>
                            ~edge[r.id][rep.dev][x] \/ x \in Fallen(r, rep)
           wrong == {k \in 0 .. Len(conds) : ~Right(k)}
<1>1. /\ conds \in Seq(Conditions) /\ Len(conds) \in Nat /\ DOMAIN conds = 1 .. Len(conds)
      /\ \A k \in 0 .. Len(conds) :
           M(k) = IF k = 0
                  THEN [edge |-> edge[r.id][rep.dev], since |-> since[r.id][rep.dev]]
                  ELSE Evaluated(M(k - 1), conds[k], rep)
  BY MemoSteps
<1>2. r.id \in Scenes /\ rep.dev \in Devices
  BY RuleParts DEF Reports
<1> SUFFICES ASSUME wrong # {} PROVE FALSE
  OBVIOUS
<1>3. PICK k \in wrong : \A l \in wrong : k <= l
  <2> HIDE DEF wrong
  <2>1. wrong \in SUBSET Nat
    BY <1>1 DEF wrong
  <2> QED
    BY <2>1, Least
<1> HIDE DEF M
<1>4. CASE k = 0
  <2>1. M(0) = [edge |-> edge[r.id][rep.dev], since |-> since[r.id][rep.dev]]
    BY <1>1
  <2>2. /\ edge[r.id][rep.dev] \in [Sensors -> BOOLEAN]
        /\ since[r.id][rep.dev] \in [Sensors -> Ages \cup {NotHeld}]
    BY <1>2 DEF EdgeInv
  <2>3. M(0) \in Memos /\ M(0).edge = edge[r.id][rep.dev]
    BY <2>1, <2>2 DEF Memos
  <2> QED
    BY <1>3, <1>4, <2>3
<1>5. CASE k # 0
  <2>1. k \in 1 .. Len(conds) /\ k - 1 \in 0 .. Len(conds) /\ k - 1 \notin wrong
    BY <1>1, <1>3, <1>5
  <2>2. Right(k - 1) /\ conds[k] \in Conditions /\ M(k) = Evaluated(M(k - 1), conds[k], rep)
    BY <1>1, <1>5, <2>1
  <2>3. M(k) \in Memos
    BY <2>2, EvaluatedShape
  <2>4. ASSUME NEW x \in Sensors, ~M(k).edge[x]
        PROVE  ~edge[r.id][rep.dev][x] \/ x \in Fallen(r, rep)
    <3>1. \/ ~M(k - 1).edge[x]
          \/ /\ x = conds[k].sensor /\ conds[k].mode = "edge" /\ rep.dev \in conds[k].from
             /\ ~Meets(conds[k], rep)
      BY <2>2, <2>4, EvaluatedShape
    <3>2. conds[k] \in Range(conds)
      BY <1>1, <2>1 DEF Range
    <3> QED
      BY <2>2, <3>1, <3>2 DEF Fallen
  <2> QED
    BY <1>3, <2>3, <2>4
<1> QED
  BY <1>4, <1>5

\* Evaluating a report keeps the edges and the history together, and a scene that waits for
\* one edge starts only when that edge was down (on_uplink, _matches).
LEMMA UplinkEdge ==
    ASSUME RuleList(rules), EdgeInv, NEW t \in Threads, NEW rep \in Reports,
           NEW net \in Nets, NEW closed \in SUBSET Scheduled,
           Uplink(t, rep, net, closed)
    PROVE  /\ EdgeInv'
           /\ \A s \in Scenes : (<<s, "start">> \in out' /\ OneEdge(BodyOf(s)))
                => \E d \in Devices : <<s, d, BodyOf(s).conds[1].sensor>> \in fell \ fell'
<1> DEFINE due == {i \in DOMAIN rules : rules[i].enabled /\ rules[i].id \notin closed}
           ripe == {i \in due : Matches(rules[i], rep) /\ ~CoolingDown(rules[i])}
           broken == {i \in ripe : Breaks(rules[i].body.acts, "start", net)}
           undated == {i \in due : rules[i].body.schedule = "naive"}
           reached == {i \in due : (\A j \in broken : i <= j) /\ (\A j \in undated : i < j)}
           hot == {i \in ripe \cap reached : Commanded(rules[i].body.acts, "start", net) # {}}
           seen == {rules[i].id : i \in reached}
           started == {rules[i].id : i \in hot}
           memo(s) == Memo(RuleOf(s), rep)[Len(BodyOf(s).conds)]
           gone == {<<s, rep.dev, BodyOf(s).conds[1].sensor>> :
                      s \in {x \in started : OneEdge(BodyOf(x))}}
           fallen == UNION {{<<s, rep.dev, x>> : x \in Fallen(RuleOf(s), rep)} : s \in seen}
<1>1. /\ edge' = [s \in Scenes |-> IF s \in seen
                                   THEN [edge[s] EXCEPT ![rep.dev] = memo(s).edge]
                                   ELSE edge[s]]
      /\ since' = [s \in Scenes |-> IF s \in seen
                                    THEN [since[s] EXCEPT ![rep.dev] = memo(s).since]
                                    ELSE since[s]]
      /\ out' = {<<s, "start">> : s \in started}
      /\ fell' = (fell \ gone) \cup fallen
  BY DEF Uplink
<1>2. rep.dev \in Devices
  BY DEF Reports
<1>3. ASSUME NEW s \in seen
      PROVE  /\ RuleOf(s) \in Rule /\ RuleOf(s).id = s /\ s \in Scenes
             /\ BodyOf(s) = RuleOf(s).body
             /\ memo(s) \in Memos
             /\ \A x \in Sensors : ~memo(s).edge[x] =>
                  ~edge[s][rep.dev][x] \/ x \in Fallen(RuleOf(s), rep)
  <2>1. PICK i \in DOMAIN rules : rules[i].id = s
    OBVIOUS
  <2>2. RuleOf(s) = rules[i] /\ rules[i] \in Rule
    BY <2>1, RuleAt DEF RuleList
  <2>3. /\ RuleOf(s) \in Rule /\ RuleOf(s).id = s /\ s \in Scenes
        /\ BodyOf(s) = RuleOf(s).body
    BY <2>1, <2>2, RuleParts DEF BodyOf
  <2>4. Len(RuleOf(s).body.conds) \in 0 .. Len(RuleOf(s).body.conds)
    BY <2>3, MemoSteps
  <2> QED
    BY <2>3, <2>4, MemoShape
<1>4. ASSUME NEW s \in started, OneEdge(BodyOf(s))
      PROVE  /\ s \in seen
             /\ BodyOf(s).conds[1].sensor \in Sensors
             /\ ~edge[s][rep.dev][BodyOf(s).conds[1].sensor]
             /\ memo(s).edge[BodyOf(s).conds[1].sensor]
             /\ Fallen(RuleOf(s), rep) = {}
  <2>1. PICK i \in hot : rules[i].id = s
    OBVIOUS
  <2>2. i \in DOMAIN rules /\ i \in reached /\ Matches(rules[i], rep)
    OBVIOUS
  <2>3. s \in seen
    BY <2>1, <2>2
  <2>4. RuleOf(s) = rules[i]
    BY <2>1, <2>2, RuleAt
  <2> DEFINE r == RuleOf(s)
             c == r.body.conds[1]
  <2>5. r \in Rule /\ r.id = s /\ BodyOf(s) = r.body
    BY <1>3, <2>3
  <2>6. Len(r.body.conds) = 1 /\ c.mode = "edge"
    BY <1>4, <2>5 DEF OneEdge
  <2>7. Matches(r, rep)
    BY <2>2, <2>4
  <2> HIDE DEF r
  <2>8. /\ r.body.conds \in Seq(Conditions) /\ DOMAIN r.body.conds = {1}
        /\ c \in Conditions
        /\ Memo(r, rep)[0] = [edge |-> edge[r.id][rep.dev], since |-> since[r.id][rep.dev]]
        /\ Memo(r, rep)[1] = Evaluated(Memo(r, rep)[0], c, rep)
        /\ Memo(r, rep)[0] \in Memos
    <3>1. 1 .. 1 = {1} /\ 0 \in 0 .. 1 /\ 1 \in 0 .. 1 /\ 1 - 1 = 0
      OBVIOUS
    <3>2. /\ r.body.conds \in Seq(Conditions) /\ DOMAIN r.body.conds = 1 .. 1
          /\ \A k \in 0 .. 1 :
               Memo(r, rep)[k] =
                 IF k = 0
                 THEN [edge |-> edge[r.id][rep.dev], since |-> since[r.id][rep.dev]]
                 ELSE Evaluated(Memo(r, rep)[k - 1], r.body.conds[k], rep)
      BY <2>5, <2>6, MemoSteps
    <3>3. Memo(r, rep)[0] \in Memos
      BY <2>5, <2>6, <3>1, MemoShape
    <3>4. c \in Conditions
      BY <2>6, <3>1, <3>2
    <3> QED
      BY <3>1, <3>2, <3>3, <3>4
  <2>9. Outcome(r, rep, 1)
    <3>1. r.body.logic = "and" \/ r.body.logic # "and"
      OBVIOUS
    <3> QED
      BY <2>7, <2>8 DEF Matches
  <2>10. rep.dev \in c.from /\ Meets(c, rep) /\ ~Memo(r, rep)[0].edge[c.sensor]
    BY <2>6, <2>9 DEF Outcome
  <2>11. c.sensor \in Sensors
    BY <2>8 DEF Conditions
  <2>12. ~edge[s][rep.dev][c.sensor]
    BY <2>5, <2>8, <2>10
  <2>13. memo(s).edge[c.sensor]
    BY <2>5, <2>6, <2>8, <2>10, EvaluatedShape DEF r
  <2>14. Fallen(r, rep) = {}
    <3>1. Range(r.body.conds) = {c}
      BY <2>8 DEF Range
    <3> QED
      BY <2>10, <3>1 DEF Fallen
  <2> QED
    BY <2>3, <2>5, <2>11, <2>12, <2>13, <2>14 DEF r
<1> HIDE DEF seen, started, memo
<1>5. /\ edge' \in [Scenes -> [Devices -> [Sensors -> BOOLEAN]]]
      /\ since' \in [Scenes -> [Devices -> [Sensors -> Ages \cup {NotHeld}]]]
  <2>1. \A s \in seen : /\ memo(s).edge \in [Sensors -> BOOLEAN]
                        /\ memo(s).since \in [Sensors -> Ages \cup {NotHeld}]
    BY <1>3 DEF Memos
  <2>2. ASSUME NEW s \in Scenes
        PROVE  /\ edge'[s] \in [Devices -> [Sensors -> BOOLEAN]]
               /\ since'[s] \in [Devices -> [Sensors -> Ages \cup {NotHeld}]]
    <3>1. /\ edge[s] \in [Devices -> [Sensors -> BOOLEAN]]
          /\ since[s] \in [Devices -> [Sensors -> Ages \cup {NotHeld}]]
      BY DEF EdgeInv
    <3> QED
      BY <1>1, <2>1, <3>1
  <2> QED
    BY <1>1, <2>2
<1>6. ASSUME NEW s \in Scenes, NEW d \in Devices, NEW x \in Sensors, ~edge'[s][d][x]
      PROVE  <<s, d, x>> \in fell'
  <2>1. CASE s \in seen /\ d = rep.dev
    <3>1. edge'[s][d] = memo(s).edge
      <4>1. edge[s] \in [Devices -> [Sensors -> BOOLEAN]]
        BY DEF EdgeInv
      <4> QED
        BY <1>1, <2>1, <4>1
    <3>2. CASE x \in Fallen(RuleOf(s), rep)
      BY <1>1, <2>1, <3>2
    <3>3. CASE x \notin Fallen(RuleOf(s), rep)
      <4>1. ~edge[s][d][x]
        BY <1>3, <1>6, <2>1, <3>1, <3>3
      <4>2. <<s, d, x>> \in fell
        BY <4>1 DEF EdgeInv
      <4>3. <<s, d, x>> \notin gone
        BY <1>4, <1>6, <3>1
      <4> QED
        BY <1>1, <4>2, <4>3
    <3> QED
      BY <3>2, <3>3
  <2>2. CASE ~(s \in seen /\ d = rep.dev)
    <3>1. edge'[s][d] = edge[s][d]
      <4>1. edge[s] \in [Devices -> [Sensors -> BOOLEAN]]
        BY DEF EdgeInv
      <4> QED
        BY <1>1, <2>2, <4>1
    <3>2. <<s, d, x>> \in fell
      BY <1>6, <3>1 DEF EdgeInv
    <3>3. <<s, d, x>> \notin gone
      BY <1>4, <2>2
    <3> QED
      BY <1>1, <3>2, <3>3
  <2> QED
    BY <2>1, <2>2
<1>7. EdgeInv'
  BY <1>5, <1>6 DEF EdgeInv
<1>8. ASSUME NEW s \in Scenes, <<s, "start">> \in out', OneEdge(BodyOf(s))
      PROVE  <<s, rep.dev, BodyOf(s).conds[1].sensor>> \in fell \ fell'
  <2> DEFINE p == <<s, rep.dev, BodyOf(s).conds[1].sensor>>
  <2>1. s \in started
    BY <1>1, <1>8
  <2>2. p \in fell
    BY <1>2, <1>4, <1>8, <2>1 DEF EdgeInv
  <2>3. p \in gone
    BY <1>8, <2>1
  <2>4. p \notin fallen
    BY <1>4, <1>8, <2>1
  <2> QED
    BY <1>1, <2>2, <2>3, <2>4
<1> QED
  BY <1>2, <1>7, <1>8

\* The steps of the engine keep the edges and their history together.
LEMMA EdgeStep == RuleList(rules) /\ EdgeInv /\ [Next]_vars => EdgeInv'
<1> SUFFICES ASSUME RuleList(rules), EdgeInv, [Next]_vars PROVE EdgeInv'
  OBVIOUS
<1>1. CASE UNCHANGED <<edge, since, fell>>
  BY <1>1 DEF EdgeInv
<1>2. ASSUME NEW t \in Threads, NEW rep \in Reports, NEW net \in Nets,
             NEW closed \in SUBSET Scheduled, Uplink(t, rep, net, closed)
      PROVE EdgeInv'
  BY <1>2, UplinkEdge
<1>3. CASE Tick
  <2>1. /\ UNCHANGED <<edge, fell>>
        /\ since' = [s \in Scenes |-> [d \in Devices |-> [x \in Sensors |->
                       IF since[s][d][x] = NotHeld THEN NotHeld ELSE Older(since[s][d][x])]]]
    BY <1>3 DEF Tick
  <2>2. \A a \in Ages : Older(a) \in Ages
    BY SceneAssumption DEF SceneAssumption, Ages, Older
  <2>3. since' \in [Scenes -> [Devices -> [Sensors -> Ages \cup {NotHeld}]]]
    BY <2>1, <2>2 DEF EdgeInv
  <2> QED
    BY <2>1, <2>3 DEF EdgeInv
<1>4. \/ UNCHANGED <<edge, since, fell>> \/ Tick
      \/ \E t \in Threads, rep \in Reports, net \in Nets :
           \E closed \in SUBSET Scheduled : Uplink(t, rep, net, closed)
  BY DEF Next, Manage, Manages, Enter, Wake, StopActions, Add, SetEnabled, UpdateRead, UpdateSet,
         Remove, ReloadRead, ReloadSet, Stop, memory, history, vars
<1> QED
  BY <1>1, <1>2, <1>3, <1>4

\* A scene never starts its devices twice within its cooldown, and one that waits for an
\* edge never twice for one rise, for any rules, devices, sensors, reports, threads and
\* management of the rules meanwhile (on_uplink, _matches).
THEOREM StartsAreNew == Spec => StartsOnce
<1> DEFINE Risen == \A s \in Scenes : (<<s, "start">> \in out' /\ OneEdge(BodyOf(s)))
                      => \E d \in Devices : <<s, d, BodyOf(s).conds[1].sensor>> \in fell \ fell'
<1>1. Init => EdgeInv
  BY SceneAssumption DEF Init, EdgeInv, SceneAssumption
<1>2. CooldownInv /\ EdgeInv /\ [Next]_vars => EdgeInv'
  BY EdgeStep DEF CooldownInv
<1>3. CooldownInv /\ EdgeInv /\ [Next]_vars => [Risen]_vars
  <2> SUFFICES ASSUME CooldownInv, EdgeInv, Next, NEW s \in Scenes, <<s, "start">> \in out',
                      OneEdge(BodyOf(s))
               PROVE  \E d \in Devices : <<s, d, BodyOf(s).conds[1].sensor>> \in fell \ fell'
    OBVIOUS
  <2>1. \E t \in Threads, rep \in Reports, net \in Nets :
          \E closed \in SUBSET Scheduled : Uplink(t, rep, net, closed)
    BY OnlyUplinkStarts
  <2> QED
    BY <2>1, UplinkEdge DEF CooldownInv
<1> HIDE DEF Risen
<1>4. Spec => [][Risen]_vars
  BY <1>1, <1>2, <1>3, CooldownInvariant, PTL DEF Spec
<1>5. Spec => EdgeRises
  BY <1>4 DEF Risen, EdgeRises
<1> QED
  BY <1>5, OncePerCooldown DEF StartsOnce

-----------------------------------------------------------------------------
\* What the invariants above leave open of the types.
Timer == [left : Ages, woken : BOOLEAN]
Queue(q) == q \in Seq(Timer) /\ Len(q) <= MaxTimers
RestInv ==
    /\ running \in BOOLEAN
    /\ \A rs \in {rules, disk} \cup loaded : Len(rs) <= MaxRules
    /\ inside \subseteq Threads
    /\ timers \in [Scenes -> Seq(Timer)]
    /\ \A s \in Scenes : Queue(timers[s])
    /\ out \subseteq Scenes \X {"start", "stop"}
    /\ hindered \subseteq owed /\ owed \subseteq Scenes \X Targets
    /\ fell \subseteq Scenes \X Devices \X Sensors

\* Keeping the woken timers is a function on the prefixes of the queue.
Keeps(f, n, q) ==
    f = [k \in 0 .. n |-> IF k = 0 THEN << >>
                          ELSE IF q[k].woken THEN Append(f[k - 1], q[k]) ELSE f[k - 1]]

LEMMA KeepsExists ==
    ASSUME NEW q
    PROVE  \A n \in Nat : \E f : Keeps(f, n, q)
<1> DEFINE without == {n \in Nat : ~\E f : Keeps(f, n, q)}
<1>1. SUFFICES ASSUME without # {} PROVE FALSE
  OBVIOUS
<1>2. PICK n \in without : \A l \in without : n <= l
  <2> HIDE DEF without
  <2>1. without \in SUBSET Nat
    BY DEF without
  <2> QED
    BY <1>1, <2>1, Least
<1>3. n # 0
  <2> DEFINE f == [k \in 0 .. 0 |-> << >>]
  <2>1. Keeps(f, 0, q)
    BY DEF Keeps
  <2> QED
    BY <2>1
<1>4. PICK g : Keeps(g, n - 1, q)
  BY <1>2, <1>3
<1> DEFINE final == IF q[n].woken THEN Append(g[n - 1], q[n]) ELSE g[n - 1]
           f == [k \in 0 .. n |-> IF k = n THEN final ELSE g[k]]
<1>5. n \in Nat /\ n - 1 \in Nat
  BY <1>3
<1>6. \A k \in 0 .. n - 1 : g[k] = IF k = 0 THEN << >>
                                   ELSE IF q[k].woken THEN Append(g[k - 1], q[k]) ELSE g[k - 1]
  BY <1>4 DEF Keeps
<1> HIDE DEF final
<1>7. \A k \in 0 .. n : f[k] = IF k = 0 THEN << >>
                               ELSE IF q[k].woken THEN Append(f[k - 1], q[k]) ELSE f[k - 1]
  <2> TAKE k \in 0 .. n
  <2>1. CASE k = n
    <3>1. f[n] = final /\ f[n - 1] = g[n - 1]
      BY <1>5
    <3> QED
      BY <1>3, <2>1, <3>1 DEF final
  <2>2. CASE k # n /\ k # 0
    <3>1. k \in 0 .. n - 1 /\ f[k] = g[k] /\ f[k - 1] = g[k - 1]
      BY <1>5, <2>2
    <3> QED
      BY <1>6, <2>2, <3>1
  <2>3. CASE k # n /\ k = 0
    BY <1>5, <1>6, <2>3
  <2> QED
    BY <2>1, <2>2, <2>3
<1>8. Keeps(f, n, q)
  <2>1. f = [k \in 0 .. n |-> f[k]]
    OBVIOUS
  <2> HIDE DEF f
  <2> QED
    BY <1>7, <2>1 DEF Keeps
<1> QED
  BY <1>8

\* What stop leaves of the timers of a scene.
LEMMA WokenShape ==
    ASSUME NEW s \in Scenes, Queue(timers[s])
    PROVE  Queue(Woken(s))
<1> DEFINE q == timers[s]
           L == Len(q)
           f == CHOOSE g : Keeps(g, L, q)
           wrong == {k \in 0 .. L : ~(f[k] \in Seq(Timer) /\ Len(f[k]) <= k)}
<1>0. L \in Nat /\ q \in Seq(Timer) /\ L <= MaxTimers /\ MaxTimers \in Nat
  BY SceneAssumption DEF SceneAssumption, Queue
<1>1. Woken(s) = f[L]
  BY DEF Woken, Keeps
<1>2. Keeps(f, L, q)
  <2> HIDE DEF q
  <2> QED BY <1>0, KeepsExists
<1> HIDE DEF f
<1>3. \A k \in 0 .. L : f[k] = IF k = 0 THEN << >>
                               ELSE IF q[k].woken THEN Append(f[k - 1], q[k]) ELSE f[k - 1]
  BY <1>2 DEF Keeps
<1>4. wrong = {}
  <2> SUFFICES ASSUME wrong # {} PROVE FALSE
    OBVIOUS
  <2>1. PICK k \in wrong : \A l \in wrong : k <= l
    <3> HIDE DEF wrong
    <3>1. wrong \in SUBSET Nat
      BY <1>0 DEF wrong
    <3> QED
      BY <3>1, Least
  <2>2. k # 0
    <3>1. f[0] = << >>
      BY <1>0, <1>3
    <3>2. << >> \in Seq(Timer) /\ Len(<< >>) <= 0
      OBVIOUS
    <3>3. f[0] \in Seq(Timer) /\ Len(f[0]) <= 0
      BY <3>1, <3>2
    <3> QED
      BY <2>1, <3>3
  <2>3. k \in 1 .. L /\ k - 1 \in 0 .. L
    BY <1>0, <2>1, <2>2
  <2>4. f[k - 1] \in Seq(Timer) /\ Len(f[k - 1]) <= k - 1 /\ Len(f[k - 1]) \in Nat
    BY <1>0, <2>1, <2>3
  <2>5. q[k] \in Timer
    BY <1>0, <2>3
  <2>6. f[k] = IF q[k].woken THEN Append(f[k - 1], q[k]) ELSE f[k - 1]
    BY <1>3, <2>2, <2>3
  <2> HIDE DEF q
  <2>7. f[k] \in Seq(Timer) /\ Len(f[k]) <= k
    BY <2>3, <2>4, <2>5, <2>6
  <2> QED
    BY <2>1, <2>7
<1>5. f[L] \in Seq(Timer) /\ Len(f[L]) <= L
  BY <1>0, <1>4
<1> HIDE DEF q, f
<1> QED
  BY <1>0, <1>1, <1>5 DEF Queue

\* Actions command targets.
LEMMA CommandedTargets ==
    ASSUME NEW s \in Scenes, NEW b \in Bodies[s], NEW what, NEW net
    PROVE  Commanded(b.acts, what, net) \subseteq Targets
<1> DEFINE acts == b.acts
<1>1. acts \in Seq(Actions)
  BY SceneAssumption DEF SceneAssumption
<1> HIDE DEF acts
<1>2. \A k \in DOMAIN acts : acts[k].target \in Targets
  <2>1. \A k \in DOMAIN acts : acts[k] \in Actions
    BY <1>1
  <2> QED
    BY <2>1 DEF Actions
<1>3. Commanded(acts, what, net) \subseteq Targets
  BY <1>2 DEF Commanded, Done
<1> QED
  BY <1>3 DEF acts

\* Evaluating a report keeps the rest of the types.
LEMMA UplinkRest ==
    ASSUME CooldownInv, RestInv, NEW t \in Threads, NEW rep \in Reports,
           NEW net \in Nets, NEW closed \in SUBSET Scheduled,
           Uplink(t, rep, net, closed)
    PROVE  RestInv'
<1> DEFINE due == {i \in DOMAIN rules : rules[i].enabled /\ rules[i].id \notin closed}
           ripe == {i \in due : Matches(rules[i], rep) /\ ~CoolingDown(rules[i])}
           broken == {i \in ripe : Breaks(rules[i].body.acts, "start", net)}
           undated == {i \in due : rules[i].body.schedule = "naive"}
           reached == {i \in due : (\A j \in broken : i <= j) /\ (\A j \in undated : i < j)}
           hot == {i \in ripe \cap reached : Commanded(rules[i].body.acts, "start", net) # {}}
           fired == {i \in (ripe \cap reached) \ broken :
                       i \in hot \/ Captures(rules[i].body.acts, net)}
           seen == {rules[i].id : i \in reached}
           started == {rules[i].id : i \in hot}
           timed == {rules[i].id : i \in {j \in fired : rules[j].body.duration > 0}}
           gone == {<<s, rep.dev, BodyOf(s).conds[1].sensor>> :
                      s \in {x \in started : OneEdge(BodyOf(x))}}
           fallen == UNION {{<<s, rep.dev, x>> : x \in Fallen(RuleOf(s), rep)} : s \in seen}
           new(s) == [left |-> BodyOf(s).duration, woken |-> FALSE]
           lent == UNION {{<<s, m>> : m \in Commanded(BodyOf(s).acts, "start", net)} : s \in timed}
<1>0. RuleList(rules)
  BY DEF CooldownInv
<1>1. /\ \A s \in timed : Len(timers[s]) < MaxTimers
      /\ timers' = [s \in Scenes |-> IF s \in timed THEN Append(timers[s], new(s)) ELSE timers[s]]
      /\ out' = {<<s, "start">> : s \in started}
      /\ owed' = owed \cup lent /\ hindered' = hindered \ lent
      /\ fell' = (fell \ gone) \cup fallen
      /\ inside' = inside \ {t}
      /\ UNCHANGED running
  BY DEF Uplink
<1>2. ASSUME NEW i \in DOMAIN rules
      PROVE  /\ rules[i] \in Rule /\ rules[i].id \in Scenes
             /\ RuleOf(rules[i].id) = rules[i] /\ BodyOf(rules[i].id) = rules[i].body
             /\ rules[i].body.duration \in Ages
  <2>1. rules[i] \in Rule /\ RuleOf(rules[i].id) = rules[i]
    BY <1>0, RuleAt DEF RuleList
  <2>2. rules[i].id \in Scenes /\ rules[i].body \in Bodies[rules[i].id]
    BY <2>1, RuleParts
  <2>3. rules[i].body.duration \in Ages
    BY <2>2, SceneAssumption DEF SceneAssumption, Ages
  <2> QED
    BY <2>1, <2>2, <2>3 DEF BodyOf
<1>3. /\ timed \subseteq Scenes /\ started \subseteq Scenes
      /\ \A s \in timed : new(s) \in Timer
  BY <1>2 DEF Timer
<1>4. fallen \subseteq Scenes \X Devices \X Sensors
  <2> SUFFICES ASSUME NEW s \in seen, NEW x \in Fallen(RuleOf(s), rep)
               PROVE  s \in Scenes /\ rep.dev \in Devices /\ x \in Sensors
    OBVIOUS
  <2>1. PICK i \in DOMAIN rules : rules[i].id = s
    OBVIOUS
  <2>2. RuleOf(s) \in Rule /\ s \in Scenes
    BY <1>2, <2>1
  <2>3. PICK c \in Range(RuleOf(s).body.conds) : x = c.sensor
    BY DEF Fallen
  <2>4. c \in Conditions
    <3> DEFINE conds == RuleOf(s).body.conds
    <3>1. conds \in Seq(Conditions) /\ DOMAIN conds = 1 .. Len(conds)
      BY <2>2, MemoSteps
    <3> HIDE DEF conds
    <3>2. \A k \in DOMAIN conds : conds[k] \in Conditions
      BY <3>1
    <3> QED
      BY <3>2 DEF Range, conds
  <2> QED
    BY <2>2, <2>3, <2>4 DEF Conditions, Reports
<1>9. lent \subseteq Scenes \X Targets
  <2> SUFFICES ASSUME NEW s \in timed, NEW m \in Commanded(BodyOf(s).acts, "start", net)
               PROVE  s \in Scenes /\ m \in Targets
    OBVIOUS
  <2>1. PICK i \in DOMAIN rules : rules[i].id = s
    OBVIOUS
  <2>2. s \in Scenes /\ BodyOf(s) \in Bodies[s]
    BY <1>2, <2>1, RuleParts
  <2>3. m \in Targets
    BY <2>2, CommandedTargets
  <2> QED
    BY <2>2, <2>3
<1> HIDE DEF timed, started, seen, gone, fallen, new, lent
<1>5. ASSUME NEW s \in Scenes PROVE Queue(timers'[s])
  <2>1. timers[s] \in Seq(Timer) /\ Len(timers[s]) <= MaxTimers /\ MaxTimers \in Nat
    BY SceneAssumption DEF RestInv, Queue, SceneAssumption
  <2>2. CASE s \in timed
    <3>1. timers'[s] = Append(timers[s], new(s)) /\ Len(timers[s]) < MaxTimers
      BY <1>1, <2>2
    <3>2. Append(timers[s], new(s)) \in Seq(Timer) /\ Len(Append(timers[s], new(s))) = Len(timers[s]) + 1
      BY <1>3, <2>1, <2>2
    <3> QED
      BY <2>1, <3>1, <3>2 DEF Queue
  <2>3. CASE s \notin timed
    BY <1>1, <2>1, <2>3 DEF Queue
  <2> QED
    BY <2>2, <2>3
<1>6. timers' \in [Scenes -> Seq(Timer)]
  <2>1. \A s \in Scenes : timers'[s] \in Seq(Timer)
    BY <1>5 DEF Queue
  <2> QED
    BY <1>1, <2>1
<1>7. /\ out' \subseteq Scenes \X {"start", "stop"} /\ owed' \subseteq Scenes \X Targets
      /\ hindered' \subseteq owed' /\ fell' \subseteq Scenes \X Devices \X Sensors /\ inside' \subseteq Threads
  BY <1>1, <1>3, <1>4, <1>9 DEF RestInv
<1>8. running' \in BOOLEAN /\ \A rs \in {rules', disk'} \cup loaded' : Len(rs) <= MaxRules
  <2>1. /\ Len(rules') = Len(rules) /\ Len(disk') \in {Len(rules), Len(disk)}
        /\ \A rs \in loaded' : \E old \in loaded : Len(rs) = Len(old)
    BY UplinkLists DEF CooldownInv
  <2> QED
    BY <1>1, <2>1 DEF RestInv
<1> QED
  BY <1>5, <1>6, <1>7, <1>8 DEF RestInv, Queue

\* The timer of a stop that runs out, or is through.
LEMMA TimerRest ==
    ASSUME RestInv, NEW s \in Scenes, NEW k \in 1 .. MaxTimers,
           Wake(s, k) \/ \E net \in Nets : StopActions(s, k, net)
    PROVE  RestInv'
<1>1. /\ k \in DOMAIN timers[s] /\ UNCHANGED <<running, ruleVars, inside, fell>>
      /\ owed' \subseteq owed /\ hindered' \subseteq owed'
      /\ out' \in {{}, {<<s, "stop">>}}
  BY DEF Wake, StopActions, history, debts, RestInv
<1>2. timers[s] \in Seq(Timer) /\ Len(timers[s]) \in Nat /\ DOMAIN timers[s] = 1 .. Len(timers[s])
      /\ Len(timers[s]) <= MaxTimers /\ MaxTimers \in Nat
  BY SceneAssumption DEF RestInv, Queue, SceneAssumption
<1>3. \E q : timers' = [timers EXCEPT ![s] = q] /\ Queue(q)
  <2>1. CASE Wake(s, k)
    <3> DEFINE q == [timers[s] EXCEPT ![k].woken = TRUE]
    <3>1. timers' = [timers EXCEPT ![s] = q]
      BY <2>1 DEF Wake
    <3>2. [timers[s][k] EXCEPT !.woken = TRUE] \in Timer
      <4>1. timers[s][k] \in Timer
        BY <1>1, <1>2
      <4> QED
        BY <4>1 DEF Timer
    <3>3. q \in Seq(Timer) /\ Len(q) = Len(timers[s])
      BY <1>1, <1>2, <3>2
    <3> QED
      BY <1>2, <3>1, <3>3 DEF Queue
  <2>2. CASE ~Wake(s, k)
    <3> DEFINE at(i) == IF i < k THEN i ELSE i + 1
               q == [i \in 1 .. Len(timers[s]) - 1 |-> timers[s][at(i)]]
    <3>1. timers' = [timers EXCEPT ![s] = q]
      BY <2>2 DEF StopActions
    <3>2. Len(timers[s]) - 1 \in Nat
          /\ \A i \in 1 .. Len(timers[s]) - 1 : at(i) \in DOMAIN timers[s]
      BY <1>1, <1>2
    <3>3. q \in Seq(Timer) /\ Len(q) = Len(timers[s]) - 1
      BY <1>2, <3>2
    <3> HIDE DEF q
    <3>4. Queue(q)
      BY <1>2, <3>3 DEF Queue
    <3> QED
      BY <3>1, <3>4
  <2> QED
    BY <2>1, <2>2
<1>4. timers' \in [Scenes -> Seq(Timer)] /\ \A x \in Scenes : Queue(timers'[x])
  BY <1>3 DEF RestInv, Queue
<1> QED
  BY <1>1, <1>4 DEF RestInv, ruleVars, Queue

\* Management keeps the number of rules within max_rules.
LEMMA ManageRest ==
    ASSUME RestInv, CooldownInv, Manage
    PROVE  RestInv'
<1>10. RuleList(rules)
  BY DEF CooldownInv
<1>0. MaxRules \in Nat /\ rules \in Seq(Rule) /\ Len(rules) \in Nat
      /\ DOMAIN rules = 1 .. Len(rules) /\ Len(rules) <= MaxRules
  BY <1>10, SceneAssumption DEF SceneAssumption, RuleList, RestInv
<1>1. ASSUME Len(rules') <= MaxRules, disk' \in {rules', disk}, loaded' \in {loaded, {}, {disk}},
             out' = {}, UNCHANGED <<running, inside, timers, history>>
      PROVE  RestInv'
  BY <1>1 DEF RestInv, Queue, history, debts
<1>2. ASSUME NEW rs, Manages(rs), Len(rs) <= MaxRules PROVE RestInv'
  BY <1>1, <1>2 DEF Manages, Save, Saved, SaveFails
<1>3. ASSUME NEW s \in Scenes, NEW on \in BOOLEAN, NEW b \in Bodies[s], Add(s, b, on)
      PROVE  RestInv'
  <2> DEFINE new == NewRule(s, b, on, FALSE)
  <2>1. new \in Rule /\ new.id = s
    BY RuleParts
  <2> HIDE DEF new
  <2>2. Manages(Append(rules, new)) /\ Len(rules) < MaxRules /\ s \notin Ids(rules)
    BY <1>3 DEF Add, new
  <2>3. Len(Append(rules, new)) = Len(rules) + 1
    BY <1>0, <2>1
  <2>4. Len(Append(rules, new)) <= MaxRules
    BY <1>0, <2>2, <2>3
  <2> QED
    BY <1>2, <2>2, <2>4
<1>4. ASSUME NEW s \in Scenes, NEW on \in BOOLEAN, SetEnabled(s, on) PROVE RestInv'
  <2>1. BodyOf(s) \in Bodies[s] /\ RuleOf(s).behind \in BOOLEAN
    BY <1>4, <1>10, RuleAt, RuleParts DEF SetEnabled, Ids, RuleList, BodyOf
  <2>2. NewRule(s, BodyOf(s), on, RuleOf(s).behind) \in Rule
    BY <2>1, RuleParts
  <2> QED
    BY <1>0, <1>2, <1>4, <1>10, <2>2, RulesStay DEF SetEnabled
<1>5. ASSUME NEW s \in Scenes, UpdateRead(s) PROVE RestInv'
  BY <1>0, <1>1, <1>5 DEF UpdateRead
<1>6. ASSUME NEW on \in BOOLEAN, NEW b, UpdateSet(b, on) PROVE RestInv'
  <2>1. PICK r \in draft : b \in Bodies[r.id] /\ Manages(Replaced(NewRule(r.id, b, on, r.behind)))
    BY <1>6 DEF UpdateSet
  <2>2. NewRule(r.id, b, on, r.behind) \in Rule
    BY <2>1, RuleParts DEF CooldownInv
  <2> QED
    BY <1>0, <1>2, <1>10, <2>1, <2>2, RulesStay
<1>7. ASSUME NEW s \in Scenes, Remove(s) PROVE RestInv'
  <2>1. s \in Ids(rules) /\ Manages(Dropped(s))
    BY <1>7 DEF Remove
  <2>2. Len(Dropped(s)) = Len(rules) - 1
    BY <1>10, <2>1, RulesStayWithout
  <2>3. Len(Dropped(s)) <= MaxRules
    BY <1>0, <2>2
  <2> QED
    BY <1>2, <2>1, <2>3
<1>8. CASE ReloadRead
  BY <1>0, <1>1, <1>8 DEF ReloadRead
<1>9. CASE ReloadSet
  <2>1. Len(rules') <= MaxRules
    BY <1>9 DEF ReloadSet, RestInv
  <2> QED
    BY <1>1, <1>9, <2>1 DEF ReloadSet
<1> QED
  BY <1>3, <1>4, <1>5, <1>6, <1>7, <1>8, <1>9 DEF Manage

LEMMA RestStep == CooldownInv /\ RestInv /\ [Next]_vars => RestInv'
<1> SUFFICES ASSUME CooldownInv, RestInv, [Next]_vars PROVE RestInv'
  OBVIOUS
<1>1. ASSUME NEW t \in Threads, Enter(t) PROVE RestInv'
  BY <1>1 DEF Enter, RestInv, Queue, ruleVars, history, debts
<1>2. CASE Stop
  <2>1. \A s \in Scenes : Queue(Woken(s))
    BY WokenShape DEF RestInv
  <2>2. timers' \in [Scenes -> Seq(Timer)] /\ \A s \in Scenes : Queue(timers'[s])
    BY <1>2, <2>1 DEF Stop, Queue
  <2> QED
    BY <1>2, <2>2 DEF Stop, RestInv, Queue, ruleVars, history, debts
<1>3. CASE Tick
  <2> DEFINE older(s) == [k \in DOMAIN timers[s] |->
                            [timers[s][k] EXCEPT !.left = IF @ = 0 THEN 0 ELSE @ - 1]]
  <2>1. ASSUME NEW s \in Scenes PROVE Queue(older(s))
    <3>1. /\ timers[s] \in Seq(Timer) /\ Len(timers[s]) \in Nat /\ Len(timers[s]) <= MaxTimers
          /\ DOMAIN timers[s] = 1 .. Len(timers[s])
      BY DEF RestInv, Queue
    <3>2. \A k \in DOMAIN timers[s] :
            [timers[s][k] EXCEPT !.left = IF @ = 0 THEN 0 ELSE @ - 1] \in Timer
      <4>1. \A k \in DOMAIN timers[s] : timers[s][k] \in Timer
        BY <3>1
      <4>2. \A x \in Timer : [x EXCEPT !.left = IF @ = 0 THEN 0 ELSE @ - 1] \in Timer
        BY SceneAssumption DEF Timer, Ages, SceneAssumption
      <4> QED
        BY <4>1, <4>2
    <3>3. older(s) \in Seq(Timer) /\ Len(older(s)) = Len(timers[s])
      BY <3>1, <3>2
    <3> QED
      BY <3>1, <3>3 DEF Queue
  <2>2. timers' = [s \in Scenes |-> older(s)]
    BY <1>3 DEF Tick
  <2> HIDE DEF older
  <2>3. timers' \in [Scenes -> Seq(Timer)] /\ \A s \in Scenes : Queue(timers'[s])
    BY <2>1, <2>2 DEF Queue
  <2> QED
    BY <1>3, <2>3 DEF Tick, RestInv, Queue, ruleVars, debts
<1>4. CASE UNCHANGED vars
  BY <1>4 DEF vars, ruleVars, history, debts, RestInv, Queue
<1> QED
  BY <1>1, <1>2, <1>3, <1>4, UplinkRest, TimerRest, ManageRest DEF Next

LEMMA RestInit == Init => RestInv
<1> SUFFICES ASSUME Init PROVE RestInv
  OBVIOUS
<1>1. << >> \in Seq(Timer) /\ Len(<< >>) = 0 /\ MaxTimers \in Nat /\ MaxRules \in Nat
  BY SceneAssumption DEF SceneAssumption
<1>2. timers = [s \in Scenes |-> << >>]
  BY DEF Init
<1>3. timers \in [Scenes -> Seq(Timer)] /\ \A s \in Scenes : Queue(timers[s])
  BY <1>1, <1>2 DEF Queue
<1> QED
  BY <1>1, <1>3 DEF Init, RestInv

\* Types, with no more rules than max_rules and one per scene, in memory, in the file and in
\* what a reload has read, whatever management, reports and timers do at once.
THEOREM TypesKept == Spec => []TypeOK
<1>1. DiskInv /\ CooldownInv /\ EdgeInv /\ RestInv => TypeOK
  BY DEF DiskInv, CooldownInv, RuleList, EdgeInv, RestInv, Queue, Timer, TypeOK
<1>2. Init => EdgeInv
  BY SceneAssumption DEF Init, EdgeInv, SceneAssumption
<1>3. CooldownInv /\ EdgeInv /\ [Next]_vars => EdgeInv'
  BY EdgeStep DEF CooldownInv
<1>4. CooldownInv /\ RestInv /\ [Next]_vars => RestInv'
  BY RestStep
<1> QED
  BY <1>1, <1>2, <1>3, <1>4, RestInit, CooldownInvariant, DiskInvariant, PTL DEF Spec
=============================================================================
