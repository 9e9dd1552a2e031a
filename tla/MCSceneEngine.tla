---------------------------- MODULE MCSceneEngine ----------------------------
(***************************************************************************)
(* The scene engine on a small instance.  The definitions of one scene: a  *)
(* rising edge starts the device for a while; a level or a rising edge     *)
(* starts it within a schedule, and it cannot be told to stop; a capture   *)
(* with a schedule that raises, to which an update moves the action.  The  *)
(* other scene has an action that cannot be built.                         *)
(***************************************************************************)
EXTENDS SceneEngine, TLC

CONSTANTS s1, s2, d1, x1, warm, m1

Condition(mode, hold) ==
    [sensor |-> x1, test |-> warm, mode |-> mode, hold |-> hold, from |-> {d1}]
Command(m, raises) == [target |-> m, kind |-> "command", raises |-> raises]
Capture == [target |-> m1, kind |-> "capture", raises |-> {}]
Body(cond, acts, duration, cooldown) ==
    [conds |-> <<cond>>, logic |-> "and", acts |-> acts,
     duration |-> duration, cooldown |-> cooldown, schedule |-> "always"]

timedEdge == Body(Condition("edge", 0), <<Command(m1, {})>>, 1, 1)
eitherWay == [conds |-> <<Condition("level", 0), Condition("edge", 0)>>, logic |-> "or",
              acts |-> <<Capture, Command(m1, {"stop"})>>,
              duration |-> 1, cooldown |-> 0, schedule |-> "window"]
undated == [timedEdge EXCEPT !.acts = <<Capture>>, !.schedule = "naive"]

unbuildable == Body(Condition("level", 0), <<Command(m1, {"start"})>>, 0, 0)

TwoScenes == {s1, s2}
ChangingBody == [s \in TwoScenes |-> IF s = s1 THEN {timedEdge, eitherWay, undated}
                                                ELSE {unbuildable}]
=============================================================================
