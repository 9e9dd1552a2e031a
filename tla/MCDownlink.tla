----------------------------- MODULE MCDownlink -----------------------------
(***************************************************************************)
(* The downlink path on a small instance: both channels and one board,     *)
(* with commands in its own form, in a form it does not understand, as a   *)
(* plain ZigBee device with a timeout that one channel refuses (its topic  *)
(* is routed to the second broker), and without a timeout; and an          *)
(* identifier of a command and one of a device that are lists.             *)
(***************************************************************************)
EXTENDS Downlink, TLC

CONSTANTS d1, dlist, ilist, b1, b2
OneDeviceAndList == {d1, dlist}
Lists == {dlist, ilist}
TwoBrokers == {b1, b2}
EoraBoard == (d1 :> "eora" @@ dlist :> "none")
NoEui == {}
BridgeDownlink == <<"bridge", "downlink">>
NoPrefixes == <<>>
ZigbeeToSecond == ("zigbee" :> b2)

Body(type, timeout, params) ==
    [fields |-> Required, type |-> type, action |-> "set", timeout |-> timeout,
     params |-> params]
FourBodies == {Body("generic", "none", [motor |-> "on"]),
               Body("generic", "fine", [motor |-> "fast"]),
               Body("zigbee", "bad", [state |-> "on"]),
               Body("generic", "null", [cmd |-> "led", value |-> "off"])}
=============================================================================
