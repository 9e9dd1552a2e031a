------------------------------ MODULE MCUplink ------------------------------
(* Four messages about two devices, by three adapters: a Zigbee topic, an environment   *)
(* frame of the same device through a ChirpStack topic, a status of another device that *)
(* only the injection port takes, and a frame that cannot be decoded.                   *)
EXTENDS Uplink

Plain(topic, keys) ==
    [topic |-> topic, ids |-> <<>>, info |-> <<>>, marks |-> {}, data |-> "none",
     keys |-> keys, object |-> {}, type |-> ""]

zigbee == Plain(<<"zigbee", "n1", "data">>, {"temperature", "pressure"})
frame == [Plain(<<"application", "app", "device", "eui", "event", "up">>, {}) EXCEPT
            !.info = [dev_eui |-> "n1"], !.marks = {"deviceInfo"}, !.data = "environment"]
status == Plain(<<"site", "n2", "status">>, {})
broken == [Plain(<<"lora", "n1", "up">>, {}) EXCEPT !.data = "invalid"]

FourMessages == {zigbee, frame, status, broken}
TwoReadings == <<"temperature", "humidity">>
=============================================================================
