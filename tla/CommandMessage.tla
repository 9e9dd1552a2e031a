---------------------------- MODULE CommandMessage ----------------------------
(***************************************************************************)
(* What both downlink channels make of the body of a command: the check of *)
(* its fields (validate), the MQTT message it becomes (build_mqtt_message, *)
(* src/src/downlink/command.py) and the broker that message goes to        *)
(* (MQTTPublisherRouter, src/src/mqtt_handler.py).                         *)
(*                                                                         *)
(* A command is [id, dev, body].  dev is the device identifier as it is    *)
(* spelled in the command; a body is                                       *)
(*   fields   which fields are there and not null;                         *)
(*   type, action                                                          *)
(*   timeout  timeout_ms: "none", "null", a "fine" number, or "bad": no    *)
(*            number, negative or above the limit;                         *)
(*   params   a function from the names of parameters to values.           *)
(***************************************************************************)
EXTENDS Integers, Sequences

CONSTANTS Devices,     \* identifiers of devices, as they are spelled
          Board,       \* the board an identifier stands for, or "none"
          Eui,         \* devices that the registry knows a dev_eui of
          Prefix,      \* mqtt.downlink_topic_prefix, as segments
          Prefixes,    \* mqtt.downlink_topic_prefixes, by device type
          ChirpStack,  \* chirpstack.enabled
          Brokers,     \* MQTT handlers of the router
          Routes,      \* the handler of a project
          Default      \* the default handler

ASSUME MessageAssumption ==
    /\ Board \in [Devices -> {"none", "eora", "0xB25B", "0xC38F"}]
    /\ Eui \subseteq Devices
    /\ ChirpStack \in BOOLEAN
    /\ Default \in Brokers
    /\ \A project \in DOMAIN Routes : Routes[project] \in Brokers

DeviceTypes == {"lora", "zigbee", "generic"}
DeviceActions == {"set", "get", "reset", "config"}
Required == {"command_id", "device_type", "device_id", "action", "params"}

\* validate.  The Pub/Sub channel does not look at timeout_ms; on the other a null is
\* taken for a timeout that is not there.
Valid(b, timed) ==
    /\ Required \subseteq b.fields
    /\ b.type \in DeviceTypes
    /\ b.action \in DeviceActions
    /\ timed => b.timeout # "bad"

\* A parameter, or "" when it is not there.
Param(b, name) == IF name \in DOMAIN b.params THEN b.params[name] ELSE ""

OnOff == {"on", "off"}

\* What an EoRa board is told, by the first of the ways a command may say it; <<>> when
\* it says nothing the board understands.
EoraOrder(b) ==
    CASE Param(b, "motor") \in OnOff -> <<"motor", Param(b, "motor")>>
      [] Param(b, "motor") \notin OnOff /\ Param(b, "led") \in OnOff -> <<"led", Param(b, "led")>>
      [] OTHER ->
           IF Param(b, "cmd") \in {"motor", "led"} /\ Param(b, "value") # ""
           THEN IF Param(b, "value") \in OnOff THEN <<Param(b, "cmd"), Param(b, "value")>> ELSE <<>>
           ELSE IF Param(b, "state") = "true" THEN <<"motor", "on">>
           ELSE IF Param(b, "state") = "false" THEN <<"motor", "off">> ELSE <<>>

\* What a ZigBee board is told; "" when the command cannot be put that way.  Only the
\* board's own actuator is looked at, and raw data when that is not there.
ZigbeeData(b, board) ==
    LET actuator == IF board = "0xB25B" THEN "relay" ELSE "led"
        value == Param(b, actuator)
    IN CASE b.action # "set" -> ""
         [] b.action = "set" /\ value = "" ->
              IF Param(b, "data") \in {"00", "01"} THEN Param(b, "data") ELSE ""
         [] b.action = "set" /\ value \in {"on", "true", "1", "01"} -> "01"
         [] b.action = "set" /\ value \in {"off", "false", "0", "00"} -> "00"
         [] OTHER -> ""

ToEora(c) == c.body.type = "generic" /\ Board[c.dev] = "eora"
ToZigbee(c) == c.body.type = "zigbee" /\ Board[c.dev] \in {"0xB25B", "0xC38F"}

\* build_mqtt_message raises for a command its board cannot be told.
Builds(c) ==
    /\ ToEora(c) => EoraOrder(c.body) # <<>>
    /\ ToZigbee(c) => ZigbeeData(c.body, Board[c.dev]) # ""

UseChirpStack(c) == ChirpStack /\ c.dev \in Eui
ChirpStackMessage(c) ==
    [topic |-> <<"application", "app", "device", c.dev, "command", "down">>,
     payload |-> [id |-> c.id, dev |-> c.dev, data |-> c.body.params]]

\* The message: the boards' own topics and payloads come first, whatever the
\* configuration says of other devices.
Message(c) ==
    CASE ToEora(c) ->
           [topic |-> Prefix \o <<"generic", "eora_s3_400tb_001", "cmd">>,
            payload |-> EoraOrder(c.body)]
      [] ToZigbee(c) ->
           [topic |-> Prefix \o <<"zigbee", Board[c.dev], "set">>,
            payload |-> ZigbeeData(c.body, Board[c.dev])]
      [] OTHER ->
           IF UseChirpStack(c) THEN ChirpStackMessage(c)
           ELSE [topic |-> (IF c.body.type \in DOMAIN Prefixes THEN Prefixes[c.body.type]
                            ELSE Append(Prefix, c.body.type)) \o <<c.dev, c.body.action>>,
                 payload |-> [id |-> c.id, action |-> c.body.action, params |-> c.body.params]]

\* MQTTPublisherRouter.publish: by the third segment of a topic of the bridge, and the
\* default handler for everything else.
Handler(topic) ==
    IF /\ Len(topic) >= 3 /\ topic[1] = "bridge" /\ topic[2] = "downlink"
       /\ topic[3] \in DOMAIN Routes
    THEN Routes[topic[3]] ELSE Default
=============================================================================
