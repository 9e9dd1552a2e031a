------------------------------ MODULE Adapters ------------------------------
(***************************************************************************)
(* Which adapter takes an uplink message and what report it makes of it    *)
(* (src/uplink/adapters).  A message is a topic, a sequence of segments,   *)
(* and what the adapters look at in its payload:                           *)
(*   ids      the fields that can name the device, with their values;      *)
(*   info     the fields of the ChirpStack object deviceInfo;              *)
(*   marks    which of fPort, rxInfo, deviceInfo, linkquality are there;   *)
(*   data     its Base64 data: "none", "invalid", an HCv3 "camera" packet, *)
(*            a "frame" of the LoRa group, the longer one of its           *)
(*            "environment" stations or something "other";                 *)
(*   keys, object   measurements (by canonical name) and other fields of   *)
(*            the payload and of its object;                               *)
(*   type     the type it states, or "".                                   *)
(* Values of measurements are left out: what a report carries is the set of*)
(* names, and Uplink says which report a value is from.                    *)
(***************************************************************************)
EXTENDS Naturals, Sequences, SequencesExt, FiniteSets

HasSegment(topic, segment) == segment \in ToSet(topic)

\* extract_device_id_from_topic
IdFromTopic(topic) ==
    LET n == Len(topic)
        at == SelectInSubSeq(topic, 1, n - 1, LAMBDA s : s = "device")
    IN IF n >= 5 /\ topic[1] = "bridge" /\ topic[2] = "uplink" THEN topic[4]
       ELSE IF topic[1] = "application" /\ at # 0 THEN topic[at + 1]
       ELSE IF n >= 3 THEN topic[n - 1] ELSE ""

\* _first_str: the value of the first of these fields that is there, or "".
First(fields, order) ==
    LET i == SelectInSeq(order, LAMBDA f : f \in DOMAIN fields)
    IN IF i = 0 THEN "" ELSE fields[order[i]]

\* `a or b or c'.
FirstOf(ids) ==
    LET i == SelectInSeq(ids, LAMBDA x : x # "") IN IF i = 0 THEN "" ELSE ids[i]

EoraTopics == {<<"s3", "eora-s3-400tb-001", "data">>,
               <<"bridge", "uplink", "generic", "eora_s3_400tb_001", "data">>}

IsLora(m) ==
    \/ HasSegment(m.topic, "lora") \/ m.topic[1] = "application"
    \/ DOMAIN m.ids \cap {"devEUI", "dev_eui"} # {}
    \/ m.marks \cap {"fPort", "rxInfo", "deviceInfo"} # {}
IsZigbee(m) ==
    \/ HasSegment(m.topic, "zigbee")
    \/ DOMAIN m.ids \cap {"ieeeAddr", "ieee_addr", "friendly_name"} # {}
    \/ "linkquality" \in m.marks
IsWifi(m) ==
    m.topic \in EoraTopics \/ HasSegment(m.topic, "wifi") \/ HasSegment(m.topic, "camera")

\* select_adapter: the first that matches.
SelectAdapter(m) ==
    CASE IsLora(m) -> "lora"
      [] ~IsLora(m) /\ IsZigbee(m) -> "zigbee"
      [] ~IsLora(m) /\ ~IsZigbee(m) /\ IsWifi(m) -> "wifi"
      [] OTHER -> "generic"

\* LoRa fills the gaps of the payload with deviceInfo before it looks for a name; deviceInfo
\* has the last word before the topic too.
LoraId(m) ==
    FirstOf(<<First(m.ids, <<"device_id">>),
              First(m.ids, <<"deviceName">>), First(m.info, <<"deviceName">>),
              First(m.ids, <<"devEUI">>), First(m.info, <<"devEui">>),
              First(m.ids, <<"dev_eui">>),
              First(m.info, <<"devEui", "devEUI", "dev_eui">>),
              IdFromTopic(m.topic)>>)

ZigbeeId(m) ==
    FirstOf(<<First(m.ids, <<"device_id", "friendly_name", "ieeeAddr", "ieee_addr">>),
              IdFromTopic(m.topic)>>)

WifiId(m) ==
    IF m.topic \in EoraTopics THEN "eora_s3_400tb_001"
    ELSE FirstOf(<<First(m.ids, <<"device_id", "id", "deviceName">>), IdFromTopic(m.topic)>>)

GenericId(m) == FirstOf(<<First(m.ids, <<"device_id", "id">>), IdFromTopic(m.topic)>>)

DeviceId(m) ==
    CASE SelectAdapter(m) = "lora" -> LoraId(m)
      [] SelectAdapter(m) = "zigbee" -> ZigbeeId(m)
      [] SelectAdapter(m) = "wifi" -> WifiId(m)
      [] OTHER -> GenericId(m)

FrameKeys == {"seq", "boot_id", "send_time_ms", "lorawan_retry_count", "temperature",
              "humidity", "joined", "application_retry", "flags"}
EnvironmentKeys == FrameKeys \cup {"soil_moisture", "precipitation"}

\* What the Base64 data of a LoRa message adds: the decoded frame, or the size of one that
\* cannot be decoded.
LoraData(m) ==
    CASE m.data = "frame" -> FrameKeys
      [] m.data = "environment" -> EnvironmentKeys
      [] m.data = "camera" -> {"camera_transport", "camera_packet", "binary_length"}
      [] m.data = "other" -> {"binary_length"}
      [] OTHER -> {}

RxInfo(m) == IF "rxInfo" \in m.marks THEN {"signal", "snr"} ELSE {}

LoraKeys(m) == LoraData(m) \cup RxInfo(m) \cup m.object

Raw(m) ==
    m.keys \cup (IF "linkquality" \in m.marks THEN {"signal"} ELSE {})
           \cup (IF SelectAdapter(m) = "lora" THEN LoraKeys(m) ELSE {})

\* infer_type; a generic message on a topic that ends in status is a status.
Type(m) ==
    LET metrics == Raw(m) \cap {"temperature", "humidity", "pressure"}
    IN CASE m.type # "" -> m.type
         [] m.type = "" /\ SelectAdapter(m) = "generic" /\ Last(m.topic) = "status" -> "status"
         [] OTHER -> IF Cardinality(metrics) = 1 THEN CHOOSE k \in metrics : TRUE
                     ELSE IF Raw(m) # {} THEN "multi" ELSE "status"

Source(m) ==
    CASE SelectAdapter(m) # "generic" -> SelectAdapter(m)
      [] OTHER -> IF HasSegment(m.topic, "bridge") THEN "bridge" ELSE "mqtt"

\* AdapterParseError: Base64 that cannot be decoded, or no name for the device.
Parses(m) ==
    /\ ~(SelectAdapter(m) = "lora" /\ m.data = "invalid")
    /\ DeviceId(m) # ""
=============================================================================
