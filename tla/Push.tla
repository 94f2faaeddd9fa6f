-------------------------------- MODULE Push --------------------------------
(***************************************************************************)
(* The rounds of the main loop towards Grafana and the MQTT broker: the    *)
(* yield of the MQTT client and the ping of the websocket, which every     *)
(* round makes, then, in a round in which a meter was read, a line for     *)
(* Grafana and a message of every enabled meter.  One thread makes all     *)
(* calls, so each waits for the one before; Grafana, the broker and the    *)
(* network go on meanwhile.                                                *)
(***************************************************************************)
EXTENDS GrafanaPush, MqttPublish

CONSTANT NumMessages  \* the meters that publish to MQTT

ASSUME PushAssumption == NumMessages \in Nat /\ QoS \in 0..2

VARIABLES at,        \* the statement of the loop
          messages   \* meters still to be published in this round

loopVars == <<at, messages>>
vars == <<loopVars, grafanaVars, mqttVars>>

Init == /\ GrafanaInit /\ MqttInit
        /\ at = "yield" /\ messages = 0

Yield == /\ at = "yield" /\ at' = "ping"
         /\ mqtt_pub_yield
         /\ UNCHANGED <<messages, grafanaVars>>

influxdb_post_http ==
    /\ at = "ping" /\ at' = "query"
    /\ (\E c \in {"ping", "pingEnd"} : StartCall(c)) \/ crash
    /\ UNCHANGED <<messages, mqttVars>>

\* A round without a meter read, or the line ...
NothingRead == /\ at = "query" /\ call = "none" /\ at' = "yield"
               /\ UNCHANGED <<messages, grafanaVars, mqttVars>>

influxdb_post_http_line ==
    /\ at = "query" /\ at' = "line"
    /\ StartCall("line")
    /\ UNCHANGED <<messages, mqttVars>>

\* ... and the messages.
Messages == /\ at = "line" /\ call = "none" /\ at' = "mqtt"
            /\ messages' = NumMessages
            /\ UNCHANGED <<grafanaVars, mqttVars>>

mqttSendData == /\ at = "mqtt" /\ messages > 0
                /\ mqtt_pub
                /\ messages' = messages - 1
                /\ UNCHANGED <<at, grafanaVars>>

RoundEnds == /\ at = "mqtt" /\ messages = 0 /\ mpc = "idle" /\ at' = "yield"
             /\ UNCHANGED <<messages, grafanaVars, mqttVars>>

InPost == Post /\ UNCHANGED <<loopVars, mqttVars>>
InPublish == Publishing /\ UNCHANGED <<loopVars, grafanaVars>>
Daemon == \/ Yield \/ influxdb_post_http \/ NothingRead \/ influxdb_post_http_line
          \/ Messages \/ mqttSendData \/ RoundEnds \/ InPost \/ InPublish

Environment == \/ Grafana /\ UNCHANGED <<loopVars, mqttVars>>
               \/ Broker /\ UNCHANGED <<loopVars, grafanaVars>>

Next == Daemon \/ Environment
Spec == Init /\ [][Next]_vars

(***************************************************************************)
(* The loop goes on: no call waits for ever, as libcurl and the MQTT       *)
(* client have timeouts of their own, and now and then a meter is read.  A *)
(* connection the other side has closed does not take data for ever: TCP   *)
(* answers with a reset, the MQTT client misses the answer to its ping.    *)
(***************************************************************************)
SendIsRefused == curl_ws_send_fails /\ UNCHANGED <<loopVars, mqttVars>>
PingIsMissed == Yield /\ link = "dead" /\ link' = "down"
FairSpec == /\ Spec /\ WF_vars(Daemon) /\ SF_vars(influxdb_post_http_line)
            /\ SF_vars(SendIsRefused) /\ SF_vars(PingIsMissed)
-----------------------------------------------------------------------------
\* The inductive invariant of the composition.
IInv == /\ GrafanaInv /\ MqttInv
        /\ at \in {"yield", "ping", "query", "line", "mqtt"}
        /\ messages \in 0..NumMessages

(***************************************************************************)
(* Once the servers and the network stay up every sink recovers, whatever  *)
(* the outages before have left behind: from some round on every line is   *)
(* stored and every message published, and there are such rounds.          *)
(***************************************************************************)
AllUp == calm /\ reliable
LineStored == at = "mqtt" /\ stored = 1
MessagePublished == at = "mqtt" /\ messages = 0 /\ handed = 1
Recovers ==
    <>AllUp => \/ <>(call = "crashed")
               \/ /\ []<>LineStored /\ <>[](at = "mqtt" => stored = 1)
                  /\ []<>MessagePublished
                  /\ <>[](at = "mqtt" /\ mpc = "idle" /\ messages < NumMessages => handed = 1)
=============================================================================
