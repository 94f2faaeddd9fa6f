---------------------------- MODULE MqttPublish ----------------------------
(***************************************************************************)
(* mqtt_publish.c: mqtt_pub publishes through the Paho client, connects    *)
(* and publishes again when that finds itself disconnected.                *)
(*                                                                         *)
(* The Paho client is external: it publishes over the connection it        *)
(* believes it has.  When the broker has gone unnoticed the message is     *)
(* lost, and the client notices or not; below QoS 1 it then reports a      *)
(* failure, from QoS 1 on a success.                                       *)
(*                                                                         *)
(* A definition name_variant states a plausible mistake in name; the       *)
(* specification uses none of them, they show that the properties notice.  *)
(***************************************************************************)
EXTENDS Naturals

CONSTANT QoS

VARIABLES mpc,            \* "idle", "publish", "connect" or "again"
          link,           \* the client's connection: "up", "dead" or "down"
          rc,             \* of the last mqtt_pub
          isDisconnected,
          broker,         \* it accepts connections
          reliable,       \* the broker stays from now on
          handed,         \* how often this message has reached the broker
          failed          \* the broker or the connection failed during this call

mqttVars == <<mpc, link, rc, isDisconnected, broker, reliable, handed, failed>>
environment == <<broker, reliable>>

\* The client is created and connected, or not, before the main loop.
MqttInit == /\ mpc = "idle" /\ rc = "SUCCESS" /\ isDisconnected = FALSE
            /\ broker \in BOOLEAN /\ reliable = FALSE
            /\ link = IF broker THEN "up" ELSE "down"
            /\ handed = 0 /\ failed = FALSE

mqtt_pub ==
    /\ mpc = "idle" /\ mpc' = "publish"
    /\ handed' = 0 /\ failed' = (~broker \/ link = "dead")
    /\ UNCHANGED <<link, rc, isDisconnected, environment>>

\* MQTTClient_publishMessage: the result, the connection and what the broker got.
publishMessage(r, l, h) ==
    \/ link = "up"   /\ r = "SUCCESS"      /\ l = "up"   /\ h = handed + 1
    \/ link = "dead" /\ r = "SUCCESS"      /\ l = "dead" /\ h = handed
    \/ link = "dead" /\ l = "down"         /\ h = handed
                     /\ r = IF QoS = 0 THEN "FAILURE" ELSE "SUCCESS"
    \/ link = "down" /\ r = "DISCONNECTED" /\ l = "down" /\ h = handed
PublishResults == {"SUCCESS", "FAILURE", "DISCONNECTED"}

Return_mqtt(r) == mpc' = "idle" /\ rc' = r

publish ==
    /\ mpc = "publish"
    /\ \E r \in PublishResults :
          /\ publishMessage(r, link', handed')
          /\ IF r = "DISCONNECTED"
             THEN mpc' = "connect" /\ isDisconnected' = TRUE /\ UNCHANGED rc
             ELSE Return_mqtt(r) /\ UNCHANGED isDisconnected
    /\ UNCHANGED <<environment, failed>>

AfterConnect_done == Return_mqtt("SUCCESS")
AfterConnect == mpc' = "again" /\ UNCHANGED rc

mqtt_pub_connect ==
    /\ mpc = "connect"
    /\ IF broker
       THEN link' = "up" /\ AfterConnect
       ELSE Return_mqtt("FAILURE") /\ UNCHANGED link
    /\ UNCHANGED <<isDisconnected, environment, handed, failed>>

publishAgain ==
    /\ mpc = "again"
    /\ \E r \in PublishResults :
          /\ publishMessage(r, link', handed')
          /\ Return_mqtt(IF r = "SUCCESS" THEN "RECONNECTED" ELSE r)
          /\ isDisconnected' = (isDisconnected /\ r # "SUCCESS")
    /\ UNCHANGED <<environment, failed>>

\* In mqtt_pub_yield the client sends its pings and notices a dead connection.
mqtt_pub_yield ==
    /\ mpc = "idle"
    /\ link' \in (IF link = "dead" THEN {"dead", "down"} ELSE {link})
    /\ UNCHANGED <<mpc, rc, isDisconnected, environment, handed, failed>>

Publishing == publish \/ mqtt_pub_connect \/ publishAgain
-----------------------------------------------------------------------------
BrokerChange ==
    /\ ~reliable /\ broker' = ~broker
    /\ link' = IF link = "up" THEN "dead" ELSE link
    /\ failed' = TRUE
    /\ UNCHANGED <<mpc, rc, isDisconnected, reliable, handed>>

BecomeReliable ==
    /\ ~reliable /\ reliable' = TRUE /\ broker' = TRUE
    /\ UNCHANGED <<mpc, link, rc, isDisconnected, handed, failed>>

Broker == BrokerChange \/ BecomeReliable
-----------------------------------------------------------------------------
MqttFlags == /\ isDisconnected \in BOOLEAN /\ broker \in BOOLEAN
             /\ reliable \in BOOLEAN /\ failed \in BOOLEAN
MqttTypeOK ==
    /\ MqttFlags
    /\ mpc \in {"idle", "publish", "connect", "again"} /\ link \in {"up", "dead", "down"}
    /\ rc \in PublishResults \cup {"RECONNECTED"} /\ handed \in Nat

(***************************************************************************)
(* Unless the broker or the connection failed during the call, or before   *)
(* it unnoticed, a message is published exactly once, also by the call     *)
(* that has to reconnect first.                                            *)
(***************************************************************************)
Returns == mpc # "idle" /\ mpc' = "idle"
PublishedUnlessFailed ==
    [][Returns /\ ~failed' => handed' = 1 /\ rc' \in {"SUCCESS", "RECONNECTED"}]_mqttVars

\* The inductive invariant: what a call that meets no failure has found.
MqttInv ==
    /\ MqttTypeOK
    /\ mpc # "idle" => handed = 0
    /\ mpc # "idle" /\ ~failed => broker /\ link # "dead" /\ (mpc = "again" => link = "up")
=============================================================================
