----------------------------- MODULE PushProofs -----------------------------
(***************************************************************************)
(* Theorems about the rounds towards Grafana and the MQTT broker, for      *)
(* lines of any number of pieces and any number of messages: the inductive *)
(* invariant of Push and what it implies.                                  *)
(***************************************************************************)
EXTENDS Push, TLAPS

USE GrafanaAssumption, PushAssumption

-----------------------------------------------------------------------------
LEMMA InitGrafana == GrafanaInit => GrafanaInv
<1> SUFFICES ASSUME GrafanaInit PROVE GrafanaInv
  OBVIOUS
<1>1. GrafanaTypeOK
  <2>1. GrafanaFlags
    BY Zenon DEF GrafanaInit, GrafanaFlags
  <2>2. QED
    BY <2>1 DEF GrafanaInit, GrafanaTypeOK, Protocols, Websockets
<1>2. TransportConsistent /\ LineConsistent /\ UndisturbedLine
  BY DEF GrafanaInit, TransportConsistent, LineConsistent, StoredOnceWhole, UndisturbedLine, Websockets
<1>3. QED
  BY <1>1, <1>2 DEF GrafanaInv

\* A call begins, or the process crashes at the ping.
LEMMA CallStarts ==
    ASSUME GrafanaInv, NEW c \in {"line", "ping", "pingEnd"}, StartCall(c) \/ crash
    PROVE  GrafanaInv'
<1>1. CASE StartCall(c)
  <2>1. disturbed' = (serves # Protocols \/ ch = "broken")
    BY <1>1 DEF StartCall
  <2>2. disturbed' \in BOOLEAN
    BY <2>1, Zenon
  <2>3. /\ call' = c /\ attempt' = 1 /\ got' = 0 /\ stored' = 0 /\ torn' = FALSE
        /\ left' = IF c = "line" THEN Pieces ELSE 0
        /\ UNCHANGED <<ch, hostProto, isWebsocket, firstConnectionAttempt, result, serves, calm>>
    BY <1>1 DEF StartCall, client
  <2>4. GrafanaTypeOK'
    <3>1. GrafanaFlags'
      BY <2>2, <2>3, Zenon DEF GrafanaInv, GrafanaTypeOK, GrafanaFlags
    <3>2. QED
      BY <2>3, <3>1 DEF GrafanaInv, GrafanaTypeOK
  <2>5. TransportConsistent'
    BY <2>3 DEF GrafanaInv, TransportConsistent
  <2>6. LineConsistent'
    BY <2>3 DEF GrafanaInv, LineConsistent, StoredOnceWhole
  <2>7. ~disturbed' => serves = Protocols /\ ch # "broken"
    BY <2>1, Zenon
  <2>8. UndisturbedLine'
    BY <2>3, <2>7 DEF UndisturbedLine
  <2>9. QED
    BY <2>4, <2>5, <2>6, <2>8 DEF GrafanaInv
<1>2. CASE crash
  BY <1>2 DEF crash, client, ghosts, GrafanaInv, GrafanaTypeOK, GrafanaFlags, TransportConsistent,
              LineConsistent, StoredOnceWhole, UndisturbedLine
<1>3. QED
  BY <1>1, <1>2

\* What Return leaves behind: the next attempt, or no call.
LEMMA Returned ==
    ASSUME NEW r \in {"ok", "-1", "curlError", "refused"}, GrafanaTypeOK, Posting, Return(r)
    PROVE  \/ call' = "none" /\ result' = r /\ left' = left /\ attempt' = attempt
           \/ /\ call' = call /\ attempt' = 2 /\ result' = result /\ r \in {"-1", "curlError"}
              /\ call = "line" => r = "-1" /\ left' = Pieces
              /\ call # "line" => left' = 0
  BY DEF Return, PostAgain, Resume, Posting

\* A handle is made.
LEMMA HandleMade ==
    ASSUME GrafanaInv, ConnectHttp \/ ConnectWebsocket \/ changeTransportProto
    PROVE  GrafanaInv'
<1>1. GrafanaFlags'
  BY Zenon DEF ConnectHttp, ConnectWebsocket, changeTransportProto, ghosts, GrafanaInv,
               GrafanaTypeOK, GrafanaFlags
<1>2. GrafanaTypeOK'
  <2>1. /\ ch' \in {"none", "http", "live"} /\ hostProto' \in {"ws", "http"}
        /\ got' \in {got, 0} /\ UNCHANGED <<call, attempt, left, result, serves, stored>>
    BY DEF ConnectHttp, ConnectWebsocket, changeTransportProto, ghosts, GrafanaInv,
           GrafanaTypeOK, Protocols
  <2>2. QED
    BY <1>1, <2>1 DEF GrafanaInv, GrafanaTypeOK, Protocols, Websockets
<1>3. TransportConsistent'
  <2> USE DEF GrafanaInv, TransportConsistent, Websockets
  <2>1. CASE ConnectHttp
    BY <2>1, Zenon DEF ConnectHttp
  <2>2. CASE ConnectWebsocket
    BY <2>2, Zenon DEF ConnectWebsocket
  <2>3. CASE changeTransportProto
    BY <2>3, Zenon DEF changeTransportProto
  <2>4. QED
    BY <2>1, <2>2, <2>3
<1>4. LineConsistent' /\ UndisturbedLine'
  BY DEF ConnectHttp, ConnectWebsocket, changeTransportProto, ghosts, GrafanaInv,
         GrafanaTypeOK, LineConsistent, StoredOnceWhole, UndisturbedLine
<1>5. QED
  BY <1>1, <1>2, <1>3, <1>4 DEF GrafanaInv

\* The websocket is not connected again.
LEMMA NotReconnected == ASSUME GrafanaInv, ReconnectFails PROVE GrafanaInv'
<1> USE DEF GrafanaInv, GrafanaTypeOK, GrafanaFlags
<1>1. Posting /\ Return("curlError")
  BY DEF ReconnectFails
<1>2. \/ call' = "none" /\ left' = left /\ attempt' = attempt /\ result' = "curlError"
      \/ call' = call /\ call # "line" /\ attempt' = 2 /\ left' = 0 /\ result' = result
  BY <1>1, Returned
<1>3. QED
  BY <1>2 DEF ReconnectFails, ghosts, Protocols, Websockets, TransportConsistent,
              LineConsistent, StoredOnceWhole, UndisturbedLine

LEMMA PingAnswered == ASSUME GrafanaInv, AnswerPing PROVE GrafanaInv'
<1> USE DEF GrafanaInv, GrafanaTypeOK, GrafanaFlags
<1>1. Posting /\ Return("ok")
  BY DEF AnswerPing, Posting
<1>2. call' = "none" /\ left' = left /\ attempt' = attempt /\ result' = "ok"
  BY <1>1, Returned
<1>3. QED
  BY <1>2 DEF AnswerPing, client, ghosts, TransportConsistent, LineConsistent, StoredOnceWhole,
              UndisturbedLine

\* A piece is sent; with the last one Grafana has the whole line.
LEMMA PieceSent == ASSUME GrafanaInv, curl_ws_send PROVE GrafanaInv'
<1> USE DEF GrafanaInv, GrafanaTypeOK, GrafanaFlags
<1>1. /\ call = "line" /\ left \in 1..Pieces /\ left' = left - 1 /\ stored = 0
      /\ ch \in {"live", "broken"} /\ (ch = "live" => got + left = Pieces)
      /\ got \in Nat /\ left \in Nat /\ Pieces \in Nat
  BY DEF curl_ws_send, LineConsistent, StoredOnceWhole
<1>2. UNCHANGED <<attempt, ch, hostProto, isWebsocket, firstConnectionAttempt, serves,
                  calm, disturbed>>
  BY DEF curl_ws_send, client
<1>3. CASE left = 1
  <2>1. call' = "none" /\ result' = "ok" /\ stored' \in {0, 1} /\ got' \in 0..Pieces
    <3>1. call' = "none" /\ result' = "ok"
      BY <1>3 DEF curl_ws_send
    <3>2. CASE ch = "live"
      BY <1>1, <1>3, <3>1, <3>2 DEF curl_ws_send
    <3>3. CASE ch = "broken"
      BY <1>1, <3>1, <3>3 DEF curl_ws_send
    <3>4. QED
      BY <1>1, <3>2, <3>3
  <2>2. torn' = torn
    BY <1>1, <1>3 DEF curl_ws_send
  <2>3. GrafanaFlags'
    BY <1>2, <2>2, Zenon
  <2>4. QED
    BY <1>1, <1>2, <2>1, <2>2, <2>3 DEF TransportConsistent, LineConsistent,
                                        StoredOnceWhole, UndisturbedLine
<1>4. CASE left # 1
  <2>1. /\ call' = call /\ result' = result /\ left' > 0 /\ stored' = 0 /\ got' \in 0..Pieces
        /\ ch = "live" => got' + left' = Pieces
    BY <1>1, <1>4 DEF curl_ws_send
  <2>2. torn' = torn
    BY <1>1, <1>4 DEF curl_ws_send
  <2>3. GrafanaFlags'
    BY <1>2, <2>2, Zenon
  <2>4. GrafanaTypeOK'
    BY <1>1, <1>2, <2>1, <2>3
  <2>5. TransportConsistent'
    BY <1>2 DEF TransportConsistent
  <2>6. LineConsistent'
    BY <1>1, <1>2, <2>1, <2>2 DEF LineConsistent, StoredOnceWhole
  <2>7. UndisturbedLine'
    BY <1>2, <2>1 DEF UndisturbedLine
  <2>8. QED
    BY <2>4, <2>5, <2>6, <2>7
<1>5. QED
  BY <1>3, <1>4

LEMMA SendFailed == ASSUME GrafanaInv, curl_ws_send_fails PROVE GrafanaInv'
<1> USE DEF GrafanaInv, GrafanaTypeOK, GrafanaFlags
<1>1. Posting /\ Return("-1") /\ call = "line"
  BY DEF curl_ws_send_fails, Posting
<1>2. \/ call' = "none" /\ left' = left /\ attempt' = attempt /\ result' = "-1"
      \/ call' = call /\ attempt' = 2 /\ left' = Pieces /\ result' = result
  BY <1>1, Returned
<1>3. QED
  BY <1>1, <1>2 DEF curl_ws_send_fails, Cleanup, ghosts, Websockets, TransportConsistent,
                    LineConsistent, StoredOnceWhole, UndisturbedLine

LEMMA Performed == ASSUME GrafanaInv, curl_easy_perform PROVE GrafanaInv'
<1> USE DEF GrafanaInv, GrafanaTypeOK, GrafanaFlags
<1>1. PICK r \in {"ok", "refused", "curlError"} : Return(r)
  BY DEF curl_easy_perform
<1>2. call' = "none" /\ left' = left /\ attempt' = attempt /\ result' = r
  BY <1>1, Returned DEF curl_easy_perform, Posting
<1>3. stored' \in {0, 1} /\ stored' \in Nat /\ torn' = FALSE
  BY DEF curl_easy_perform, LineConsistent, StoredOnceWhole
<1>4. disturbed' \in BOOLEAN
  BY DEF curl_easy_perform
<1>5. QED
  BY <1>2, <1>3, <1>4 DEF curl_easy_perform, Websockets, TransportConsistent, LineConsistent,
                          StoredOnceWhole, UndisturbedLine

LEMMA EnvironmentSteps == ASSUME GrafanaInv, Grafana PROVE GrafanaInv'
<1> USE DEF GrafanaInv, GrafanaTypeOK, GrafanaFlags, Break, NetworkUnchanged, Protocols, Websockets,
            TransportConsistent, LineConsistent, StoredOnceWhole, UndisturbedLine
<1>1. CASE ServerChange
  BY <1>1 DEF ServerChange
<1>2. CASE ConnectionBreaks
  BY <1>2 DEF ConnectionBreaks
<1>3. CASE BecomeCalm
  BY <1>3 DEF BecomeCalm
<1>4. QED
  BY <1>1, <1>2, <1>3 DEF Grafana

LEMMA PostSteps == ASSUME GrafanaInv, Post PROVE GrafanaInv'
  BY HandleMade, NotReconnected, PingAnswered, PieceSent, SendFailed, Performed DEF Post

LEMMA GrafanaStutters == ASSUME GrafanaInv, UNCHANGED grafanaVars PROVE GrafanaInv'
  BY DEF GrafanaInv, GrafanaTypeOK, GrafanaFlags, grafanaVars, client, ghosts, TransportConsistent,
         LineConsistent, StoredOnceWhole, UndisturbedLine
-----------------------------------------------------------------------------
LEMMA MqttSteps ==
    ASSUME MqttInv, \/ mqtt_pub \/ Publishing \/ mqtt_pub_yield \/ Broker \/ UNCHANGED mqttVars
    PROVE  MqttInv'
<1> USE DEF MqttInv, MqttTypeOK, MqttFlags, environment, PublishResults
<1>1. CASE mqtt_pub
  <2>1. (~broker \/ link = "dead") \in BOOLEAN
    OBVIOUS
  <2>2. failed' \in BOOLEAN
    BY <1>1, <2>1, Zenon DEF mqtt_pub
  <2>3. QED
    BY <1>1, <2>2 DEF mqtt_pub
<1>2. CASE publish
  <2>1. isDisconnected' \in BOOLEAN
    BY <1>2, Zenon DEF publish
  <2>2. PICK r \in PublishResults :
           /\ publishMessage(r, link', handed')
           /\ \/ r = "DISCONNECTED" /\ mpc' = "connect" /\ rc' = rc
              \/ r # "DISCONNECTED" /\ mpc' = "idle" /\ rc' = r
    BY <1>2 DEF publish, Return_mqtt
  <2>3. QED
    BY <1>2, <2>1, <2>2 DEF publish, publishMessage
<1>3. CASE mqtt_pub_connect
  BY <1>3 DEF mqtt_pub_connect, AfterConnect, Return_mqtt
<1>4. CASE publishAgain
  <2>1. PICK r \in PublishResults :
           /\ publishMessage(r, link', handed') /\ mpc' = "idle"
           /\ rc' = IF r = "SUCCESS" THEN "RECONNECTED" ELSE r
           /\ isDisconnected' = (isDisconnected /\ r # "SUCCESS")
    BY <1>4 DEF publishAgain, Return_mqtt
  <2>2. (isDisconnected /\ r # "SUCCESS") \in BOOLEAN
    OBVIOUS
  <2>3. isDisconnected' \in BOOLEAN
    BY <2>1, <2>2, Zenon
  <2>4. QED
    BY <1>4, <2>1, <2>3 DEF publishAgain, publishMessage
<1>5. CASE mqtt_pub_yield
  BY <1>5 DEF mqtt_pub_yield
<1>6. CASE BrokerChange
  <2>1. broker' \in BOOLEAN
    BY <1>6, Zenon DEF BrokerChange
  <2>2. QED
    BY <1>6, <2>1 DEF BrokerChange
<1>7. CASE BecomeReliable
  BY <1>7 DEF BecomeReliable
<1>8. CASE UNCHANGED mqttVars
  BY <1>8 DEF mqttVars
<1>9. QED
  BY <1>1, <1>2, <1>3, <1>4, <1>5, <1>6, <1>7, <1>8 DEF Publishing, Broker
-----------------------------------------------------------------------------
\* The inductive invariant of the rounds.
THEOREM Invariance == Spec => []IInv
<1>1. Init => IInv
  <2> SUFFICES ASSUME Init PROVE IInv
    OBVIOUS
  <2>1. MqttInv
    BY DEF Init, MqttInit, MqttInv, MqttTypeOK, MqttFlags, PublishResults
  <2>2. QED
    BY <2>1, InitGrafana DEF Init, IInv
<1>2. IInv /\ [Next]_vars => IInv'
  <2> SUFFICES ASSUME IInv, [Next]_vars PROVE IInv'
    OBVIOUS
  <2>1. GrafanaInv'
    <3>1. \/ Post \/ Grafana \/ UNCHANGED grafanaVars \/ crash
          \/ \E c \in {"line", "ping", "pingEnd"} : StartCall(c)
      BY DEF Next, Daemon, Environment, Yield, influxdb_post_http, NothingRead,
             influxdb_post_http_line, Messages, mqttSendData, RoundEnds, InPost, InPublish, vars
    <3>2. QED
      BY <3>1, CallStarts, PostSteps, EnvironmentSteps, GrafanaStutters DEF IInv
  <2>2. MqttInv'
    <3>1. mqtt_pub \/ Publishing \/ mqtt_pub_yield \/ Broker \/ UNCHANGED mqttVars
      BY DEF Next, Daemon, Environment, Yield, influxdb_post_http, NothingRead,
             influxdb_post_http_line, Messages, mqttSendData, RoundEnds, InPost, InPublish, vars
    <3>2. QED
      BY <3>1, MqttSteps DEF IInv
  <2>3. at' \in {"yield", "ping", "query", "line", "mqtt"} /\ messages' \in 0..NumMessages
    BY DEF IInv, Next, Daemon, Environment, Yield, influxdb_post_http, NothingRead,
           influxdb_post_http_line, Messages, mqttSendData, RoundEnds, InPost, InPublish,
           vars, loopVars
  <2>4. QED
    BY <2>1, <2>2, <2>3 DEF IInv
<1>3. QED
  BY <1>1, <1>2, PTL DEF Spec

\* Grafana never stores a line twice, nor the end of one, whatever failed in between.
THEOREM NoDuplicateLine == Spec => []StoredOnceWhole
<1>1. IInv => StoredOnceWhole
  BY DEF IInv, GrafanaInv, LineConsistent
<1>2. QED
  BY <1>1, Invariance, PTL

\* A line is lost only by a failure during its call, or an unnoticed one before.
THEOREM LossNeedsFailure == Spec => LostOnlyByFailure
<1>1. IInv /\ [Next]_vars => [LineReturns /\ ~disturbed' => stored' = 1 /\ result' = "ok"]_grafanaVars
  <2> SUFFICES ASSUME IInv, [Next]_vars, call = "line", call' = "none", ~disturbed'
               PROVE  stored' = 1 /\ result' = "ok"
    BY DEF LineReturns
  <2> USE DEF IInv, GrafanaInv, GrafanaTypeOK
  <2>1. Post
    BY DEF Next, Daemon, Environment, Yield, influxdb_post_http, NothingRead,
           influxdb_post_http_line, Messages, mqttSendData, RoundEnds, InPost, InPublish,
           vars, grafanaVars, Grafana, ServerChange, ConnectionBreaks, BecomeCalm,
           NetworkUnchanged, StartCall, crash
  <2>2. CASE ConnectHttp \/ ConnectWebsocket \/ changeTransportProto \/ AnswerPing
    BY <2>2 DEF ConnectHttp, ConnectWebsocket, changeTransportProto, AnswerPing
  <2>3. CASE ReconnectFails
    BY <2>3 DEF ReconnectFails, UndisturbedLine, Protocols, ghosts
  <2>4. CASE curl_ws_send
    <3>1. ch = "live" /\ left = 1 /\ got + left = Pieces /\ stored = 0
      BY <2>4 DEF curl_ws_send, UndisturbedLine, LineConsistent
    <3>2. QED
      BY <2>4, <3>1 DEF curl_ws_send
  <2>5. CASE curl_ws_send_fails
    <3>1. attempt = 1 /\ Return("-1")
      BY <2>5 DEF curl_ws_send_fails, UndisturbedLine, ghosts
    <3>2. QED
      BY <3>1 DEF Return, PostAgain
  <2>6. CASE curl_easy_perform
    <3>1. "http" \in serves /\ disturbed' = disturbed
      BY <2>6 DEF curl_easy_perform, UndisturbedLine, Protocols
    <3>2. Return("ok") /\ stored' = stored + 1 /\ stored = 0
      BY <2>6, <3>1 DEF curl_easy_perform, LineConsistent
    <3>3. QED
      BY <3>2 DEF Return, PostAgain
  <2>7. QED
    BY <2>1, <2>2, <2>3, <2>4, <2>5, <2>6 DEF Post
<1>2. QED
  BY <1>1, Invariance, PTL DEF Spec, LostOnlyByFailure

\* A message is published exactly once unless the broker or the connection failed.
THEOREM PublishedOnce == Spec => PublishedUnlessFailed
<1>1. IInv /\ [Next]_vars =>
        [Returns /\ ~failed' => handed' = 1 /\ rc' \in {"SUCCESS", "RECONNECTED"}]_mqttVars
  <2> SUFFICES ASSUME IInv, [Next]_vars, mpc # "idle", mpc' = "idle", ~failed'
               PROVE  handed' = 1 /\ rc' \in {"SUCCESS", "RECONNECTED"}
    BY DEF Returns
  <2> USE DEF IInv, MqttInv, MqttTypeOK
  <2>1. Publishing
    BY DEF Next, Daemon, Environment, Yield, influxdb_post_http, NothingRead,
           influxdb_post_http_line, Messages, mqttSendData, RoundEnds, InPost, InPublish,
           vars, mqttVars, Broker, BrokerChange, BecomeReliable, mqtt_pub, mqtt_pub_yield
  <2>2. QED
    BY <2>1 DEF Publishing, publish, mqtt_pub_connect, publishAgain, publishMessage,
                AfterConnect, Return_mqtt, PublishResults
<1>2. QED
  BY <1>1, Invariance, PTL DEF Spec, PublishedUnlessFailed
=============================================================================
