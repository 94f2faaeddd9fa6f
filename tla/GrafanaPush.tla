---------------------------- MODULE GrafanaPush ----------------------------
(***************************************************************************)
(* The Grafana Live client: influxdb_post_http_line and the ping of        *)
(* influxdb_post_http over post_http_send_line, whose transport is a       *)
(* websocket, or http once the first connection has failed.  Its queue     *)
(* holds nothing (influxdb_post_init_grafana asks for 0 entries), so a     *)
(* line is stored by Grafana during the call that posts it or is lost.     *)
(*                                                                         *)
(* Every exchange with the server is a step of its own, a websocket takes  *)
(* a line in up to Pieces of them.  The ping passes no arguments to        *)
(* influxdb_post_http, which reads a field type nevertheless: it is the    *)
(* end mark, illegal, or anything, and the process may crash.              *)
(*                                                                         *)
(* A definition name_variant states a plausible mistake in name; the       *)
(* specification uses none of them, they show that the properties notice.  *)
(***************************************************************************)
EXTENDS Naturals

CONSTANT Pieces   \* curl_ws_send takes a line in so many calls

ASSUME GrafanaAssumption == Pieces \in Nat \ {0}

VARIABLES call,       \* the call under way: "none", "line", "ping" or "pingEnd"
          attempt,    \* 1, or 2 when post_http_send_line is called again
          ch,         \* "none", "http", or a websocket: "live", "broken" since
                      \* the server closed it, "unconnected"
          hostProto,  \* the protocol of c->host
          isWebsocket,
          firstConnectionAttempt,
          left,       \* pieces the send loop still has to send, 0 for a ping
          result,     \* of the last call: "ok", "-1", "curlError", "refused"
          serves,     \* the protocols Grafana can be reached by
          calm,       \* the server and the network work from now on
          got,        \* pieces of the line on the present websocket
          stored,     \* how often Grafana has stored the line of this call
          torn,       \* Grafana got the end of a line without its beginning
          disturbed   \* the server or the network failed during this call

client == <<ch, hostProto, isWebsocket, firstConnectionAttempt>>
ghosts == <<got, stored, torn, disturbed>>
grafanaVars == <<call, attempt, client, left, result, serves, calm, ghosts>>

Protocols == {"ws", "http"}
Websockets == {"live", "broken", "unconnected"}

GrafanaInit ==
    /\ call = "none" /\ attempt = 1 /\ left = 0 /\ result = "ok"
    /\ ch = "none" /\ hostProto \in Protocols
    /\ isWebsocket = FALSE /\ firstConnectionAttempt = TRUE
    /\ serves \in SUBSET Protocols /\ calm = FALSE
    /\ got = 0 /\ stored = 0 /\ torn = FALSE /\ disturbed = FALSE
-----------------------------------------------------------------------------
(***************************************************************************)
(* The calls of the main loop: a line, or the ping of an empty one.        *)
(***************************************************************************)
StartCall(c) ==
    /\ call = "none"
    /\ call' = c /\ attempt' = 1
    /\ left' = IF c = "line" THEN Pieces ELSE 0
    /\ got' = 0 /\ stored' = 0 /\ torn' = FALSE
    /\ disturbed' = (serves # Protocols \/ ch = "broken")
    /\ UNCHANGED <<client, result, serves, calm>>

crash == /\ call = "none" /\ call' = "crashed"
         /\ UNCHANGED <<attempt, client, left, result, serves, calm, ghosts>>

(***************************************************************************)
(* post_http_send_line returns r.  A line is posted again, from its start, *)
(* only after -1; a ping with the end mark after any error.  The buffer is *)
(* freed in any case.                                                      *)
(***************************************************************************)
PostAgain_any(r) == call = "line" /\ r # "ok"
PostAgain_never(r) == call = "pingEnd" /\ r \in {"-1", "curlError"}
PostAgain(r) == \/ call = "line" /\ r = "-1"
                \/ call = "pingEnd" /\ r \in {"-1", "curlError"}
Resume(n) == IF call = "line" THEN Pieces ELSE 0

Return(r) ==
    IF attempt = 1 /\ PostAgain(r)
    THEN attempt' = 2 /\ left' = Resume(left) /\ UNCHANGED <<call, result>>
    ELSE call' = "none" /\ result' = r /\ UNCHANGED <<attempt, left>>

Posting == call \in {"line", "ping", "pingEnd"}
-----------------------------------------------------------------------------
(***************************************************************************)
(* No handle: one is made.  The first websocket that cannot be connected   *)
(* turns the host into an http one for good; a later one leaves a handle   *)
(* that is not connected.                                                  *)
(***************************************************************************)
ConnectHttp ==
    /\ Posting /\ ch = "none" /\ hostProto = "http"
    /\ ch' = "http"
    /\ UNCHANGED <<call, attempt, hostProto, isWebsocket, firstConnectionAttempt,
                   left, result, serves, calm, ghosts>>

ConnectWebsocket ==
    /\ Posting /\ ch = "none" /\ hostProto = "ws"
    /\ "ws" \in serves
    /\ ch' = "live" /\ isWebsocket' = TRUE /\ firstConnectionAttempt' = FALSE
    /\ got' = 0
    /\ UNCHANGED <<call, attempt, hostProto, left, result, serves, calm,
                   stored, torn, disturbed>>

changeTransportProto ==
    /\ Posting /\ ch = "none" /\ hostProto = "ws"
    /\ "ws" \notin serves /\ firstConnectionAttempt
    /\ hostProto' = "http" /\ firstConnectionAttempt' = FALSE
    /\ UNCHANGED <<call, attempt, ch, isWebsocket, left, result, serves, calm, ghosts>>

ReconnectFails ==
    /\ Posting /\ ch = "none" /\ hostProto = "ws"
    /\ "ws" \notin serves /\ ~firstConnectionAttempt
    /\ ch' = "unconnected" /\ isWebsocket' = TRUE
    /\ Return("curlError")
    /\ UNCHANGED <<hostProto, firstConnectionAttempt, serves, calm, ghosts>>
-----------------------------------------------------------------------------
(***************************************************************************)
(* Over a websocket the ping only lets libcurl answer the server's; it has *)
(* no result.                                                              *)
(***************************************************************************)
AnswerPing ==
    /\ call \in {"ping", "pingEnd"} /\ ch # "none"
    /\ Return("ok")
    /\ UNCHANGED <<client, serves, calm, ghosts>>

\* The server has a line when it has all its pieces over one connection.
curl_ws_send ==
    /\ call = "line" /\ ch \in {"live", "broken"} /\ isWebsocket
    /\ left' = left - 1
    /\ IF ch = "live"
       THEN /\ got' = got + 1
            /\ stored' = IF left = 1 /\ got' = Pieces THEN stored + 1 ELSE stored
            /\ torn' = IF left = 1 /\ got' # Pieces THEN TRUE ELSE torn
       ELSE UNCHANGED <<got, stored, torn>>  \* the system has taken it, no more
    /\ IF left = 1 THEN call' = "none" /\ result' = "ok" ELSE UNCHANGED <<call, result>>
    /\ UNCHANGED <<attempt, client, serves, calm, disturbed>>

Cleanup_kept == ch
Cleanup == "none"
curl_ws_send_fails ==
    /\ call = "line" /\ ch \in {"broken", "unconnected"} /\ isWebsocket
    /\ ch' = Cleanup
    /\ Return("-1")
    /\ UNCHANGED <<hostProto, isWebsocket, firstConnectionAttempt, serves, calm, ghosts>>

(***************************************************************************)
(* Over http libcurl connects as it needs; the handle is closed after an   *)
(* error, and stays after an answer that is not 2xx.                       *)
(***************************************************************************)
curl_easy_perform ==
    /\ call = "line" /\ ch = "http"
    /\ \/ /\ "http" \in serves /\ stored' = stored + 1
          /\ Return("ok") /\ UNCHANGED <<ch, disturbed>>
       \/ /\ "http" \in serves /\ ~calm                   \* not 2xx
          /\ Return("refused") /\ disturbed' = TRUE /\ UNCHANGED <<ch, stored>>
       \/ /\ "http" \in serves /\ ~calm /\ ch' = "none"    \* the answer is lost
          /\ stored' = stored + 1
          /\ Return("curlError") /\ disturbed' = TRUE
       \/ /\ "http" \notin serves /\ ch' = "none"
          /\ Return("curlError") /\ UNCHANGED <<stored, disturbed>>
    /\ UNCHANGED <<hostProto, isWebsocket, firstConnectionAttempt, serves, calm, got, torn>>

Post == \/ ConnectHttp \/ ConnectWebsocket \/ changeTransportProto \/ ReconnectFails
        \/ AnswerPing \/ curl_ws_send \/ curl_ws_send_fails \/ curl_easy_perform
-----------------------------------------------------------------------------
(***************************************************************************)
(* Grafana and the network: protocols come and go, connections break; at   *)
(* some time they may become calm.                                         *)
(***************************************************************************)
Break(s) == ch' = IF ch = "live" /\ s THEN "broken" ELSE ch
NetworkUnchanged ==
    UNCHANGED <<call, attempt, hostProto, isWebsocket, firstConnectionAttempt,
                left, result, got, stored, torn>>

ServerChange ==
    /\ ~calm
    /\ serves' \in SUBSET Protocols /\ serves' # serves
    /\ Break("ws" \notin serves') /\ disturbed' = TRUE
    /\ UNCHANGED calm /\ NetworkUnchanged

ConnectionBreaks ==
    /\ ~calm /\ ch = "live"
    /\ Break(TRUE) /\ disturbed' = TRUE
    /\ UNCHANGED <<serves, calm>> /\ NetworkUnchanged

BecomeCalm ==
    /\ ~calm /\ calm' = TRUE
    /\ serves' = Protocols
    /\ UNCHANGED <<ch, disturbed>> /\ NetworkUnchanged

Grafana == ServerChange \/ ConnectionBreaks \/ BecomeCalm
-----------------------------------------------------------------------------
GrafanaFlags ==
    /\ isWebsocket \in BOOLEAN /\ firstConnectionAttempt \in BOOLEAN
    /\ calm \in BOOLEAN /\ torn \in BOOLEAN /\ disturbed \in BOOLEAN
GrafanaTypeOK ==
    /\ GrafanaFlags
    /\ call \in {"none", "line", "ping", "pingEnd", "crashed"} /\ attempt \in {1, 2}
    /\ ch \in {"none", "http"} \cup Websockets /\ hostProto \in Protocols
    /\ left \in 0..Pieces /\ result \in {"ok", "-1", "curlError", "refused"}
    /\ serves \in SUBSET Protocols
    /\ got \in 0..Pieces /\ stored \in Nat

(***************************************************************************)
(* Posting again never makes Grafana store a line twice or the end of a    *)
(* line only, whichever send of the first attempt failed: -1 is returned   *)
(* only by a websocket on which the line was not finished.                 *)
(***************************************************************************)
StoredOnceWhole == stored <= 1 /\ ~torn

(***************************************************************************)
(* A line is lost only by a failure of the server or the network during    *)
(* its call, or by one that broke the websocket before and was not noticed *)
(* yet: a handle that an earlier call has left unconnected, or a host that *)
(* was turned into an http one, loses nothing.                             *)
(***************************************************************************)
LineReturns == call = "line" /\ call' = "none"
LostOnlyByFailure ==
    [][LineReturns /\ ~disturbed' => stored' = 1 /\ result' = "ok"]_grafanaVars

(***************************************************************************)
(* The inductive invariant.  The transport: a handle of a websocket and    *)
(* only such a one is used as one, and a host that became an http one      *)
(* never has a websocket.  The line: Grafana has those pieces that are not *)
(* left, and a call that is not disturbed meets no broken handle.          *)
(***************************************************************************)
TransportConsistent ==
    /\ ch \in Websockets => isWebsocket
    /\ ch = "http" => ~isWebsocket /\ hostProto = "http"
    /\ isWebsocket => hostProto = "ws" /\ ~firstConnectionAttempt
LineConsistent ==
    /\ StoredOnceWhole
    /\ call = "line" => /\ stored = 0 /\ left > 0
                        /\ ch = "live" => got + left = Pieces
                        /\ ch \notin {"live", "broken"} => left = Pieces
UndisturbedLine ==
    call = "line" /\ ~disturbed =>
        /\ serves = Protocols /\ ch # "broken"
        /\ attempt = 2 => ch # "unconnected"
GrafanaInv == GrafanaTypeOK /\ TransportConsistent /\ LineConsistent /\ UndisturbedLine
=============================================================================
