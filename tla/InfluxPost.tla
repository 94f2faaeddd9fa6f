----------------------------- MODULE InfluxPost -----------------------------
(***************************************************************************)
(* The InfluxDB client of influxdb-post/influxdb-post.c as the daemon uses *)
(* it over HTTP: influxdb_post_http_line posts the line the poll loop has  *)
(* built, addToQueue keeps it when the server cannot be reached,           *)
(* influxdb_deQueue posts the backlog after a successful post and          *)
(* influxdb_post_deInit does so when the daemon ends.                      *)
(*                                                                         *)
(* Every HTTP exchange is a step of its own, so the server can change      *)
(* between the posts of one call.  The result of an exchange is one of     *)
(*   ok        2xx, the server has stored the line                         *)
(*   refused   200..499 but not 2xx                                        *)
(*   failed    a status below 200 or from 500 up                           *)
(*   curlError libcurl reports an error, the handle is closed              *)
(* After failed and curlError the server may have stored the line.         *)
(*                                                                         *)
(* The result -1, upon which influxdb_post_http_line posts again, comes    *)
(* from a websocket only, that of Grafana: c->isWebsocket is set nowhere   *)
(* for the client modelled here.                                           *)
(*                                                                         *)
(* A definition name_variant states a plausible mistake in name; the       *)
(* specification uses none of them, they show that the properties notice.  *)
(***************************************************************************)
EXTENDS Naturals, Sequences, FiniteSets

CONSTANTS Lines,          \* the posts the poll loop can build; one is built
                          \* again only after it has left the client
          NoLine,         \* influxBuf = NULL
          MaxQueue,       \* maxNumEntriesToQueue
          DequeueAtOnce,  \* INFLUX_DEQUEUE_AT_ONCE
          Malformed       \* lines a reachable server answers with 4xx

ASSUME ConstantsAssumption ==
    /\ NoLine \notin Lines
    /\ MaxQueue \in Nat
    /\ DequeueAtOnce \in Nat \ {0}
    /\ Malformed \subseteq Lines

VARIABLES pc,               \* where the thread is: the poll loop or a client call
          influxBuf,        \* the line under construction or being posted
          queue,            \* the list at firstEntry, oldest entry first
          numEntriesQueued,
          numDequeued,      \* the local counter of influxdb_deQueue
          ch,               \* c->ch # NULL
          res,              \* the result of the last exchange
          server,           \* what the server does with a post
          copies,           \* how often it stored a line: 0, 1, 2 = more
          refused,          \* the lines it answered with refused
          replyLost         \* lines stored by an exchange that reported an error

client == <<influxBuf, queue, numEntriesQueued, numDequeued, ch, res>>
ghosts == <<copies, refused, replyLost>>
vars == <<pc, client, server, ghosts>>

Servers == {"up", "refusing", "failing", "down"}
Results == {"ok", "refused", "failed", "curlError"}
Unsent == {"failed", "curlError"}
Queued == {queue[i] : i \in 1..Len(queue)}

Init == /\ pc = "main"
        /\ influxBuf = NoLine
        /\ queue = <<>>
        /\ numEntriesQueued = 0
        /\ numDequeued = 0
        /\ ch = FALSE
        /\ res = "ok"
        /\ server \in Servers
        /\ copies = [l \in Lines |-> 0]
        /\ refused = {}
        /\ replyLost = {}
-----------------------------------------------------------------------------
Answer(l) == CASE server = "up"       -> IF l \in Malformed THEN "refused" ELSE "ok"
               [] server = "refusing" -> "refused"
               [] server = "failing"  -> "failed"
               [] server = "down"     -> "curlError"

Store(l) == copies' = [copies EXCEPT ![l] = IF @ = 0 THEN 1 ELSE 2]

(***************************************************************************)
(* One exchange for line l: the handle is created when there is none and   *)
(* closed by an error of libcurl, whatever the server says keeps it.       *)
(***************************************************************************)
post_http_send_line(l) ==
    /\ res' = Answer(l)
    /\ ch' = (res' # "curlError")
    /\ refused' = IF res' = "refused" THEN refused \cup {l} ELSE refused
    /\ \/ res' = "ok" /\ Store(l) /\ UNCHANGED replyLost
       \/ res' \in Unsent /\ l \notin Malformed
          /\ Store(l) /\ replyLost' = replyLost \cup {l}
       \/ res' # "ok" /\ UNCHANGED <<copies, replyLost>>

\* The buffer was freed or has become an entry of the queue.
freeBuffer_kept == influxBuf' = influxBuf
freeBuffer == influxBuf' = NoLine

HasRoom == numEntriesQueued < MaxQueue

(***************************************************************************)
(* The entry takes the buffer over; with the queue full it returns -2 and  *)
(* the caller frees the buffer: the line posted last is the one lost.      *)
(***************************************************************************)
addToQueue_first ==
    IF HasRoom
    THEN queue' = <<influxBuf>> \o queue /\ numEntriesQueued' = numEntriesQueued + 1
    ELSE UNCHANGED <<queue, numEntriesQueued>>
addToQueue ==
    IF HasRoom
    THEN /\ queue' = Append(queue, influxBuf)
         /\ numEntriesQueued' = numEntriesQueued + 1
    ELSE UNCHANGED <<queue, numEntriesQueued>>

\* The poll loop hands a line over.
Post(l) ==
    /\ pc = "main"
    /\ l \notin Queued
    /\ pc' = "post"
    /\ influxBuf' = l
    /\ copies' = [copies EXCEPT ![l] = 0]
    /\ refused' = refused \ {l}
    /\ replyLost' = replyLost \ {l}
    /\ UNCHANGED <<queue, numEntriesQueued, numDequeued, ch, res, server>>

\* A post that was not queued is followed by influxdb_deQueue, which has
\* something to do when there are entries.
AfterPost_noDeQueue == "main"
AfterPost == IF numEntriesQueued > 0 THEN "deQueue" ELSE "main"

influxdb_post_http_line ==
    /\ pc = "post"
    /\ post_http_send_line(influxBuf)
    /\ freeBuffer
    /\ IF res' \in Unsent
       THEN /\ addToQueue
            /\ pc' = "main"
            /\ UNCHANGED numDequeued
       ELSE /\ pc' = AfterPost
            /\ numDequeued' = 0
            /\ UNCHANGED <<queue, numEntriesQueued>>
    /\ UNCHANGED server

\* The body of the loop in influxdb_deQueue: post the oldest entry.
PostOldest_notUnlinked ==
    /\ post_http_send_line(Head(queue))
    /\ UNCHANGED <<queue, numEntriesQueued, influxBuf, server>>
PostOldest ==
    /\ post_http_send_line(Head(queue))
    /\ IF res' = "ok"
       THEN /\ queue' = Tail(queue)
            /\ numEntriesQueued' = numEntriesQueued - 1
       ELSE UNCHANGED <<queue, numEntriesQueued>>
    /\ UNCHANGED <<influxBuf, server>>

MoreToDequeue == res' = "ok" /\ numEntriesQueued' > 0

influxdb_deQueue ==
    /\ pc = "deQueue"
    /\ PostOldest
    /\ numDequeued' = IF res' = "ok" THEN numDequeued + 1 ELSE numDequeued
    /\ pc' = IF MoreToDequeue /\ numDequeued' < DequeueAtOnce
             THEN "deQueue" ELSE "main"

\* The main loop ends and influxdb_post_free calls influxdb_post_deInit.
Terminate ==
    /\ pc = "main"
    /\ pc' = IF numEntriesQueued > 0 THEN "deInit" ELSE "freed"
    /\ numDequeued' = 0
    /\ UNCHANGED <<influxBuf, queue, numEntriesQueued, ch, res, server, ghosts>>

DeInitGoesOn_onFailure == numEntriesQueued' > 0
DeInitGoesOn == MoreToDequeue

(***************************************************************************)
(* influxdb_post_deInit calls influxdb_deQueue as long as that posts       *)
(* something: every full batch is followed by another call, a failure      *)
(* (-1) or an empty queue (0) ends the loop.                               *)
(***************************************************************************)
influxdb_post_deInit ==
    /\ pc = "deInit"
    /\ PostOldest
    /\ numDequeued' = IF res' = "ok" /\ numDequeued + 1 < DequeueAtOnce
                      THEN numDequeued + 1 ELSE 0
    /\ pc' = IF DeInitGoesOn THEN "deInit" ELSE "freed"

\* The server and the network between it and the daemon.
ServerChange ==
    /\ server' \in Servers \ {server}
    /\ UNCHANGED <<pc, client, ghosts>>

Next == \/ \E l \in Lines : Post(l)
        \/ influxdb_post_http_line
        \/ influxdb_deQueue
        \/ Terminate
        \/ influxdb_post_deInit
        \/ ServerChange

Spec == Init /\ [][Next]_vars

(***************************************************************************)
(* The poll loop keeps posting until it is told to end, and a call of the  *)
(* client goes on by itself: every exchange ends, since libcurl returns.   *)
(***************************************************************************)
Fairness == /\ WF_vars(\E l \in Lines : Post(l))
            /\ WF_vars(influxdb_post_http_line)
            /\ WF_vars(influxdb_deQueue)
            /\ WF_vars(influxdb_post_deInit)

FairSpec == Spec /\ Fairness
-----------------------------------------------------------------------------
TypeOK == /\ pc \in {"main", "post", "deQueue", "deInit", "freed"}
          /\ influxBuf \in Lines \cup {NoLine}
          /\ queue \in Seq(Lines)
          /\ numEntriesQueued \in 0..MaxQueue
          /\ numDequeued \in 0..DequeueAtOnce
          /\ ch \in BOOLEAN
          /\ res \in Results
          /\ server \in Servers
          /\ copies \in [Lines -> 0..2]
          /\ refused \in SUBSET Lines
          /\ replyLost \in SUBSET Lines

\* A client call that posts the oldest entry finds one: influxdb_deQueue reads
\* c->firstEntry without a test of its own.
EntryToPost == (pc \in {"deQueue", "deInit"}) => queue # <<>>

\* Every buffer has one owner: influxBuf or one entry of the queue.  (addToQueue
\* moves the pointer; a second owner would be freed twice.)
OneOwner == /\ influxBuf \notin Queued
            /\ \A i, j \in 1..Len(queue) : queue[i] = queue[j] => i = j

(***************************************************************************)
(* The server stores a line at most once, unless it stored it and the      *)
(* answer was lost: influxdb_post_http_line and influxdb_deQueue never     *)
(* post again what was answered 2xx, over any number of outages.           *)
(***************************************************************************)
NoDuplicate == \A l \in Lines : copies[l] = 2 => l \in replyLost

(***************************************************************************)
(* Between posts a backlog is left over for one of two reasons: the last   *)
(* exchange was no success, or influxdb_deQueue has sent a full batch.     *)
(* (The backlog is posted only after a new line, so whatever is left       *)
(* waits for the next poll.)                                               *)
(***************************************************************************)
BacklogExplained ==
    pc = "main" /\ res = "ok" /\ queue # <<>> => numDequeued = DequeueAtOnce

(***************************************************************************)
(* influxdb_post_free gives a backlog up only when posting it has failed:  *)
(* a backlog longer than a batch is flushed batch after batch.             *)
(***************************************************************************)
FlushedAtShutdown == pc = "freed" /\ res = "ok" => queue = <<>>

(***************************************************************************)
(* The inductive invariant.  CountIsLength: the counter that bounds the    *)
(* queue and ends the loops of influxdb_deQueue is the length of the list. *)
(* BufferInHand: a buffer is in hand exactly while it is posted.           *)
(* BatchOpen: within a batch there is room for another post.  NotAnswered: *)
(* no line still held was answered 2xx.                                    *)
(***************************************************************************)
CountIsLength == numEntriesQueued = Len(queue)
BufferInHand == (influxBuf # NoLine) <=> (pc = "post")
BatchOpen == pc = "deQueue" => numDequeued < DequeueAtOnce
NotAnswered ==
    \A l \in Lines : l \in Queued \cup {influxBuf} /\ copies[l] > 0 => l \in replyLost

IInv == /\ TypeOK
        /\ CountIsLength /\ BufferInHand /\ BatchOpen
        /\ EntryToPost /\ OneOwner
        /\ NotAnswered /\ NoDuplicate
        /\ BacklogExplained /\ FlushedAtShutdown

(***************************************************************************)
(* The promise of the cache (LineCache): bounded, first-in first-out, an   *)
(* entry leaves it only when the server stores it, a line is discarded     *)
(* only when it is full.                                                   *)
(***************************************************************************)
Stored == {l \in Lines : copies[l] > 0}

Cache == INSTANCE LineCache
         WITH fresh <- influxBuf, pending <- queue, Capacity <- MaxQueue,
              stored <- Stored, open <- (pc # "freed")
ImplementsCache == Cache!Spec

(***************************************************************************)
(* Once the server stays up the backlog is empty again and again: the      *)
(* entries will be posted after the server is reachable again.             *)
(***************************************************************************)
BacklogDrains ==
    <>[](server = "up") => []<>(queue = <<>> \/ pc = "freed")

(***************************************************************************)
(* Shutting down ends whatever the server does: each round of              *)
(* influxdb_post_deInit makes the queue shorter or is the last one.        *)
(***************************************************************************)
ShutdownEnds == pc = "deInit" ~> pc = "freed"
=============================================================================
