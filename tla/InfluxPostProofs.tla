-------------------------- MODULE InfluxPostProofs --------------------------
(***************************************************************************)
(* Theorems about the InfluxDB client, for every set of lines, every queue *)
(* size and every batch size: the inductive invariant of InfluxPost, the   *)
(* safety properties it implies, and the refinement of LineCache.          *)
(***************************************************************************)
EXTENDS InfluxPost, TLAPS

(***************************************************************************)
(* Lemmas on the two list operations of the client, appending an entry at  *)
(* the tail and unlinking the first one.                                   *)
(***************************************************************************)

\* Appending a value that is not in a sequence without duplicates.
LEMMA AppendFresh ==
    ASSUME NEW S, NEW s \in Seq(S), NEW x \in S,
           x \notin {s[i] : i \in 1..Len(s)},
           \A i, j \in 1..Len(s) : s[i] = s[j] => i = j
    PROVE  /\ Append(s, x) \in Seq(S)
           /\ Len(Append(s, x)) = Len(s) + 1
           /\ {Append(s, x)[i] : i \in 1..Len(Append(s, x))}
                = {s[i] : i \in 1..Len(s)} \cup {x}
           /\ \A i, j \in 1..Len(Append(s, x)) :
                 Append(s, x)[i] = Append(s, x)[j] => i = j
<1> DEFINE t == Append(s, x)
<1>1. t \in Seq(S) /\ Len(t) = Len(s) + 1
  OBVIOUS
<1>2. \A i \in 1..Len(s) : t[i] = s[i]
  OBVIOUS
<1>3. t[Len(s) + 1] = x
  OBVIOUS
<1>4. Len(s) \in Nat
  OBVIOUS
<1> HIDE DEF t
<1>5. {t[i] : i \in 1..Len(t)} = {s[i] : i \in 1..Len(s)} \cup {x}
  BY <1>1, <1>2, <1>3, <1>4
<1>6. \A i, j \in 1..Len(t) : t[i] = t[j] => i = j
  BY <1>1, <1>2, <1>3, <1>4
<1>7. QED
  BY <1>1, <1>5, <1>6 DEF t

\* Unlinking the first element of a sequence without duplicates.
LEMMA TailDistinct ==
    ASSUME NEW S, NEW s \in Seq(S), s # <<>>,
           \A i, j \in 1..Len(s) : s[i] = s[j] => i = j
    PROVE  /\ Tail(s) \in Seq(S)
           /\ Len(Tail(s)) = Len(s) - 1
           /\ Head(s) \in S
           /\ {s[i] : i \in 1..Len(s)}
                = {Tail(s)[i] : i \in 1..Len(Tail(s))} \cup {Head(s)}
           /\ Head(s) \notin {Tail(s)[i] : i \in 1..Len(Tail(s))}
           /\ \A i, j \in 1..Len(Tail(s)) : Tail(s)[i] = Tail(s)[j] => i = j
<1> DEFINE t == Tail(s)
<1>1. t \in Seq(S) /\ Len(t) = Len(s) - 1 /\ Len(s) \in Nat \ {0}
  OBVIOUS
<1>2. \A i \in 1..Len(t) : t[i] = s[i + 1]
  OBVIOUS
<1>3. Head(s) = s[1] /\ Head(s) \in S
  OBVIOUS
<1> HIDE DEF t
<1>4. \A i \in 1..Len(s) : i = 1 \/ (i - 1 \in 1..Len(t) /\ t[i - 1] = s[i])
  BY <1>1, <1>2
<1>5. {s[i] : i \in 1..Len(s)} = {t[i] : i \in 1..Len(t)} \cup {Head(s)}
  <2>1. ASSUME NEW i \in 1..Len(s)
        PROVE  s[i] \in {t[j] : j \in 1..Len(t)} \cup {Head(s)}
    <3>1. CASE i = 1
      BY <1>3, <3>1
    <3>2. CASE i - 1 \in 1..Len(t) /\ t[i - 1] = s[i]
      BY <3>2
    <3>3. QED
      BY <1>4, <3>1, <3>2
  <2>2. ASSUME NEW j \in 1..Len(t)
        PROVE  t[j] \in {s[i] : i \in 1..Len(s)}
    <3>1. j + 1 \in 1..Len(s)
      BY <1>1
    <3>2. QED
      BY <1>2, <3>1
  <2>3. Head(s) \in {s[i] : i \in 1..Len(s)}
    <3>1. 1 \in 1..Len(s)
      BY <1>1
    <3>2. QED
      BY <1>3, <3>1
  <2>4. QED
    BY <2>1, <2>2, <2>3
<1>6. Head(s) \notin {t[i] : i \in 1..Len(t)}
  BY <1>1, <1>2, <1>3
<1>7. \A i, j \in 1..Len(t) : t[i] = t[j] => i = j
  BY <1>1, <1>2
<1>8. QED
  BY <1>1, <1>3, <1>5, <1>6, <1>7 DEF t

-----------------------------------------------------------------------------
(***************************************************************************)
(* One exchange for a line that was not answered 2xx before keeps the      *)
(* types and NoDuplicate, touches the copies of that line alone, and       *)
(* leaves the line unanswered unless its result is ok.                     *)
(***************************************************************************)
LEMMA ExchangeFacts ==
    ASSUME TypeOK, NoDuplicate, NEW l \in Lines, post_http_send_line(l),
           copies[l] > 0 => l \in replyLost
    PROVE  /\ res' \in Results /\ ch' \in BOOLEAN
           /\ refused' \in SUBSET Lines /\ replyLost' \in SUBSET Lines
           /\ copies' \in [Lines -> 0..2]
           /\ NoDuplicate'
           /\ \A m \in Lines \ {l} : copies'[m] = copies[m]
           /\ replyLost \subseteq replyLost'
           /\ res' # "ok" => (copies'[l] > 0 => l \in replyLost')
<1>1. res' \in Results
  BY DEF post_http_send_line, Answer, TypeOK, Servers, Results
<1>2. ch' \in BOOLEAN /\ refused' \in SUBSET Lines
  BY DEF post_http_send_line, TypeOK
<1>3. CASE res' = "ok" /\ Store(l) /\ UNCHANGED replyLost
  BY <1>1, <1>2, <1>3 DEF Store, TypeOK, NoDuplicate
<1>4. CASE res' \in Unsent /\ Store(l) /\ replyLost' = replyLost \cup {l}
  BY <1>1, <1>2, <1>4 DEF Store, TypeOK, NoDuplicate
<1>5. CASE res' # "ok" /\ UNCHANGED <<copies, replyLost>>
  BY <1>1, <1>2, <1>5 DEF TypeOK, NoDuplicate
<1>6. QED
  BY <1>3, <1>4, <1>5 DEF post_http_send_line

(***************************************************************************)
(* Posting the oldest entry: what influxdb_deQueue and                     *)
(* influxdb_post_deInit have in common.                                    *)
(***************************************************************************)
LEMMA PostOldestFacts ==
    ASSUME IInv, pc \in {"deQueue", "deInit"}, PostOldest
    PROVE  /\ influxBuf' = NoLine /\ server' \in Servers
           /\ queue' \in Seq(Lines)
           /\ numEntriesQueued' \in 0..MaxQueue
           /\ res' \in Results /\ ch' \in BOOLEAN
           /\ refused' \in SUBSET Lines /\ replyLost' \in SUBSET Lines
           /\ copies' \in [Lines -> 0..2]
           /\ CountIsLength' /\ OneOwner' /\ NotAnswered' /\ NoDuplicate'
           /\ MoreToDequeue => queue' # <<>>
           /\ ~MoreToDequeue => res' # "ok" \/ queue' = <<>>
<1> DEFINE h == Head(queue)
<1>1. queue # <<>> /\ queue \in Seq(Lines) /\ influxBuf = NoLine
  BY DEF IInv, EntryToPost, BufferInHand, TypeOK
<1>2. \A i, j \in 1..Len(queue) : queue[i] = queue[j] => i = j
  BY DEF IInv, OneOwner
<1>3. /\ Tail(queue) \in Seq(Lines)
      /\ Len(Tail(queue)) = Len(queue) - 1
      /\ h \in Lines
      /\ Queued = {Tail(queue)[i] : i \in 1..Len(Tail(queue))} \cup {h}
      /\ h \notin {Tail(queue)[i] : i \in 1..Len(Tail(queue))}
      /\ \A i, j \in 1..Len(Tail(queue)) : Tail(queue)[i] = Tail(queue)[j] => i = j
  BY <1>1, <1>2, TailDistinct DEF Queued
<1>4. copies[h] > 0 => h \in replyLost
  BY <1>3 DEF IInv, NotAnswered
<1>5. post_http_send_line(h) /\ UNCHANGED <<influxBuf, server>>
  BY DEF PostOldest
<1>6. /\ res' \in Results /\ ch' \in BOOLEAN
      /\ refused' \in SUBSET Lines /\ replyLost' \in SUBSET Lines
      /\ copies' \in [Lines -> 0..2]
      /\ NoDuplicate'
      /\ \A m \in Lines \ {h} : copies'[m] = copies[m]
      /\ replyLost \subseteq replyLost'
      /\ res' # "ok" => (copies'[h] > 0 => h \in replyLost')
  BY <1>3, <1>4, <1>5, ExchangeFacts DEF IInv
<1>7. Len(queue) \in Nat /\ numEntriesQueued = Len(queue)
      /\ numEntriesQueued \in 0..MaxQueue /\ Len(queue) # 0
  BY <1>1 DEF IInv, CountIsLength, TypeOK
<1>8. influxBuf' = NoLine /\ server' \in Servers
  BY <1>1, <1>5 DEF IInv, TypeOK
<1>9. CASE res' = "ok"
  <2>1. queue' = Tail(queue) /\ numEntriesQueued' = numEntriesQueued - 1
    BY <1>9 DEF PostOldest
  <2>2. Queued' = {Tail(queue)[i] : i \in 1..Len(Tail(queue))}
    BY <2>1 DEF Queued
  <2>3. queue' \in Seq(Lines) /\ numEntriesQueued' \in 0..MaxQueue /\ CountIsLength'
    BY <1>3, <1>7, <2>1, ConstantsAssumption DEF CountIsLength
  <2>4. h \notin Queued' /\ Queued' \subseteq Queued /\ Queued' \subseteq Lines
    <3>1. h \notin Queued' /\ Queued' \subseteq Queued
      BY <1>3, <2>2
    <3>2. Queued \subseteq Lines
      BY <1>1 DEF Queued
    <3>3. QED
      BY <3>1, <3>2
  <2>5. OneOwner'
    BY <1>3, <1>8, <2>1, <2>4, ConstantsAssumption DEF OneOwner
  <2>6. NotAnswered'
    BY <1>6, <1>8, <2>4, ConstantsAssumption DEF IInv, NotAnswered
  <2>7. MoreToDequeue => queue' # <<>>
    <3>1. MoreToDequeue => Len(queue') > 0
      BY <2>3 DEF MoreToDequeue, CountIsLength
    <3>2. Len(<<>>) = 0
      OBVIOUS
    <3>3. QED
      BY <3>1, <3>2
  <2>8. ~MoreToDequeue => queue' = <<>>
    BY <1>3, <1>7, <1>9, <2>1, <2>3 DEF MoreToDequeue, CountIsLength
  <2>9. QED
    BY <1>6, <1>8, <2>3, <2>5, <2>6, <2>7, <2>8
<1>10. CASE res' # "ok"
  <2>1. UNCHANGED <<queue, numEntriesQueued>>
    BY <1>10 DEF PostOldest
  <2>2. Queued' = Queued
    BY <2>1 DEF Queued
  <2>3. CountIsLength' /\ OneOwner'
    BY <1>5, <2>1, <2>2 DEF IInv, CountIsLength, OneOwner
  <2>4. NotAnswered'
    BY <1>5, <1>6, <1>10, <2>2 DEF IInv, NotAnswered
  <2>5. QED
    BY <1>1, <1>6, <1>7, <1>8, <1>10, <2>1, <2>3, <2>4 DEF MoreToDequeue
<1>11. QED
  BY <1>9, <1>10

-----------------------------------------------------------------------------
\* The initial states satisfy the inductive invariant.
LEMMA InitIInv == Init => IInv
<1> SUFFICES ASSUME Init PROVE IInv
  OBVIOUS
<1>1. TypeOK
  <2>1. queue \in Seq(Lines) /\ 0 \in 0..MaxQueue /\ 0 \in 0..DequeueAtOnce
    BY ConstantsAssumption DEF Init
  <2>2. copies \in [Lines -> 0..2]
    BY DEF Init
  <2>3. QED
    BY <2>1, <2>2 DEF Init, TypeOK, Results
<1>2. Queued = {} /\ Len(queue) = 0
  BY DEF Init, Queued
<1>3. CountIsLength /\ BufferInHand /\ BatchOpen /\ EntryToPost /\ OneOwner
  BY <1>2 DEF Init, CountIsLength, BufferInHand, BatchOpen, EntryToPost, OneOwner
<1>4. NotAnswered /\ NoDuplicate /\ BacklogExplained /\ FlushedAtShutdown
  BY DEF Init, NotAnswered, NoDuplicate, BacklogExplained, FlushedAtShutdown
<1>5. QED
  BY <1>1, <1>3, <1>4 DEF IInv

(***************************************************************************)
(* Every step keeps the inductive invariant: one step of the proof for     *)
(* each action of the client, and for the server.                          *)
(***************************************************************************)
LEMMA NextIInv == IInv /\ [Next]_vars => IInv'
<1> SUFFICES ASSUME IInv, [Next]_vars PROVE IInv'
  OBVIOUS
<1>1. ASSUME NEW l \in Lines, Post(l) PROVE IInv'
  <2>1. UNCHANGED <<queue, numEntriesQueued, numDequeued, ch, res, server>> /\ Queued' = Queued
    BY <1>1 DEF Post, Queued
  <2>2. TypeOK'
    BY <1>1 DEF IInv, TypeOK, Post
  <2>3. CountIsLength' /\ BufferInHand' /\ BatchOpen' /\ EntryToPost'
    BY <1>1, <2>1, ConstantsAssumption
       DEF IInv, Post, CountIsLength, BufferInHand, BatchOpen, EntryToPost
  <2>4. OneOwner'
    BY <1>1, <2>1 DEF IInv, Post, OneOwner
  <2>5. NotAnswered' /\ NoDuplicate'
    BY <1>1, <2>1 DEF IInv, Post, TypeOK, NotAnswered, NoDuplicate
  <2>6. BacklogExplained' /\ FlushedAtShutdown'
    BY <1>1 DEF Post, BacklogExplained, FlushedAtShutdown
  <2>7. QED
    BY <2>2, <2>3, <2>4, <2>5, <2>6 DEF IInv
<1>2. ASSUME influxdb_post_http_line PROVE IInv'
  <2> DEFINE b == influxBuf
  <2>1. /\ b \in Lines /\ b \notin Queued
        /\ copies[b] > 0 => b \in replyLost
        /\ queue \in Seq(Lines) /\ Queued \subseteq Lines
        /\ \A i, j \in 1..Len(queue) : queue[i] = queue[j] => i = j
        /\ numEntriesQueued = Len(queue) /\ numEntriesQueued \in 0..MaxQueue
    <3>1. b \in Lines
      BY <1>2 DEF IInv, TypeOK, BufferInHand, influxdb_post_http_line
    <3>2. queue \in Seq(Lines) /\ Queued \subseteq Lines
      BY DEF IInv, TypeOK, Queued
    <3>3. QED
      BY <3>1, <3>2 DEF IInv, TypeOK, OneOwner, NotAnswered, CountIsLength
  <2>2. /\ res' \in Results /\ ch' \in BOOLEAN
        /\ refused' \in SUBSET Lines /\ replyLost' \in SUBSET Lines
        /\ copies' \in [Lines -> 0..2]
        /\ NoDuplicate'
        /\ \A m \in Lines \ {b} : copies'[m] = copies[m]
        /\ replyLost \subseteq replyLost'
        /\ res' # "ok" => (copies'[b] > 0 => b \in replyLost')
    BY <1>2, <2>1, ExchangeFacts DEF IInv, influxdb_post_http_line
  <2>3. influxBuf' = NoLine /\ server' \in Servers
    BY <1>2 DEF influxdb_post_http_line, freeBuffer, IInv, TypeOK
  <2>4. CASE res' \in Unsent /\ numEntriesQueued < MaxQueue
    <3>1. /\ queue' = Append(queue, b)
          /\ numEntriesQueued' = numEntriesQueued + 1
          /\ pc' = "main" /\ numDequeued' = numDequeued
      BY <1>2, <2>4 DEF influxdb_post_http_line, addToQueue, HasRoom, AfterPost
    <3>2. /\ queue' \in Seq(Lines)
          /\ Len(queue') = Len(queue) + 1
          /\ Queued' = Queued \cup {b}
          /\ \A i, j \in 1..Len(queue') : queue'[i] = queue'[j] => i = j
      BY <2>1, <3>1, AppendFresh DEF Queued
    <3>3. TypeOK'
      BY <2>1, <2>2, <2>3, <2>4, <3>1, <3>2, ConstantsAssumption DEF IInv, TypeOK
    <3>4. CountIsLength' /\ BufferInHand' /\ BatchOpen' /\ EntryToPost'
      BY <2>1, <2>3, <3>1, <3>2
         DEF CountIsLength, BufferInHand, BatchOpen, EntryToPost
    <3>5. OneOwner'
      BY <2>1, <2>3, <3>2, ConstantsAssumption DEF OneOwner
    <3>6. NotAnswered'
      BY <2>1, <2>2, <2>3, <2>4, <3>2, ConstantsAssumption DEF IInv, NotAnswered, Unsent
    <3>7. BacklogExplained' /\ FlushedAtShutdown'
      BY <2>4, <3>1 DEF BacklogExplained, FlushedAtShutdown, Unsent
    <3>8. QED
      BY <2>2, <3>3, <3>4, <3>5, <3>6, <3>7 DEF IInv
  <2>5. CASE ~(res' \in Unsent /\ numEntriesQueued < MaxQueue)
    <3>1. /\ UNCHANGED <<queue, numEntriesQueued>>
          /\ \/ /\ res' \in Unsent /\ pc' = "main" /\ numDequeued' = numDequeued
             \/ /\ res' \notin Unsent /\ numDequeued' = 0
                /\ pc' = IF numEntriesQueued > 0 THEN "deQueue" ELSE "main"
      BY <1>2, <2>5 DEF influxdb_post_http_line, addToQueue, HasRoom, AfterPost
    <3>2. Queued' = Queued
      BY <3>1 DEF Queued
    <3>3. TypeOK'
      BY <2>1, <2>2, <2>3, <3>1, ConstantsAssumption DEF IInv, TypeOK
    <3>4. CountIsLength' /\ BufferInHand' /\ BatchOpen'
      BY <2>1, <2>3, <3>1, ConstantsAssumption
         DEF CountIsLength, BufferInHand, BatchOpen
    <3>5. EntryToPost'
      <4>1. Len(<<>>) = 0
        OBVIOUS
      <4>2. QED
        BY <2>1, <3>1, <4>1 DEF EntryToPost
    <3>6. OneOwner'
      BY <2>1, <2>3, <3>1, <3>2, ConstantsAssumption DEF OneOwner
    <3>7. NotAnswered'
      BY <2>1, <2>2, <2>3, <3>2, ConstantsAssumption DEF IInv, NotAnswered
    <3>8. BacklogExplained' /\ FlushedAtShutdown'
      <4>1. numEntriesQueued = 0 => queue = <<>>
        <5>1. Len(queue) = 0 <=> queue = <<>>
          BY <2>1
        <5>2. QED
          BY <2>1, <5>1
      <4>2. QED
        BY <2>1, <3>1, <4>1 DEF BacklogExplained, FlushedAtShutdown, Unsent
    <3>9. QED
      BY <2>2, <3>3, <3>4, <3>5, <3>6, <3>7, <3>8 DEF IInv
  <2>6. QED
    BY <2>4, <2>5
<1>3. ASSUME influxdb_deQueue PROVE IInv'
  <2>1. /\ influxBuf' = NoLine /\ server' \in Servers
        /\ queue' \in Seq(Lines)
        /\ numEntriesQueued' \in 0..MaxQueue
        /\ res' \in Results /\ ch' \in BOOLEAN
        /\ refused' \in SUBSET Lines /\ replyLost' \in SUBSET Lines
        /\ copies' \in [Lines -> 0..2]
        /\ CountIsLength' /\ OneOwner' /\ NotAnswered' /\ NoDuplicate'
        /\ MoreToDequeue => queue' # <<>>
        /\ ~MoreToDequeue => res' # "ok" \/ queue' = <<>>
    BY <1>3, PostOldestFacts DEF influxdb_deQueue
  <2>2. /\ numDequeued \in Nat /\ numDequeued < DequeueAtOnce
        /\ numDequeued' = IF res' = "ok" THEN numDequeued + 1 ELSE numDequeued
        /\ pc' = IF MoreToDequeue /\ numDequeued' < DequeueAtOnce
                 THEN "deQueue" ELSE "main"
    BY <1>3, ConstantsAssumption DEF influxdb_deQueue, IInv, BatchOpen, TypeOK
  <2>3. TypeOK'
    BY <2>1, <2>2, ConstantsAssumption DEF TypeOK
  <2>4. BufferInHand' /\ BatchOpen' /\ EntryToPost'
    BY <2>1, <2>2 DEF BufferInHand, BatchOpen, EntryToPost
  <2>5. BacklogExplained' /\ FlushedAtShutdown'
    BY <2>1, <2>2, <2>3, ConstantsAssumption
       DEF BacklogExplained, FlushedAtShutdown, TypeOK
  <2>6. QED
    BY <2>1, <2>3, <2>4, <2>5 DEF IInv
<1>4. ASSUME Terminate PROVE IInv'
  <2>1. UNCHANGED <<influxBuf, queue, numEntriesQueued, ch, res, server, ghosts>>
        /\ pc = "main" /\ numDequeued' = 0
        /\ pc' = IF numEntriesQueued > 0 THEN "deInit" ELSE "freed"
    BY <1>4 DEF Terminate
  <2>2. Queued' = Queued
    BY <2>1 DEF Queued
  <2>3. numEntriesQueued \in Nat /\ (numEntriesQueued > 0 <=> queue # <<>>)
    <3>1. numEntriesQueued = Len(queue) /\ queue \in Seq(Lines)
          /\ numEntriesQueued \in 0..MaxQueue
      BY DEF IInv, CountIsLength, TypeOK
    <3>2. Len(queue) = 0 <=> queue = <<>>
      BY <3>1
    <3>3. QED
      BY <3>1, <3>2, ConstantsAssumption
  <2>4. TypeOK'
    BY <2>1, ConstantsAssumption DEF IInv, TypeOK, ghosts
  <2>5. CountIsLength' /\ BufferInHand' /\ BatchOpen' /\ EntryToPost'
    BY <2>1, <2>3 DEF IInv, CountIsLength, BufferInHand, BatchOpen, EntryToPost
  <2>6. OneOwner' /\ NotAnswered' /\ NoDuplicate'
    BY <2>1, <2>2 DEF IInv, OneOwner, NotAnswered, NoDuplicate, ghosts
  <2>7. BacklogExplained' /\ FlushedAtShutdown'
    BY <2>1, <2>3 DEF BacklogExplained, FlushedAtShutdown
  <2>8. QED
    BY <2>4, <2>5, <2>6, <2>7 DEF IInv
<1>5. ASSUME influxdb_post_deInit PROVE IInv'
  <2>1. /\ influxBuf' = NoLine /\ server' \in Servers
        /\ queue' \in Seq(Lines)
        /\ numEntriesQueued' \in 0..MaxQueue
        /\ res' \in Results /\ ch' \in BOOLEAN
        /\ refused' \in SUBSET Lines /\ replyLost' \in SUBSET Lines
        /\ copies' \in [Lines -> 0..2]
        /\ CountIsLength' /\ OneOwner' /\ NotAnswered' /\ NoDuplicate'
        /\ MoreToDequeue => queue' # <<>>
        /\ ~MoreToDequeue => res' # "ok" \/ queue' = <<>>
    BY <1>5, PostOldestFacts DEF influxdb_post_deInit
  <2>2. /\ numDequeued' \in 0..DequeueAtOnce
        /\ pc' = IF MoreToDequeue THEN "deInit" ELSE "freed"
    BY <1>5, ConstantsAssumption DEF influxdb_post_deInit, DeInitGoesOn, IInv, TypeOK
  <2>3. TypeOK'
    BY <2>1, <2>2 DEF TypeOK
  <2>4. BufferInHand' /\ BatchOpen' /\ EntryToPost'
    BY <2>1, <2>2 DEF BufferInHand, BatchOpen, EntryToPost
  <2>5. BacklogExplained' /\ FlushedAtShutdown'
    BY <2>1, <2>2 DEF BacklogExplained, FlushedAtShutdown
  <2>6. QED
    BY <2>1, <2>3, <2>4, <2>5 DEF IInv
<1>6. ASSUME UNCHANGED <<pc, client, ghosts>>, server' \in Servers PROVE IInv'
  <2>1. Queued' = Queued
    BY <1>6 DEF Queued, client
  <2>2. TypeOK'
    BY <1>6 DEF IInv, TypeOK, client, ghosts
  <2>3. CountIsLength' /\ BufferInHand' /\ BatchOpen' /\ EntryToPost'
    BY <1>6 DEF IInv, CountIsLength, BufferInHand, BatchOpen, EntryToPost, client
  <2>4. OneOwner' /\ NotAnswered' /\ NoDuplicate'
    BY <1>6, <2>1 DEF IInv, OneOwner, NotAnswered, NoDuplicate, client, ghosts
  <2>5. BacklogExplained' /\ FlushedAtShutdown'
    BY <1>6 DEF IInv, BacklogExplained, FlushedAtShutdown, client
  <2>6. QED
    BY <2>2, <2>3, <2>4, <2>5 DEF IInv
<1>7. CASE ServerChange
  BY <1>6, <1>7 DEF ServerChange
<1>8. CASE UNCHANGED vars
  <2>1. server' \in Servers
    BY <1>8 DEF vars, IInv, TypeOK
  <2>2. QED
    BY <1>6, <1>8, <2>1 DEF vars
<1>9. QED
  BY <1>1, <1>2, <1>3, <1>4, <1>5, <1>7, <1>8 DEF Next

(***************************************************************************)
(* The inductive invariant holds in every state of every behavior.         *)
(***************************************************************************)
THEOREM Invariance == Spec => []IInv
<1>1. QED
  BY InitIInv, NextIInv, PTL DEF Spec

\* The variables keep their types: the queue never outgrows maxNumEntriesToQueue.
THEOREM TypeCorrect == Spec => []TypeOK
<1>1. IInv => TypeOK
  BY DEF IInv
<1>2. QED
  BY <1>1, Invariance, PTL

\* The server stores no line twice unless an answer was lost.
THEOREM DuplicateOnlyAfterLostReply == Spec => []NoDuplicate
<1>1. IInv => NoDuplicate
  BY DEF IInv
<1>2. QED
  BY <1>1, Invariance, PTL

\* Each buffer has one owner, and influxdb_deQueue never reads a missing entry.
THEOREM BuffersAndEntries == Spec => [](OneOwner /\ EntryToPost)
<1>1. IInv => OneOwner /\ EntryToPost
  BY DEF IInv
<1>2. QED
  BY <1>1, Invariance, PTL

\* A backlog is left by a failure or a full batch, at shutdown by a failure only.
THEOREM BacklogOnlyAfterFailure == Spec => [](BacklogExplained /\ FlushedAtShutdown)
<1>1. IInv => BacklogExplained /\ FlushedAtShutdown
  BY DEF IInv
<1>2. QED
  BY <1>1, Invariance, PTL

-----------------------------------------------------------------------------
\* What one exchange means for the cache: the line is stored, or refused, or
\* perhaps stored without the client knowing.
LEMMA ExchangeMeaning ==
    ASSUME TypeOK, NEW l \in Lines, post_http_send_line(l)
    PROVE  \/ res' = "ok" /\ Stored' = Stored \cup {l} /\ refused' = refused
           \/ res' = "refused" /\ Stored' = Stored /\ refused' = refused \cup {l}
           \/ /\ res' \in Unsent /\ refused' = refused
              /\ Stored' \in {Stored, Stored \cup {l}}
<1>1. Store(l) => Stored' = Stored \cup {l}
  BY DEF Store, Stored, TypeOK
<1>2. UNCHANGED copies => Stored' = Stored
  BY DEF Stored
<1>3. res' \in Results
  BY DEF post_http_send_line, Answer, TypeOK, Servers, Results
<1>4. QED
  BY <1>1, <1>2, <1>3 DEF post_http_send_line, Results, Unsent

\* Posting the oldest entry delivers it or retries it.
LEMMA OldestMeaning ==
    ASSUME IInv, pc \in {"deQueue", "deInit"}, PostOldest, pc' # "post"
    PROVE  Cache!Next
<1>1. queue # <<>> /\ queue \in Seq(Lines) /\ Head(queue) \in Lines
  BY DEF IInv, EntryToPost, TypeOK
<1>2. post_http_send_line(Head(queue)) /\ UNCHANGED influxBuf
      /\ queue' = IF res' = "ok" THEN Tail(queue) ELSE queue
  BY DEF PostOldest
<1>3. pc # "freed" /\ (pc' # "freed") \in {pc # "freed", FALSE}
  OBVIOUS
<1>4. CASE res' = "ok" /\ Stored' = Stored \cup {Head(queue)} /\ refused' = refused
  <2>1. Cache!DeliverOldest
    BY <1>1, <1>2, <1>3, <1>4 DEF Cache!DeliverOldest, Cache!MayClose
  <2>2. QED
    BY <1>3, <2>1 DEF Cache!Next
<1>5. CASE res' = "refused" /\ Stored' = Stored /\ refused' = refused \cup {Head(queue)}
  <2>1. Cache!RetryOldest
    BY <1>1, <1>2, <1>3, <1>5 DEF Cache!RetryOldest, Cache!MayClose
  <2>2. QED
    BY <1>3, <2>1 DEF Cache!Next
<1>6. CASE /\ res' \in Unsent /\ refused' = refused
           /\ Stored' \in {Stored, Stored \cup {Head(queue)}}
  <2>1. Cache!RetryOldest
    BY <1>1, <1>2, <1>3, <1>6
       DEF Cache!RetryOldest, Cache!MayStore, Cache!MayClose, Unsent
  <2>2. QED
    BY <1>3, <2>1 DEF Cache!Next
<1>7. QED
  BY <1>1, <1>2, <1>4, <1>5, <1>6, ExchangeMeaning DEF IInv

\* Every step of the client is a step of the cache or leaves the cache alone.
LEMMA StepMeaning ==
    IInv /\ [Next]_vars => [Cache!Next]_(Cache!cacheVars)
<1> SUFFICES ASSUME IInv, [Next]_vars PROVE [Cache!Next]_(Cache!cacheVars)
  OBVIOUS
<1>1. ASSUME NEW l \in Lines, Post(l) PROVE Cache!Next
  <2>1. influxBuf = NoLine /\ pc # "freed" /\ pc' # "freed"
    BY <1>1 DEF Post, IInv, BufferInHand
  <2>2. Stored' = Stored \ {l}
    BY <1>1 DEF Post, Stored, IInv, TypeOK
  <2>3. Cache!Take(l)
    BY <1>1, <2>1, <2>2 DEF Cache!Take, Cache!Waiting, Post, Queued
  <2>4. QED
    BY <2>1, <2>3 DEF Cache!Next
<1>2. ASSUME influxdb_post_http_line PROVE Cache!Next
  <2>1. influxBuf \in Lines /\ influxBuf # NoLine /\ post_http_send_line(influxBuf)
        /\ influxBuf' = NoLine
    BY <1>2 DEF influxdb_post_http_line, freeBuffer, IInv, TypeOK, BufferInHand
  <2>2. pc # "freed" /\ pc' # "freed"
    BY <1>2 DEF influxdb_post_http_line, AfterPost
  <2>3. CASE res' = "ok" /\ Stored' = Stored \cup {influxBuf} /\ refused' = refused
    <3>1. Cache!Accept
      BY <1>2, <2>1, <2>2, <2>3 DEF Cache!Accept, influxdb_post_http_line, Unsent
    <3>2. QED
      BY <2>2, <3>1 DEF Cache!Next
  <2>4. CASE res' = "refused" /\ Stored' = Stored /\ refused' = refused \cup {influxBuf}
    <3>1. Cache!Refuse
      BY <1>2, <2>1, <2>2, <2>4 DEF Cache!Refuse, influxdb_post_http_line, Unsent
    <3>2. QED
      BY <2>2, <3>1 DEF Cache!Next
  <2>5. CASE /\ res' \in Unsent /\ refused' = refused
             /\ Stored' \in {Stored, Stored \cup {influxBuf}}
    <3>1. numEntriesQueued = Len(queue) /\ numEntriesQueued \in 0..MaxQueue
      BY DEF IInv, CountIsLength, TypeOK
    <3>2. CASE numEntriesQueued < MaxQueue
      <4>1. Cache!Keep
        BY <1>2, <2>1, <2>2, <2>5, <3>1, <3>2
           DEF Cache!Keep, Cache!MayStore, influxdb_post_http_line, addToQueue, HasRoom
      <4>2. QED
        BY <2>2, <4>1 DEF Cache!Next
    <3>3. CASE ~(numEntriesQueued < MaxQueue)
      <4>1. Len(queue) = MaxQueue
        BY <3>1, <3>3, ConstantsAssumption
      <4>2. Cache!Discard
        BY <1>2, <2>1, <2>2, <2>5, <3>3, <4>1
           DEF Cache!Discard, Cache!MayStore, influxdb_post_http_line, addToQueue, HasRoom
      <4>3. QED
        BY <2>2, <4>2 DEF Cache!Next
    <3>4. QED
      BY <3>2, <3>3
  <2>6. QED
    BY <2>1, <2>3, <2>4, <2>5, ExchangeMeaning DEF IInv
<1>3. ASSUME influxdb_deQueue PROVE Cache!Next
  BY <1>3, OldestMeaning DEF influxdb_deQueue
<1>4. ASSUME Terminate PROVE [Cache!Next]_(Cache!cacheVars)
  <2>1. influxBuf = NoLine /\ pc = "main"
    BY <1>4 DEF Terminate, IInv, BufferInHand
  <2>2. UNCHANGED <<influxBuf, queue, Stored, refused>>
    BY <1>4 DEF Terminate, ghosts, Stored
  <2>3. CASE pc' = "freed"
    <3>1. Cache!Close
      BY <2>1, <2>2, <2>3 DEF Cache!Close
    <3>2. QED
      BY <2>1, <3>1 DEF Cache!Next
  <2>4. CASE pc' # "freed"
    BY <2>1, <2>2, <2>4 DEF Cache!cacheVars
  <2>5. QED
    BY <2>3, <2>4
<1>5. ASSUME influxdb_post_deInit PROVE Cache!Next
  BY <1>5, OldestMeaning DEF influxdb_post_deInit
<1>6. ASSUME UNCHANGED <<pc, client, ghosts>> PROVE UNCHANGED Cache!cacheVars
  BY <1>6 DEF client, ghosts, Stored, Cache!cacheVars
<1>7. CASE ServerChange
  BY <1>6, <1>7 DEF ServerChange
<1>8. CASE UNCHANGED vars
  BY <1>6, <1>8 DEF vars
<1>9. QED
  BY <1>1, <1>2, <1>3, <1>4, <1>5, <1>7, <1>8 DEF Next

(***************************************************************************)
(* The client implements the cache: bounded, first-in first-out, nothing   *)
(* leaves the backlog but the oldest line, stored by the server.           *)
(***************************************************************************)
THEOREM Implementation == Spec => ImplementsCache
<1>1. Init => Cache!Init
  <2>1. Init => Stored = {}
    BY DEF Init, Stored
  <2>2. QED
    BY <2>1 DEF Init, Cache!Init
<1>2. QED
  BY <1>1, StepMeaning, Invariance, PTL DEF Spec, ImplementsCache, Cache!Spec
=============================================================================
