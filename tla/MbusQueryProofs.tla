-------------------------- MODULE MbusQueryProofs --------------------------
(***************************************************************************)
(* Theorems about the query of a meter, for every set of meters, gateways  *)
(* and every number of faults: the inductive invariant of MbusQuery, and   *)
(* the safety properties it implies.                                       *)
(***************************************************************************)
EXTENDS MbusQuery, TLAPS

USE QueryAssumption, PoolAssumption

LEMMA StaleFrame == \A f \in Frames : Stale(f) \in Frames
BY DEF Frames, Stale

\* The frames of a line that are outdated stay as many, in the same order.
LEMMA OutdatedFrames ==
    ASSUME NEW s \in Seq(Frames)
    PROVE  Outdated(s) \in Seq(Frames) /\ Len(Outdated(s)) = Len(s)
<1>1. \A i \in DOMAIN s : Stale(s[i]) \in Frames
  BY StaleFrame
<1>2. QED
  BY <1>1 DEF Outdated

\* Taking the first frame of a line.
LEMMA TakenFrames ==
    ASSUME NEW s \in Seq(Frames), s # <<>>
    PROVE  /\ Taken(s) \in Seq(Frames) /\ Len(Taken(s)) = Len(s) - 1
           /\ Head(s) \in Frames /\ Head(s) = s[1] /\ 1 \in DOMAIN s
  BY DEF Taken

\* Appending a frame keeps what all frames of a line have in common.
LEMMA AppendedFrame ==
    ASSUME NEW s \in Seq(Frames), NEW f \in Frames
    PROVE  /\ Append(s, f) \in Seq(Frames) /\ Len(Append(s, f)) = Len(s) + 1
           /\ \A i \in DOMAIN Append(s, f) : Append(s, f)[i] = f \/ (i \in DOMAIN s /\ Append(s, f)[i] = s[i])
  OBVIOUS

LEMMA NoFrames ==
    ASSUME NEW s \in Seq(Frames)
    PROVE  Len(s) \in Nat /\ (Len(s) = 0 => s = <<>> /\ DOMAIN s = {})
  OBVIOUS

\* The frames of one line change.
LEMMA UpdatedLine ==
    ASSUME NEW lines \in [Lines -> Seq(Frames)], NEW l \in Lines, NEW s \in Seq(Frames)
    PROVE  /\ [lines EXCEPT ![l] = s] \in [Lines -> Seq(Frames)]
           /\ [lines EXCEPT ![l] = s][l] = s
           /\ \A k \in Lines \ {l} : [lines EXCEPT ![l] = s][k] = lines[k]
<1> DEFINE S == Seq(Frames)
<1>1. lines \in [Lines -> S] /\ s \in S
  OBVIOUS
<1> HIDE DEF S
<1>2. [lines EXCEPT ![l] = s] \in [Lines -> S]
  BY <1>1
<1>3. QED
  BY <1>1, <1>2 DEF S

-----------------------------------------------------------------------------
LEMMA InitIInv == Init => IInv
<1> SUFFICES ASSUME Init PROVE IInv
  OBVIOUS
<1>1. TypeOK
  <2>1. PoolTypeOK
    BY DEF Init, PoolInit, PoolTypeOK
  <2>2. QueryTypeOK
    BY DEF Init, QueryTypeOK, RETRY_COUNT
  <2>3. LineTypeOK
    BY DEF Init, LineTypeOK
  <2>4. received \in BOOLEAN /\ sigpipeIgnored \in BOOLEAN
    BY Zenon DEF Init
  <2>5. QED
    BY <2>1, <2>2, <2>3, <2>4 DEF Init, TypeOK
<1>2. OwnAnswer /\ OneAnswerPerRequest /\ AnswerToRequest
  BY DEF Init, OwnAnswer, OneAnswerPerRequest, OnTheWay, Requested, AnswerToRequest
<1>3. QED
  BY <1>1, <1>2 DEF IInv

\* mbusTCP_open keeps the type of the pool, with either of its returns.
LEMMA PoolSteps ==
    ASSUME PoolTypeOK, NEW g \in Gateways,
           mbusTCP_open(g) \/ mbusTCP_open_fails(g) \/ ListenChange(g) \/ PeerCloses(g)
    PROVE  PoolTypeOK'
<1>1. CASE UseConnection(g)
  BY <1>1 DEF UseConnection, poolVars, PoolTypeOK
<1>2. CASE LetPass(g)
  BY <1>2 DEF LetPass, CountdownRetry, PoolTypeOK
<1>3. CASE Connect(g)
  BY <1>3 DEF Connect, PoolTypeOK
<1>4. CASE FailToConnect(g)
  BY <1>4 DEF FailToConnect, PoolTypeOK
<1>5. CASE ListenChange(g)
  BY <1>5 DEF ListenChange, PoolTypeOK
<1>6. CASE PeerCloses(g)
  BY <1>6 DEF PeerCloses, PoolTypeOK
<1>7. QED
  BY <1>1, <1>2, <1>3, <1>4, <1>5, <1>6 DEF mbusTCP_open, mbusTCP_open_fails

\* A query starts: what is still on the way is outdated.
LEMMA StartQueryIInv ==
    ASSUME IInv, NEW m \in Meters, StartQuery(m)
    PROVE  IInv'
<1> USE DEF IInv, TypeOK
<1>1. PoolTypeOK'
  <2>1. CASE LineOf[m] = SerialPort
    BY <2>1 DEF StartQuery, poolVars, PoolTypeOK
  <2>2. CASE LineOf[m] # SerialPort
    <3>1. LineOf[m] \in Gateways
      BY <2>2 DEF Lines
    <3>2. QED
      BY <2>2, <3>1, PoolSteps DEF StartQuery
  <2>3. QED
    BY <2>1, <2>2
<1>2. QueryTypeOK'
  <2>1. reply' \in Frames \cup {Junk}
    BY StaleFrame DEF StartQuery, QueryTypeOK
  <2>2. QED
    BY <2>1 DEF StartQuery, QueryTypeOK, RETRY_COUNT
<1>3. /\ inbox' \in [Lines -> Seq(Frames)] /\ late' \in [Lines -> Seq(Frames)]
      /\ \A l \in Lines : Len(inbox'[l]) = Len(inbox[l]) /\ Len(late'[l]) = Len(late[l])
  BY OutdatedFrames DEF StartQuery, LineTypeOK
<1>4. TypeOK'
  BY <1>1, <1>2, <1>3 DEF StartQuery, LineTypeOK
<1>5. OwnAnswer'
  BY DEF StartQuery, OwnAnswer, QueryTypeOK
<1>6. OneAnswerPerRequest'
  BY <1>3 DEF StartQuery, OneAnswerPerRequest, OnTheWay, Requested
<1>7. AnswerToRequest'
  BY DEF StartQuery, AnswerToRequest
<1>8. QED
  BY <1>4, <1>5, <1>6, <1>7

LEMMA NoConnectionIInv ==
    ASSUME IInv, NEW m \in Meters, NoConnection(m)
    PROVE  IInv'
<1> USE DEF IInv, TypeOK
<1>1. PoolTypeOK'
  BY PoolSteps DEF NoConnection
<1>2. TypeOK'
  BY <1>1 DEF NoConnection, QueryTypeOK, LineTypeOK, lineVars
<1>3. OwnAnswer'
  BY DEF NoConnection, OwnAnswer, QueryTypeOK
<1>4. OneAnswerPerRequest' /\ AnswerToRequest'
  BY DEF NoConnection, OneAnswerPerRequest, OnTheWay, Requested, AnswerToRequest, lineVars, line
<1>5. QED
  BY <1>2, <1>3, <1>4

\* The two counts of OneAnswerPerRequest are numbers.
LEMMA Counts ==
    ASSUME LineTypeOK, NEW l \in Lines
    PROVE  /\ OnTheWay(l) \in Nat /\ failures[l] \in Nat /\ Requested(l) \in {0, 1}
           /\ OnTheWay(l) = 0 => inbox[l] = <<>> /\ late[l] = <<>>
BY NoFrames DEF LineTypeOK, OnTheWay, Requested

\* A request brings at most one more frame, an answer to it.
LEMMA SendRequestIInv ==
    ASSUME IInv, SendRequest
    PROVE  IInv'
<1> USE DEF IInv, TypeOK
<1>1. meter \in Meters /\ line \in Lines /\ pc = "sending" /\ pc' = "receiving"
      /\ meter' = meter /\ line' = line /\ failures' = failures
  BY DEF SendRequest, QueryTypeOK, line
<1>2. PICK f \in Frames :
        /\ f.from = meter /\ f.fresh
        /\ \/ inbox' = [inbox EXCEPT ![line] = Append(inbox[line], f)] /\ late' = late
           \/ late' = [late EXCEPT ![line] = Append(late[line], f)] /\ inbox' = inbox
           \/ inbox' = inbox /\ late' = late
  <2>1. \A k \in Kinds : [from |-> meter, kind |-> k, fresh |-> TRUE] \in Frames
    BY <1>1 DEF Frames
  <2>2. "data" \in Kinds
    BY DEF Kinds
  <2>3. QED
    BY <2>1, <2>2 DEF SendRequest, lineVars
<1> DEFINE inboxNow == Append(inbox[line], f)
           lateNow == Append(late[line], f)
<1>3. /\ inboxNow \in Seq(Frames) /\ Len(inboxNow) = Len(inbox[line]) + 1
      /\ lateNow \in Seq(Frames) /\ Len(lateNow) = Len(late[line]) + 1
  BY <1>1, AppendedFrame DEF LineTypeOK
<1>4. \/ inbox' = [inbox EXCEPT ![line] = inboxNow] /\ late' = late
      \/ late' = [late EXCEPT ![line] = lateNow] /\ inbox' = inbox
      \/ inbox' = inbox /\ late' = late
  BY <1>2
<1> HIDE DEF inboxNow, lateNow
<1>5. PoolTypeOK' /\ QueryTypeOK'
  BY DEF SendRequest, poolVars, PoolTypeOK, QueryTypeOK, RETRY_COUNT
<1>6. LineTypeOK'
  <2>1. /\ [inbox EXCEPT ![line] = inboxNow] \in [Lines -> Seq(Frames)]
        /\ [late EXCEPT ![line] = lateNow] \in [Lines -> Seq(Frames)]
    BY <1>1, <1>3, UpdatedLine DEF LineTypeOK
  <2>2. inbox' \in [Lines -> Seq(Frames)] /\ late' \in [Lines -> Seq(Frames)]
    BY <1>4, <2>1 DEF LineTypeOK
  <2>3. QED
    BY <1>1, <2>2 DEF LineTypeOK
<1>7. TypeOK'
  BY <1>5, <1>6 DEF SendRequest
<1>8. OwnAnswer'
  BY <1>1 DEF SendRequest, OwnAnswer
<1>9. \A l \in Lines : OnTheWay(l) <= failures[l]
  BY <1>1, Counts DEF OneAnswerPerRequest, Requested
<1>10. OneAnswerPerRequest'
  <2> SUFFICES ASSUME NEW l \in Lines
               PROVE  OnTheWay(l)' <= failures'[l] + Requested(l)'
    BY DEF OneAnswerPerRequest
  <2>1. CASE l = line
    <3>1. Requested(l)' = 1
      BY <1>1, <2>1 DEF Requested
    <3>2. OnTheWay(l)' <= OnTheWay(l) + 1
      <4>1. \/ inbox'[l] = inboxNow /\ late'[l] = late[l]
            \/ late'[l] = lateNow /\ inbox'[l] = inbox[l]
            \/ inbox'[l] = inbox[l] /\ late'[l] = late[l]
        BY <1>1, <1>4, <2>1 DEF LineTypeOK
      <4>2. Len(inboxNow) = Len(inbox[l]) + 1 /\ Len(lateNow) = Len(late[l]) + 1
        BY <1>3, <2>1
      <4>3. /\ Len(inbox'[l]) \in {Len(inbox[l]), Len(inbox[l]) + 1}
            /\ Len(late'[l]) \in {Len(late[l]), Len(late[l]) + 1}
            /\ Len(inbox'[l]) = Len(inbox[l]) \/ Len(late'[l]) = Len(late[l])
        BY <4>1, <4>2
      <4>4. Len(inbox[l]) \in Nat /\ Len(late[l]) \in Nat
        BY NoFrames DEF LineTypeOK
      <4> DEFINE a == Len(inbox[l])
                 b == Len(late[l])
                 c == Len(inbox'[l])
                 d == Len(late'[l])
      <4>5. OnTheWay(l) = a + b /\ OnTheWay(l)' = c + d
        BY DEF OnTheWay
      <4>6. a \in Nat /\ b \in Nat /\ c \in {a, a + 1} /\ d \in {b, b + 1} /\ (c = a \/ d = b)
        BY <4>3, <4>4
      <4> HIDE DEF a, b, c, d
      <4>7. QED
        BY <4>5, <4>6
    <3>3. QED
      BY <1>1, <1>6, <1>9, <3>1, <3>2, Counts DEF LineTypeOK, OnTheWay
  <2>2. CASE l # line
    <3>1. OnTheWay(l)' = OnTheWay(l) /\ Requested(l)' = 0
      BY <1>1, <1>4, <2>2 DEF OnTheWay, LineTypeOK, Requested
    <3>2. QED
      BY <1>1, <1>9, <3>1, Counts
  <2>3. QED
    BY <2>1, <2>2
<1>11. AnswerToRequest'
  <2> SUFFICES ASSUME failures[line] = 0
               PROVE  \A s \in {inbox'[line], late'[line]} : \A i \in DOMAIN s :
                         s[i].from = meter /\ s[i].fresh
    BY <1>1 DEF AnswerToRequest
  <2>1. inbox[line] = <<>> /\ late[line] = <<>>
    BY <1>1, <1>9, Counts
  <2>2. \A s \in {inbox'[line], late'[line]} : s = <<>> \/ s = <<f>>
    BY <1>1, <1>2, <2>1 DEF LineTypeOK
  <2>3. QED
    BY <1>2, <2>2
<1>12. QED
  BY <1>7, <1>8, <1>10, <1>11

LEMMA SendToClosedIInv ==
    ASSUME IInv, SendToClosed
    PROVE  IInv'
<1> USE DEF IInv, TypeOK
<1>1. meter \in Meters /\ line \in Lines /\ pc = "sending" /\ line \in Gateways
  BY DEF SendToClosed, QueryTypeOK, line, LineUp
<1>2. PoolTypeOK'
  BY <1>1 DEF SendToClosed, PoolTypeOK
<1>3. QueryTypeOK'
  BY <1>1 DEF SendToClosed, WriteFails, QueryTypeOK, RETRY_COUNT
<1>4. TypeOK'
  BY <1>1, <1>2, <1>3 DEF SendToClosed, LineTypeOK, lineVars
<1>5. OwnAnswer'
  BY <1>1 DEF SendToClosed, WriteFails, OwnAnswer, QueryTypeOK
<1>6. inbox' = inbox /\ late' = late /\ failures' = failures
  BY DEF SendToClosed, lineVars
<1>7. \A l \in Lines : OnTheWay(l) <= failures[l]
  BY <1>1, Counts DEF OneAnswerPerRequest, Requested
<1>8. OneAnswerPerRequest'
  <2> SUFFICES ASSUME NEW l \in Lines
               PROVE  OnTheWay(l)' <= failures'[l] + Requested(l)'
    BY DEF OneAnswerPerRequest
  <2>1. OnTheWay(l)' = OnTheWay(l) /\ Requested(l)' \in {0, 1}
    BY <1>6 DEF OnTheWay, Requested
  <2>2. QED
    BY <1>6, <1>7, <2>1, Counts
<1>9. AnswerToRequest'
  <2>1. \A l \in Lines : failures[l] = 0 => inbox[l] = <<>> /\ late[l] = <<>>
    BY <1>7, Counts
  <2>2. pc' = "receiving" => line' \in Lines
    BY <1>1 DEF SendToClosed, WriteFails, line
  <2>3. QED
    BY <1>6, <2>1, <2>2 DEF AnswerToRequest
<1>10. QED
  BY <1>4, <1>5, <1>8, <1>9

\* One frame is taken from line k.
LEMMA FrameTaken ==
    ASSUME LineTypeOK, NEW k \in Lines, inbox[k] # <<>>,
           inbox' = [inbox EXCEPT ![k] = Taken(inbox[k])], late' = late
    PROVE  /\ inbox' \in [Lines -> Seq(Frames)]
           /\ OnTheWay(k)' = OnTheWay(k) - 1
           /\ \A l \in Lines \ {k} : OnTheWay(l)' = OnTheWay(l)
<1>1. Taken(inbox[k]) \in Seq(Frames) /\ Len(Taken(inbox[k])) = Len(inbox[k]) - 1
  BY TakenFrames DEF LineTypeOK
<1> DEFINE s == Taken(inbox[k])
<1>2. inbox' = [inbox EXCEPT ![k] = s] /\ s \in Seq(Frames) /\ Len(s) = Len(inbox[k]) - 1
  BY <1>1
<1> HIDE DEF s
<1>3. inbox' \in [Lines -> Seq(Frames)]
  BY <1>2, UpdatedLine DEF LineTypeOK
<1>4. Len(inbox'[k]) = Len(inbox[k]) - 1 /\ Len(late'[k]) = Len(late[k])
  BY <1>2 DEF LineTypeOK
<1>5. Len(inbox[k]) \in Nat /\ Len(late[k]) \in Nat
  BY NoFrames DEF LineTypeOK
<1> DEFINE a == Len(inbox[k])
           b == Len(late[k])
           c == Len(inbox'[k])
           d == Len(late'[k])
<1>6. OnTheWay(k) = a + b /\ OnTheWay(k)' = c + d
  BY DEF OnTheWay
<1>7. a \in Nat /\ b \in Nat /\ c = a - 1 /\ d = b
  BY <1>4, <1>5
<1> HIDE DEF a, b, c, d
<1>8. OnTheWay(k)' = OnTheWay(k) - 1
  BY <1>6, <1>7
<1>9. \A l \in Lines \ {k} : OnTheWay(l)' = OnTheWay(l)
  BY <1>2 DEF OnTheWay, LineTypeOK
<1>10. QED
  BY <1>3, <1>8, <1>9

\* What the reply buffer makes of the meter that is queried.
LEMMA ProcessEnds ==
    ASSUME QueryTypeOK, pc = "receiving", NEW f \in Frames \cup {Junk}, Process(f)
    PROVE  /\ pc' \in {"idle", "exit"}
           /\ meter' \in {meter, NoMeter} /\ ((pc' = "idle") <=> (meter' = NoMeter))
           /\ value' \in [Meters -> Frames \cup {Zero, Junk}]
           /\ result' \in [Meters -> {"none", "ok", "failed"}]
           /\ \A m \in Meters \ {meter} : value'[m] = value[m] /\ result'[m] = result[m]
           /\ pc' = "idle" /\ result'[meter] = "ok" => value'[meter] = f
<1>1. meter \in Meters
  BY DEF QueryTypeOK
<1>2. CASE Accept(f)
  BY <1>1, <1>2 DEF Accept, QueryTypeOK
<1>3. CASE process_mbus_data_fixed(f)
  BY <1>1, <1>3 DEF process_mbus_data_fixed, QueryTypeOK
<1>4. CASE Reject(f)
  BY <1>1, <1>4 DEF Reject, QueryTypeOK
<1>5. QED
  BY <1>2, <1>3, <1>4 DEF Process

\* An answer is taken from the line and becomes the value of the meter.
LEMMA ReceiveFrameIInv ==
    ASSUME IInv, ReceiveFrame
    PROVE  IInv'
<1> USE DEF IInv, TypeOK
<1>1. meter \in Meters /\ line \in Lines /\ pc = "receiving"
  BY DEF ReceiveFrame, QueryTypeOK, line
<1>2. /\ inbox[line] # <<>>
      /\ inbox' = [inbox EXCEPT ![line] = Taken(inbox[line])]
      /\ late' = late /\ failures' = failures /\ tries' = tries
  BY DEF ReceiveFrame
<1>3. /\ reply' = Head(inbox[line]) /\ reply' \in Frames
      /\ reply' = inbox[line][1] /\ 1 \in DOMAIN inbox[line]
  BY <1>1, <1>2, TakenFrames DEF ReceiveFrame, LineTypeOK
<1>4. /\ pc' \in {"idle", "exit"}
      /\ meter' \in {meter, NoMeter} /\ ((pc' = "idle") <=> (meter' = NoMeter))
      /\ value' \in [Meters -> Frames \cup {Zero, Junk}]
      /\ result' \in [Meters -> {"none", "ok", "failed"}]
      /\ \A m \in Meters \ {meter} : value'[m] = value[m] /\ result'[m] = result[m]
      /\ pc' = "idle" /\ result'[meter] = "ok" => value'[meter] = reply'
  BY <1>1, <1>3, ProcessEnds DEF ReceiveFrame
<1>5. QueryTypeOK'
  BY <1>1, <1>2, <1>3, <1>4 DEF QueryTypeOK, RETRY_COUNT
<1>6. LineTypeOK'
  BY <1>1, <1>2, FrameTaken DEF LineTypeOK
<1>7. TypeOK'
  BY <1>5, <1>6 DEF ReceiveFrame, poolVars, PoolTypeOK
<1>8. OwnAnswer'
  <2> SUFFICES ASSUME NEW m \in Meters \ {meter'}, result'[m] = "ok", failures[LineOf[m]] = 0
               PROVE  value'[m] \in Frames /\ value'[m].from = m /\ value'[m].fresh
    BY <1>2 DEF OwnAnswer
  <2>1. CASE m = meter
    BY <1>1, <1>3, <1>4, <2>1 DEF AnswerToRequest, line
  <2>2. CASE m # meter
    BY <1>4, <2>2 DEF OwnAnswer
  <2>3. QED
    BY <2>1, <2>2
<1>9. OneAnswerPerRequest'
  <2> SUFFICES ASSUME NEW l \in Lines
               PROVE  OnTheWay(l)' <= failures'[l] + Requested(l)'
    BY DEF OneAnswerPerRequest
  <2>1. Requested(l)' = 0
    BY <1>4 DEF Requested
  <2>2. CASE l = line
    <3>1. OnTheWay(l)' = OnTheWay(l) - 1
      BY <1>1, <1>2, <2>2, FrameTaken
    <3>2. OnTheWay(l) <= failures[l] + 1
      BY <1>1, <2>2 DEF OneAnswerPerRequest, Requested
    <3>3. QED
      BY <1>2, <2>1, <3>1, <3>2, Counts
  <2>3. CASE l # line
    <3>1. OnTheWay(l)' = OnTheWay(l)
      BY <1>1, <1>2, <2>3, FrameTaken
    <3>2. OnTheWay(l) <= failures[l]
      BY <1>1, <2>3, Counts DEF OneAnswerPerRequest, Requested
    <3>3. QED
      BY <1>2, <2>1, <3>1, <3>2, Counts
  <2>4. QED
    BY <2>2, <2>3
<1>10. AnswerToRequest'
  BY <1>4 DEF AnswerToRequest
<1>11. QED
  BY <1>7, <1>8, <1>9, <1>10

\* A receive fails: the frame, if there was one, is gone, and it counts.
LEMMA ReceiveFailsIInv ==
    ASSUME IInv, ReceiveFails
    PROVE  IInv'
<1> USE DEF IInv, TypeOK
<1>1. meter \in Meters /\ line \in Lines /\ pc = "receiving" /\ tries \in 1..RETRY_COUNT
  BY DEF ReceiveFails, QueryTypeOK, line
<1>2. /\ failures' = [failures EXCEPT ![line] = failures[line] + 1]
      /\ late' = late /\ tries' = tries - 1
  BY DEF ReceiveFails
<1>3. \/ /\ inbox[line] # <<>> /\ reply' = Head(inbox[line])
         /\ inbox' = [inbox EXCEPT ![line] = Taken(inbox[line])]
      \/ reply' = reply /\ inbox' = inbox
  BY DEF ReceiveFails
<1>4. reply' \in Frames \cup {Junk}
  BY <1>1, <1>3, TakenFrames DEF LineTypeOK, QueryTypeOK
<1>5. /\ pc' \in {"idle", "exit", "sending"} /\ (pc' = "sending" => tries > 1)
      /\ meter' \in {meter, NoMeter} /\ ((pc' = "idle") <=> (meter' = NoMeter))
      /\ value' \in [Meters -> Frames \cup {Zero, Junk}]
      /\ result' \in [Meters -> {"none", "ok", "failed"}]
      /\ \A m \in Meters \ {meter} : value'[m] = value[m] /\ result'[m] = result[m]
  <2>1. CASE RetryLeft
    BY <1>1, <2>1 DEF ReceiveFails, RetryLeft, QueryTypeOK
  <2>2. CASE ~RetryLeft
    <3>1. Process(reply')
      BY <2>2 DEF ReceiveFails
    <3>2. QED
      BY <1>1, <1>4, <3>1, ProcessEnds
  <2>3. QED
    BY <2>1, <2>2
<1>6. QueryTypeOK'
  BY <1>1, <1>2, <1>4, <1>5 DEF QueryTypeOK, RETRY_COUNT
<1>7. inbox' \in [Lines -> Seq(Frames)]
  BY <1>1, <1>2, <1>3, FrameTaken DEF LineTypeOK
<1>8. failures' \in [Lines -> Nat] /\ failures'[line] = failures[line] + 1
      /\ \A l \in Lines \ {line} : failures'[l] = failures[l]
  BY <1>1, <1>2 DEF LineTypeOK
<1>9. TypeOK'
  BY <1>2, <1>6, <1>7, <1>8 DEF ReceiveFails, LineTypeOK, poolVars, PoolTypeOK
<1>10. OwnAnswer'
  <2> SUFFICES ASSUME NEW m \in Meters \ {meter'}, result'[m] = "ok", failures'[LineOf[m]] = 0
               PROVE  value'[m] \in Frames /\ value'[m].from = m /\ value'[m].fresh
    BY DEF OwnAnswer
  <2>1. failures[line] + 1 # 0
    BY <1>1 DEF LineTypeOK
  <2>2. LineOf[m] \in Lines \ {line} /\ m # meter
    BY <1>8, <2>1 DEF line
  <2>3. QED
    BY <1>5, <1>8, <2>2 DEF OwnAnswer
<1>11. OneAnswerPerRequest'
  <2> SUFFICES ASSUME NEW l \in Lines
               PROVE  OnTheWay(l)' <= failures'[l] + Requested(l)'
    BY DEF OneAnswerPerRequest
  <2>1. Requested(l)' = 0
    BY <1>5 DEF Requested
  <2>2. OnTheWay(l)' = OnTheWay(l) \/ (l = line /\ OnTheWay(l)' = OnTheWay(l) - 1)
    <3>1. CASE inbox' = inbox
      BY <1>2, <3>1 DEF OnTheWay
    <3>2. CASE inbox' # inbox
      BY <1>1, <1>2, <1>3, <3>2, FrameTaken
    <3>3. QED
      BY <3>1, <3>2
  <2>3. OnTheWay(l) <= failures[l] + Requested(l) /\ (l # line => Requested(l) = 0)
    BY DEF OneAnswerPerRequest, Requested
  <2>4. QED
    BY <1>8, <2>1, <2>2, <2>3, Counts
<1>12. AnswerToRequest'
  BY <1>5 DEF AnswerToRequest
<1>13. QED
  BY <1>9, <1>10, <1>11, <1>12

\* A late answer arrives: it is on the line instead of on the way.
LEMMA ArriveIInv ==
    ASSUME IInv, NEW k \in Lines, Arrive(k)
    PROVE  IInv'
<1> USE DEF IInv, TypeOK
<1> DEFINE f == Head(late[k])
           s == Append(inbox[k], f)
           t == Tail(late[k])
<1>1. /\ s \in Seq(Frames) /\ Len(s) = Len(inbox[k]) + 1
      /\ t \in Seq(Frames) /\ Len(t) = Len(late[k]) - 1
      /\ f = late[k][1] /\ 1 \in DOMAIN late[k]
      /\ \A i \in DOMAIN s : s[i] = f \/ (i \in DOMAIN inbox[k] /\ s[i] = inbox[k][i])
      /\ \A i \in DOMAIN t : i + 1 \in DOMAIN late[k] /\ t[i] = late[k][i + 1]
  <2>1. inbox[k] \in Seq(Frames) /\ late[k] \in Seq(Frames) /\ late[k] # <<>>
    BY DEF LineTypeOK, Arrive
  <2>2. f \in Frames /\ f = late[k][1] /\ 1 \in DOMAIN late[k]
    BY <2>1
  <2>3. t \in Seq(Frames) /\ Len(t) = Len(late[k]) - 1
        /\ \A i \in DOMAIN t : i + 1 \in DOMAIN late[k] /\ t[i] = late[k][i + 1]
    BY <2>1
  <2>4. QED
    BY <2>1, <2>2, <2>3, AppendedFrame
<1>2. inbox' = [inbox EXCEPT ![k] = s] /\ late' = [late EXCEPT ![k] = t]
  BY DEF Arrive
<1> HIDE DEF f, s, t
<1>3. /\ inbox' \in [Lines -> Seq(Frames)] /\ late' \in [Lines -> Seq(Frames)]
      /\ inbox'[k] = s /\ late'[k] = t
      /\ \A l \in Lines \ {k} : inbox'[l] = inbox[l] /\ late'[l] = late[l]
  BY <1>1, <1>2, UpdatedLine DEF LineTypeOK
<1>4. UNCHANGED <<poolVars, queryVars, faults, sigpipeIgnored>>
  BY DEF Arrive
<1>5. TypeOK'
  BY <1>3, <1>4 DEF poolVars, queryVars, PoolTypeOK, QueryTypeOK, LineTypeOK
<1>6. OwnAnswer'
  BY <1>4 DEF queryVars, OwnAnswer
<1>7. OneAnswerPerRequest'
  <2>1. Len(inbox[k]) \in Nat /\ Len(late[k]) \in Nat
    BY NoFrames DEF LineTypeOK
  <2> DEFINE a == Len(inbox[k])
             b == Len(late[k])
  <2>2. OnTheWay(k) = a + b /\ OnTheWay(k)' = (a + 1) + (b - 1)
    BY <1>1, <1>3 DEF OnTheWay
  <2>3. a \in Nat /\ b \in Nat
    BY <2>1
  <2> HIDE DEF a, b
  <2>4. OnTheWay(k)' = OnTheWay(k)
    BY <2>2, <2>3
  <2>5. \A l \in Lines : OnTheWay(l)' = OnTheWay(l)
    BY <1>3, <2>4 DEF OnTheWay
  <2>6. \A l \in Lines : Requested(l)' = Requested(l) /\ failures'[l] = failures[l]
    BY <1>4 DEF queryVars, Requested, line
  <2>7. QED
    BY <2>5, <2>6 DEF OneAnswerPerRequest
<1>8. AnswerToRequest'
  <2> SUFFICES ASSUME pc = "receiving", failures[line] = 0,
                      NEW q \in {inbox'[line], late'[line]}, NEW i \in DOMAIN q
               PROVE  q[i].from = meter /\ q[i].fresh
    BY <1>4 DEF AnswerToRequest, queryVars, line
  <2>1. line \in Lines
    BY DEF QueryTypeOK, line
  <2>2. CASE line = k
    <3>1. \A r \in {inbox[k], late[k]} : \A j \in DOMAIN r : r[j].from = meter /\ r[j].fresh
      BY <2>2 DEF AnswerToRequest
    <3>2. f.from = meter /\ f.fresh
      BY <1>1, <3>1
    <3>3. CASE q = s
      BY <1>1, <3>1, <3>2, <3>3
    <3>4. CASE q = t
      BY <1>1, <3>1, <3>4
    <3>5. QED
      BY <1>3, <2>2, <3>3, <3>4
  <2>3. CASE line # k
    BY <1>3, <2>1, <2>3 DEF AnswerToRequest
  <2>4. QED
    BY <2>2, <2>3
<1>9. QED
  BY <1>5, <1>6, <1>7, <1>8

\* The gateways themselves leave the query and the frames alone.
LEMMA GatewayIInv ==
    ASSUME IInv, NEW g \in Gateways, GatewayFault(g) \/ GatewayBack(g)
    PROVE  IInv'
<1> USE DEF IInv, TypeOK
<1>1. ListenChange(g) \/ PeerCloses(g)
  BY DEF GatewayFault, GatewayBack
<1>2. UNCHANGED <<queryVars, lineVars, sigpipeIgnored>> /\ faults' \in 0..MaxFaults
  BY DEF GatewayFault, GatewayBack
<1>3. TypeOK'
  BY <1>1, <1>2, PoolSteps DEF queryVars, lineVars, QueryTypeOK, LineTypeOK
<1>4. OwnAnswer' /\ AnswerToRequest'
  BY <1>2 DEF queryVars, lineVars, OwnAnswer, AnswerToRequest, line
<1>5. \A l \in Lines : /\ OnTheWay(l)' = OnTheWay(l)
                       /\ failures'[l] = failures[l] /\ Requested(l)' = Requested(l)
  BY <1>2 DEF queryVars, lineVars, OnTheWay, Requested, line
<1>6. OneAnswerPerRequest'
  BY <1>5 DEF OneAnswerPerRequest
<1>7. QED
  BY <1>3, <1>4, <1>6

LEMMA NextIInv == IInv /\ [Next]_vars => IInv'
<1> SUFFICES ASSUME IInv, [Next]_vars PROVE IInv'
  OBVIOUS
<1>1. CASE \E m \in Meters : StartQuery(m) \/ NoConnection(m)
  BY <1>1, StartQueryIInv, NoConnectionIInv
<1>2. CASE Transfer
  BY <1>2, SendRequestIInv, SendToClosedIInv, ReceiveFrameIInv, ReceiveFailsIInv DEF Transfer
<1>3. CASE Environment
  BY <1>3, ArriveIInv, GatewayIInv DEF Environment
<1>4. CASE UNCHANGED vars
  BY <1>4 DEF vars, poolVars, queryVars, lineVars, IInv, TypeOK, PoolTypeOK, QueryTypeOK,
              LineTypeOK, OwnAnswer, OneAnswerPerRequest, OnTheWay, Requested,
              AnswerToRequest, line
<1>5. QED
  BY <1>1, <1>2, <1>3, <1>4 DEF Next
-----------------------------------------------------------------------------
\* The inductive invariant of a query holds for all meters, gateways and any
\* number of faults.
THEOREM Invariance == Spec => []IInv
<1>1. QED
  BY InitIInv, NextIInv, PTL DEF Spec

\* Type correctness: the retry counters of mbusTCP_open and queryMeter stay in
\* their bounds, and a query under way has a meter.
THEOREM TypeCorrect == Spec => []TypeOK
<1>1. IInv => TypeOK
  BY DEF IInv
<1>2. QED
  BY <1>1, Invariance, PTL

\* As long as no receive has failed on its line, a meter that was read holds the
\* answer it gave itself to that very query, although no address is compared.
THEOREM ReadsItsOwnAnswer == Spec => []OwnAnswer
<1>1. IInv => OwnAnswer
  BY DEF IInv
<1>2. QED
  BY <1>1, Invariance, PTL

\* The frames that wait on a line or have still to come are at most as many as
\* the receives that failed there, and the answer to the request under way.
THEOREM FramesFollowFailures == Spec => []OneAnswerPerRequest
<1>1. IInv => OneAnswerPerRequest
  BY DEF IInv
<1>2. QED
  BY <1>1, Invariance, PTL
=============================================================================
