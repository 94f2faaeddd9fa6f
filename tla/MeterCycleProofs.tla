-------------------------- MODULE MeterCycleProofs --------------------------
(***************************************************************************)
(* Proofs about MeterCycle for every configuration: any meters, schedules, *)
(* formulas, values and influxwritemult.                                   *)
(***************************************************************************)
EXTENDS MeterCycle, TLAPS

(***************************************************************************)
(* Adding a reading to a window.                                           *)
(***************************************************************************)
LEMMA AppendReading ==
    ASSUME NEW w \in Seq(Int), NEW x \in Int
    PROVE  /\ Append(w, x) \in Seq(Int)
           /\ Len(Append(w, x)) = Len(w) + 1
           /\ DOMAIN Append(w, x) = 1..Len(w) + 1
           /\ Append(w, x)[Len(w) + 1] = x
           /\ \A k \in DOMAIN w : k \in DOMAIN Append(w, x) /\ Append(w, x)[k] = w[k]
           /\ \A k \in DOMAIN Append(w, x) : k \in DOMAIN w \/ k = Len(w) + 1
  OBVIOUS

\* A 0 before the readings of a window.
LEMMA ZeroFirst ==
    ASSUME NEW w \in Seq(Int)
    PROVE  /\ <<0>> \o w \in Seq(Int) /\ <<0>> \o w # <<>>
           /\ <<0>> \o <<>> = <<0>>
           /\ \A x \in Int : <<0>> \o Append(w, x) = Append(<<0>> \o w, x)
  OBVIOUS

LEMMA OneReading ==
    ASSUME NEW x \in Int
    PROVE  /\ Bounded(<<x>>)
           /\ \A p : Summary(p, <<x>>, x)
  <1>1. DOMAIN <<x>> = {1} /\ <<x>>[1] = x /\ Len(<<x>>) = 1
    OBVIOUS
  <1>2. Bounded(<<x>>)
    BY <1>1 DEF Bounded
  <1>3. \A p : Summary(p, <<x>>, x)
    BY <1>1 DEF Summary
  <1>4. QED
    BY <1>2, <1>3

\* Whatever is added to a bounded window, it stays bounded.
LEMMA BoundedAppend ==
    ASSUME NEW w \in Seq(Int), NEW x \in Int, w = <<>> \/ Bounded(w)
    PROVE  Bounded(Append(w, x))
  <1> DEFINE v == Append(w, x)
  <1>1. /\ DOMAIN v = 1..Len(w) + 1 /\ Len(w) + 1 \in DOMAIN v
        /\ v[Len(w) + 1] = x
        /\ \A k \in DOMAIN w : k \in DOMAIN v /\ v[k] = w[k] /\ w[k] \in Int
        /\ \A k \in DOMAIN v : k \in DOMAIN w \/ k = Len(w) + 1
    BY AppendReading
  <1> HIDE DEF v
  <1>2. CASE w = <<>>
    <2>1. \A k \in DOMAIN v : k = Len(w) + 1
      BY <1>1, <1>2
    <2>2. QED
      BY <1>1, <2>1 DEF Bounded, v
  <1>3. CASE Bounded(w)
    <2>1. PICK i \in DOMAIN w, j \in DOMAIN w :
             \A k \in DOMAIN w : w[i] <= w[k] /\ w[k] <= w[j]
      BY <1>3 DEF Bounded
    <2>2. w[i] \in Int /\ w[j] \in Int /\ i \in DOMAIN v /\ j \in DOMAIN v
      BY <1>1
    <2>3. \E a \in DOMAIN v : \A k \in DOMAIN v : v[a] <= v[k]
      <3>1. CASE x <= w[i]
        <4>1. \A k \in DOMAIN v : v[Len(w) + 1] <= v[k]
          BY <1>1, <2>1, <2>2, <3>1
        <4>2. QED
          BY <4>1, <1>1
      <3>2. CASE w[i] <= x
        <4>1. \A k \in DOMAIN v : v[i] <= v[k]
          BY <1>1, <2>1, <2>2, <3>2
        <4>2. QED
          BY <4>1, <2>2
      <3>3. QED
        BY <2>2, <3>1, <3>2
    <2>4. \E b \in DOMAIN v : \A k \in DOMAIN v : v[k] <= v[b]
      <3>1. CASE w[j] <= x
        <4>1. \A k \in DOMAIN v : v[k] <= v[Len(w) + 1]
          BY <1>1, <2>1, <2>2, <3>1
        <4>2. QED
          BY <4>1, <1>1
      <3>2. CASE x <= w[j]
        <4>1. \A k \in DOMAIN v : v[k] <= v[j]
          BY <1>1, <2>1, <2>2, <3>2
        <4>2. QED
          BY <4>1, <2>2
      <3>3. QED
        BY <2>2, <3>1, <3>2
    <2>5. QED
      BY <2>3, <2>4 DEF Bounded, v
  <1>4. QED
    BY <1>2, <1>3

(***************************************************************************)
(* Merging a reading into the sum of the readings before it gives the sum  *)
(* of all of them.                                                         *)
(***************************************************************************)
LEMMA MergeSumsUp ==
    ASSUME NEW m \in Meters, Proc[m] \in {"last", "max", "min", "avg"},
           NEW w \in Seq(Int), w # <<>>, NEW x \in Int, NEW f \in Int,
           Summary(Proc[m], w, f)
    PROVE  /\ Summary(Proc[m], Append(w, x), Merge(m, x, f))
           /\ Merge(m, x, f) \in Int
  <1> DEFINE v == Append(w, x)
             g == Merge(m, x, f)
  <1>1. /\ DOMAIN v = 1..Len(w) + 1 /\ Len(w) + 1 \in DOMAIN v /\ Len(v) = Len(w) + 1
        /\ v[Len(w) + 1] = x
        /\ \A k \in DOMAIN w : k \in DOMAIN v /\ v[k] = w[k] /\ w[k] \in Int
        /\ \A k \in DOMAIN v : k \in DOMAIN w \/ k = Len(w) + 1
    BY AppendReading
  <1>2. SUFFICES Summary(Proc[m], v, g) /\ g \in Int
    OBVIOUS
  <1> HIDE DEF v
  <1>3. CASE Proc[m] = "last"
    BY <1>1, <1>3 DEF Summary, Merge
  <1>4. CASE Proc[m] = "max"
    <2>1. /\ \E i \in DOMAIN w : f = w[i]
          /\ \A k \in DOMAIN w : w[k] <= f
      BY <1>4 DEF Summary
    <2>2. g = IF x < f THEN f ELSE x
      BY <1>4 DEF Merge
    <2>3. \E i \in DOMAIN v : g = v[i]
      BY <1>1, <2>1, <2>2
    <2>4. \A k \in DOMAIN v : v[k] <= g
      BY <1>1, <2>1, <2>2
    <2>5. QED
      BY <1>4, <2>2, <2>3, <2>4 DEF Summary
  <1>5. CASE Proc[m] = "min"
    <2>1. /\ \E i \in DOMAIN w : f = w[i]
          /\ \A k \in DOMAIN w : f <= w[k]
      BY <1>5 DEF Summary
    <2>2. g = IF x > f THEN f ELSE x
      BY <1>5 DEF Merge
    <2>3. \E i \in DOMAIN v : g = v[i]
      BY <1>1, <2>1, <2>2
    <2>4. \A k \in DOMAIN v : g <= v[k]
      BY <1>1, <2>1, <2>2
    <2>5. QED
      BY <1>5, <2>2, <2>3, <2>4 DEF Summary
  <1>6. CASE Proc[m] = "avg"
    <2>1. PICK i \in DOMAIN w, j \in DOMAIN w : w[i] <= f /\ f <= w[j]
      BY <1>6 DEF Summary
    <2>2. g = (x + f) \div 2
      BY <1>6 DEF Merge
    <2>3. g \in Int /\ (x <= f => x <= g /\ g <= f) /\ (f <= x => f <= g /\ g <= x)
      BY <2>2
    <2> HIDE DEF g
    <2>4. \E a \in DOMAIN v : v[a] <= g
      <3>1. CASE x <= f
        BY <1>1, <2>3, <3>1
      <3>2. CASE f <= x
        <4>1. i \in DOMAIN v /\ v[i] = w[i] /\ w[i] \in Int
          BY <1>1
        <4>2. QED
          BY <2>1, <2>3, <3>2, <4>1
      <3>3. QED
        BY <3>1, <3>2
    <2>5. \E b \in DOMAIN v : g <= v[b]
      <3>1. CASE f <= x
        BY <1>1, <2>3, <3>1
      <3>2. CASE x <= f
        <4>1. j \in DOMAIN v /\ v[j] = w[j] /\ w[j] \in Int
          BY <1>1
        <4>2. QED
          BY <2>1, <2>3, <3>2, <4>1
      <3>3. QED
        BY <3>1, <3>2
    <2>6. QED
      BY <1>6, <2>3, <2>4, <2>5 DEF Summary
  <1>7. QED
    BY <1>3, <1>4, <1>5, <1>6

\* Merge yields an integer whatever the window holds.
LEMMA MergeType ==
    ASSUME NEW m \in Meters, Proc[m] \in {"last", "max", "min", "avg"},
           NEW x \in Int, NEW f \in Int
    PROVE  Merge(m, x, f) \in Int
  BY DEF Merge

(***************************************************************************)
(* A query leaves every register at one of its values or at 0, so that     *)
(* every formula has a value.                                              *)
(***************************************************************************)
LEMMA QueryType ==
    ASSUME TypeOK, NEW S \in SUBSET (Meters \ Virtual), NEW r \in Replies(S), NEW T
    PROVE  /\ executeMeterFormulas(r, T) \in [Meters -> Int]
           /\ \A m \in Meters \ Virtual :
                 executeMeterFormulas(r, T)[m] \in Values \cup {0}
           /\ Answered(r) \subseteq S
  <1>1. DOMAIN r = S /\ \A m \in S : r[m] \in Values \cup {NoReply, NoConnection}
    BY DEF Replies
  <1>2. \A m \in Meters \ Virtual : queryMeter(r, m) \in Values \cup {0}
    BY <1>1 DEF queryMeter, TypeOK
  <1>3. \A m \in Meters : queryMeter(r, m) \in Int
    <2> SUFFICES ASSUME NEW m \in Meters PROVE queryMeter(r, m) \in Int
      OBVIOUS
    <2>1. fvalue[m] \in Int /\ 0 \in Int
      BY DEF TypeOK
    <2>2. m \in S => r[m] \in Int \/ r[m] \in {NoReply, NoConnection}
      BY <1>1, ConfigAssumption
    <2>3. QED
      BY <1>1, <2>1, <2>2 DEF queryMeter
  <1>4. [i \in Enabled \ Virtual |-> queryMeter(r, i)] \in Registers
    BY <1>2 DEF Registers, Enabled
  <1>5. \A m \in Meters : executeMeterFormulas(r, T)[m] \in Int
    BY <1>3, <1>4, FormulaAssumption DEF executeMeterFormulas
  <1>6. \A m \in Meters \ Virtual : executeMeterFormulas(r, T)[m] = queryMeter(r, m)
    BY DEF executeMeterFormulas
  <1>7. QED
    BY <1>1, <1>2, <1>5, <1>6 DEF executeMeterFormulas, Answered

\* A register that was 0 and could not be read is still 0.
LEMMA UnreadIsZero ==
    ASSUME NEW S \in SUBSET (Meters \ Virtual), NEW r \in Replies(S), NEW T,
           NEW m \in Meters \ Virtual, m \notin Answered(r), fvalue[m] = 0
    PROVE  executeMeterFormulas(r, T)[m] = 0
  <1>1. m \in DOMAIN r => r[m] \in {NoReply, NoConnection}
    BY DEF Replies, Answered
  <1>2. queryMeter(r, m) = 0
    BY <1>1 DEF queryMeter
  <1>3. QED
    BY <1>2 DEF executeMeterFormulas

(***************************************************************************)
(* The window with the 0 that is merged into it; only the first window of  *)
(* a meter the initial query missed has one.                               *)
(***************************************************************************)
LEMMA MergedType ==
    ASSUME TypeOK, NEW m \in Meters
    PROVE  /\ Merged(m) \in Seq(Int)
           /\ window[m] # <<>> => Merged(m) # <<>>
           /\ Merged(m) = <<>> => window[m] = <<>> /\ (m \in started \/ Mult[m] = 0)
  <1>1. window[m] \in Seq(Int)
    BY DEF TypeOK
  <1>2. QED
    BY <1>1, ZeroFirst DEF Merged

LEMMA InitIInv == Init => IInv
  <1> SUFFICES ASSUME Init PROVE IInv
    OBVIOUS
  <1>1. TypeOK
    <2>1. window \in [Meters -> Seq(Int)]
      BY DEF Init
    <2>2. \A m \in Meters : countdown[m] \in IF Mult[m] = 0 THEN {0} ELSE -1..Mult[m]
      <3> SUFFICES ASSUME NEW m \in Meters
                   PROVE  countdown[m] \in IF Mult[m] = 0 THEN {0} ELSE -1..Mult[m]
        OBVIOUS
      <3>1. Mult[m] \in Nat
        BY ConfigAssumption
      <3>2. countdown[m] = IF Mult[m] = 0 THEN 0 ELSE -1
        BY DEF Init
      <3>3. QED
        BY <3>1, <3>2
    <2>3. dryrun \in Nat
      BY ConfigAssumption DEF Init
    <2>4. /\ fvalue \in [Meters -> Int] /\ fvalueInflux \in [Meters -> Int]
          /\ fvalueInfluxLast \in [Meters -> Int]
          /\ \A m \in Meters \ Virtual : fvalue[m] \in Values \cup {0}
      BY DEF Init
    <2>5. /\ pc = "start" /\ terminated = FALSE /\ isFirstQuery = TRUE
          /\ read = {} /\ started = {} /\ published = {}
      BY DEF Init
    <2>6. QED
      BY <2>1, <2>2, <2>3, <2>4, <2>5 DEF TypeOK
  <1>2. FirstRoundFirst
    BY DEF Init, FirstRoundFirst
  <1>3. CountFollowsReadings
    BY DEF Init, CountFollowsReadings, Enabled
  <1>4. ValueFollowsReadings
    <2> SUFFICES ASSUME NEW m \in Enabled, Merged(m) # <<>>
                 PROVE  Bounded(Merged(m)) /\ Summary(Proc[m], Merged(m), fvalueInflux[m])
      BY DEF ValueFollowsReadings
    <2>1. m \in Meters /\ window[m] = <<>> /\ fvalueInflux[m] = 0
      BY DEF Init, Enabled
    <2>2. Merged(m) = <<0>>
      BY <2>1, ZeroFirst DEF Merged
    <2>3. QED
      BY <2>1, <2>2, OneReading
  <1>5. QED
    BY <1>1, <1>2, <1>3, <1>4 DEF IInv

\* The initial query opens the first window of every meter it can read.
LEMMA InitialQueryIInv == IInv /\ queryMeters => IInv'
  <1> SUFFICES ASSUME IInv, queryMeters PROVE IInv'
    OBVIOUS
  <1>1. PICK r \in Replies(Polled(Meters)) :
            /\ read' = Answered(r) \cup Virtual
            /\ fvalue' = executeMeterFormulas(r, Enabled)
            /\ terminated' = (terminated \/ (Answered(r) = {} /\ Disabled \subseteq Virtual))
    BY DEF queryMeters
  <1>2. TypeOK
    BY DEF IInv
  <1>3. Polled(Meters) \in SUBSET (Meters \ Virtual)
    BY DEF Polled
  <1>4. /\ fvalue' \in [Meters -> Int]
        /\ \A m \in Meters \ Virtual : fvalue'[m] \in Values \cup {0}
        /\ read' \subseteq Meters
    BY <1>1, <1>2, <1>3, QueryType, ConfigAssumption
  <1>5. /\ pc = "start" /\ pc' = "loop" /\ isFirstQuery' = isFirstQuery
        /\ started' = read' /\ dryrun' = dryrun
        /\ fvalueInfluxLast' = fvalueInflux
        /\ published' = published
        /\ window' = [m \in Meters |-> IF m \in read' THEN <<fvalue'[m]>> ELSE <<>>]
    BY DEF queryMeters, outputs
  <1>6. \A m \in Enabled : m \in Meters /\ StartsWindow(m) /\ CountdownAfterRead(m) = 0
    BY <1>2, <1>5, ConfigAssumption
    DEF IInv, CountFollowsReadings, Enabled, StartsWindow, CountdownAfterRead
  <1>7. fvalueInflux' = [m \in Meters |->
                          IF m \in Disabled THEN fvalue'[m]
                          ELSE executeInfluxWriteCalc(m, fvalueInflux[m])]
    BY DEF queryMeters
  <1>8. \A m \in Meters : fvalueInflux'[m] = fvalue'[m]
    BY <1>6, <1>7 DEF executeInfluxWriteCalc, Enabled
  <1>9. countdown' = [m \in Meters |->
                       IF m \in Disabled THEN countdown[m] ELSE CountdownAfterRead(m)]
    BY DEF queryMeters
  <1>10. TypeOK'
    <2>1. fvalueInflux' \in [Meters -> Int]
      BY <1>4, <1>7, <1>8
    <2>2. \A m \in Meters :
             countdown'[m] \in IF Mult[m] = 0 THEN {0} ELSE -1..Mult[m]
      BY <1>2, <1>6, <1>9, ConfigAssumption DEF TypeOK, Enabled
    <2>3. window' \in [Meters -> Seq(Int)]
      BY <1>4, <1>5
    <2>4. terminated' \in BOOLEAN
      BY <1>1, <1>2 DEF TypeOK
    <2>5. QED
      BY <1>2, <1>4, <1>5, <2>1, <2>2, <2>3, <2>4 DEF TypeOK, Enabled
  <1>11. FirstRoundFirst'
    BY <1>5 DEF FirstRoundFirst
  <1>12. isFirstQuery'
    BY <1>5 DEF IInv, FirstRoundFirst
  <1>13. CountFollowsReadings'
    <2>1. \A m \in Enabled : /\ countdown'[m] = 0
                             /\ Len(window'[m]) = IF m \in read' THEN 1 ELSE 0
      BY <1>4, <1>5, <1>6, <1>9 DEF Enabled
    <2>2. QED
      BY <1>5, <1>12, <2>1 DEF CountFollowsReadings
  <1>14. ValueFollowsReadings'
    <2> SUFFICES ASSUME NEW m \in Enabled, Merged(m)' # <<>>
                 PROVE  /\ Bounded(Merged(m)')
                        /\ Summary(Proc[m], Merged(m)', fvalueInflux'[m])
      BY DEF ValueFollowsReadings
    <2>1. m \in Meters /\ fvalue'[m] \in Int
      BY <1>4 DEF Enabled
    <2>2. CASE m \in read'
      <3>1. Merged(m)' = <<fvalue'[m]>>
        BY <1>5, <2>1, <2>2 DEF Merged
      <3>2. QED
        BY <1>8, <2>1, <3>1, OneReading
    <2>3. CASE m \notin read'
      <3>1. fvalue'[m] = 0
        <4>1. m \in Meters \ Virtual /\ m \notin Answered(r) /\ fvalue[m] = 0
          BY <1>1, <1>5, <2>1, <2>3 DEF IInv, FirstRoundFirst
        <4>2. QED
          BY <1>1, <1>3, <4>1, UnreadIsZero
      <3>2. window'[m] = <<>> /\ m \notin started'
        BY <1>5, <2>1, <2>3
      <3>3. Merged(m)' = <<0>>
        BY <3>2, ZeroFirst DEF Merged
      <3>4. QED
        BY <1>8, <2>1, <3>1, <3>3, OneReading
    <2>4. QED
      BY <2>2, <2>3
  <1>15. QED
    BY <1>10, <1>11, <1>13, <1>14 DEF IInv

\* A round appends what was read to the windows and sums it up.
LEMMA RoundIInv ==
    ASSUME IInv, NEW due \in SUBSET Enabled, cron_queryMeters(due)
    PROVE  IInv'
  <1>1. PICK r \in Replies(Polled(due)) :
            /\ read' = Answered(r) \cup (due \cap Virtual)
            /\ fvalue' = executeMeterFormulas(r, read')
    BY DEF cron_queryMeters
  <1>2. TypeOK
    BY DEF IInv
  <1>3. Polled(due) \in SUBSET (Meters \ Virtual) /\ Polled(due) \subseteq due
    BY DEF Polled, Enabled
  <1>4. /\ fvalue' \in [Meters -> Int]
        /\ \A m \in Meters \ Virtual : fvalue'[m] \in Values \cup {0}
        /\ read' \subseteq due /\ due \subseteq Meters
    BY <1>1, <1>2, <1>3, QueryType, ConfigAssumption DEF Enabled
  <1>5. /\ pc = "loop" /\ pc' \in {"loop", "send"} /\ (pc' = "loop" => read' = {})
        /\ ~isFirstQuery /\ isFirstQuery' = isFirstQuery
        /\ started' = started /\ dryrun' = dryrun /\ terminated' = terminated
        /\ published' = published
        /\ fvalueInfluxLast' = [m \in Meters |-> IF m \in due THEN fvalueInflux[m]
                                                 ELSE fvalueInfluxLast[m]]
        /\ fvalueInflux' = [m \in Meters |->
                              IF m \in TakenOver(due)
                              THEN executeInfluxWriteCalc(m, fvalueInfluxLast'[m])
                              ELSE fvalueInflux[m]]
        /\ countdown' = [m \in Meters |->
                           IF m \in TakenOver(due) THEN CountdownAfterRead(m)
                           ELSE countdown[m]]
        /\ window' = [m \in Meters |-> IF m \in read' THEN Append(window[m], fvalue'[m])
                                       ELSE window[m]]
    BY DEF cron_queryMeters, outputs
  <1>6. TakenOver(due) = read'
    BY <1>4 DEF TakenOver
  <1>7. \A m \in read' : /\ m \in Meters /\ fvalue'[m] \in Int
                         /\ fvalueInflux[m] \in Int
                         /\ Proc[m] \in {"last", "max", "min", "avg"}
                         /\ fvalueInfluxLast'[m] = fvalueInflux[m]
                         /\ fvalueInflux'[m] = executeInfluxWriteCalc(m, fvalueInflux[m])
                         /\ window[m] \in Seq(Int)
                         /\ window'[m] = Append(window[m], fvalue'[m])
    BY <1>2, <1>4, <1>5, <1>6, ConfigAssumption DEF TypeOK
  <1>8. \A m \in Meters : m \notin read' => /\ fvalueInflux'[m] = fvalueInflux[m]
                                            /\ window'[m] = window[m]
                                            /\ countdown'[m] = countdown[m]
    BY <1>5, <1>6
  <1>9. \A m \in read' : countdown'[m] = CountdownAfterRead(m)
    BY <1>5, <1>6, <1>7
  <1>10. TypeOK'
    <2>1. \A m \in Meters : fvalueInflux'[m] \in Int
      BY <1>2, <1>7, <1>8, MergeType, ZenonT(30) DEF executeInfluxWriteCalc, TypeOK
    <2>2. fvalueInflux' \in [Meters -> Int] /\ fvalueInfluxLast' \in [Meters -> Int]
      BY <1>2, <1>5, <2>1 DEF TypeOK
    <2>3. \A m \in Meters :
             countdown'[m] \in IF Mult[m] = 0 THEN {0} ELSE -1..Mult[m]
      <3> SUFFICES ASSUME NEW m \in Meters
                   PROVE  countdown'[m] \in IF Mult[m] = 0 THEN {0} ELSE -1..Mult[m]
        OBVIOUS
      <3>1. Mult[m] \in Nat
        BY ConfigAssumption
      <3>2. countdown[m] \in IF Mult[m] = 0 THEN {0} ELSE -1..Mult[m]
        BY <1>2 DEF TypeOK
      <3>3. CountdownAfterRead(m) \in IF Mult[m] = 0 THEN {0} ELSE -1..Mult[m]
        BY <3>1, <3>2 DEF CountdownAfterRead
      <3>4. QED
        BY <1>8, <1>9, <3>2, <3>3
    <2>4. window' \in [Meters -> Seq(Int)]
      BY <1>2, <1>4, <1>5 DEF TypeOK
    <2>5. QED
      BY <1>2, <1>4, <1>5, <2>2, <2>3, <2>4 DEF TypeOK, Enabled
  <1>11. FirstRoundFirst'
    BY <1>5 DEF FirstRoundFirst
  <1>12. CountFollowsReadings'
    <2> SUFFICES ASSUME NEW m \in Enabled
                 PROVE  LET n == Len(window'[m]) IN
                     \/ /\ Mult[m] = 0 /\ countdown'[m] = 0
                        /\ n = IF pc' = "send" /\ m \in read' THEN 1 ELSE 0
                     \/ /\ n = 0 /\ ~(pc' = "send" /\ m \in read') /\ Mult[m] > 0
                        /\ countdown'[m] = IF m \in started THEN Mult[m] ELSE 0
                     \/ /\ n \in 1..Mult[m] /\ countdown'[m] = Mult[m] - n
                        /\ n = Mult[m] => pc' = "send" /\ m \in read'
      BY <1>5 DEF CountFollowsReadings, JustRead
    <2>1. m \in Meters /\ Mult[m] \in Nat /\ window[m] \in Seq(Int) /\ Len(window[m]) \in Nat
      BY <1>2, ConfigAssumption DEF Enabled, TypeOK
    <2>2. \/ Mult[m] = 0 /\ countdown[m] = 0 /\ Len(window[m]) = 0
          \/ /\ Len(window[m]) = 0 /\ Mult[m] > 0
             /\ countdown[m] = IF m \in started THEN Mult[m] ELSE 0
          \/ /\ Len(window[m]) \in 1..Mult[m] /\ countdown[m] = Mult[m] - Len(window[m])
             /\ Len(window[m]) # Mult[m]
      BY <1>5 DEF IInv, CountFollowsReadings, JustRead
    <2>3. CASE m \in read'
      <3>1. Len(window'[m]) = Len(window[m]) + 1
        BY <1>7, <2>3, AppendReading
      <3>2. countdown'[m] = CountdownAfterRead(m) /\ pc' = "send"
        BY <1>5, <1>9, <2>3
      <3>3. CASE Mult[m] = 0 /\ countdown[m] = 0 /\ Len(window[m]) = 0
        BY <2>3, <3>1, <3>2, <3>3 DEF CountdownAfterRead
      <3>4. CASE /\ Len(window[m]) = 0 /\ Mult[m] > 0
                 /\ countdown[m] = Mult[m] \/ countdown[m] = 0
        <4>1. countdown'[m] = Mult[m] - 1
          BY <2>1, <3>2, <3>4 DEF CountdownAfterRead
        <4>2. QED
          BY <2>1, <2>3, <3>1, <3>2, <3>4, <4>1
      <3>5. CASE /\ Len(window[m]) \in 1..Mult[m] /\ Len(window[m]) # Mult[m]
                 /\ countdown[m] = Mult[m] - Len(window[m])
        <4>1. countdown'[m] = countdown[m] - 1
          BY <2>1, <3>2, <3>5 DEF CountdownAfterRead
        <4>2. QED
          BY <2>1, <2>3, <3>1, <3>2, <3>5, <4>1
      <3>6. QED
        BY <2>2, <3>3, <3>4, <3>5
    <2>4. CASE m \notin read'
      BY <1>8, <2>1, <2>2, <2>4
    <2>5. QED
      BY <2>3, <2>4
  <1>13. ValueFollowsReadings'
    <2> SUFFICES ASSUME NEW m \in Enabled, Merged(m)' # <<>>
                 PROVE  /\ Bounded(Merged(m)')
                        /\ Summary(Proc[m], Merged(m)', fvalueInflux'[m])
      BY DEF ValueFollowsReadings
    <2>1. m \in Meters /\ Mult[m] \in Nat /\ window[m] \in Seq(Int)
      BY <1>2, ConfigAssumption DEF Enabled, TypeOK
    <2>2. Merged(m) # <<>> => /\ Bounded(Merged(m))
                              /\ Summary(Proc[m], Merged(m), fvalueInflux[m])
      BY DEF IInv, ValueFollowsReadings
    <2>3. CASE m \notin read'
      <3>1. Merged(m)' = Merged(m) /\ fvalueInflux'[m] = fvalueInflux[m]
        BY <1>5, <1>8, <2>1, <2>3 DEF Merged
      <3>2. QED
        BY <2>2, <3>1
    <2>4. CASE m \in read'
      <3>1. Merged(m)' = Append(Merged(m), fvalue'[m])
        BY <1>5, <1>7, <2>1, <2>4, ZeroFirst DEF Merged
      <3>2. Merged(m) \in Seq(Int)
        BY <1>2, <2>1, MergedType
      <3>3. Bounded(Merged(m)')
        BY <1>7, <2>2, <2>4, <3>1, <3>2, BoundedAppend
      <3>4. CASE Merged(m) = <<>>
        <4>1. window[m] = <<>> /\ Len(window[m]) = 0 /\ (m \in started \/ Mult[m] = 0)
          BY <1>2, <2>1, <3>4, MergedType
        <4>2. StartsWindow(m)
          BY <1>5, <2>1, <4>1 DEF IInv, CountFollowsReadings, StartsWindow
        <4>3. fvalueInflux'[m] = fvalue'[m]
          BY <1>7, <2>4, <4>2 DEF executeInfluxWriteCalc
        <4>4. Merged(m)' = <<fvalue'[m]>>
          BY <1>7, <2>4, <3>1, <3>4
        <4>5. QED
          BY <1>7, <2>4, <3>3, <4>3, <4>4, OneReading
      <3>5. CASE Merged(m) # <<>>
        <4>1. Len(window[m]) \in Nat /\ (Len(window[m]) > 0 \/ (m \notin started /\ Mult[m] > 0))
          BY <2>1, <3>5 DEF Merged
        <4>2. ~StartsWindow(m)
          BY <1>5, <2>1, <4>1
          DEF IInv, CountFollowsReadings, StartsWindow, JustRead
        <4>3. fvalueInflux'[m] = Merge(m, fvalue'[m], fvalueInflux[m])
          BY <1>7, <2>4, <4>2 DEF executeInfluxWriteCalc
        <4>4. QED
          BY <1>7, <2>2, <2>4, <3>1, <3>2, <3>3, <3>5, <4>3, MergeSumsUp
      <3>6. QED
        BY <3>4, <3>5
    <2>5. QED
      BY <2>3, <2>4
  <1>14. QED
    BY <1>10, <1>11, <1>12, <1>13 DEF IInv

\* The end of a round closes the windows that are written.
LEMMA SendIInv == IInv /\ Send => IInv'
  <1> SUFFICES ASSUME IInv, Send PROVE IInv'
    OBVIOUS
  <1>1. TypeOK
    BY DEF IInv
  <1>2. /\ pc = "send" /\ pc' = "loop" /\ isFirstQuery' = FALSE
        /\ read' = read /\ started' = started \cup WriteDue
        /\ fvalue' = fvalue /\ fvalueInflux' = fvalueInflux
        /\ fvalueInfluxLast' = fvalueInfluxLast
        /\ countdown' = [m \in Meters |-> IF m \in WriteDue THEN Mult[m] ELSE countdown[m]]
        /\ window' = [m \in Meters |-> IF m \in WriteDue THEN <<>> ELSE window[m]]
    BY DEF Send, values
  <1>3. WriteDue \subseteq Meters /\ \A m \in Meters : m \in WriteDue <=> m \in read /\ countdown[m] = 0
    BY <1>1 DEF WriteDue, TypeOK
  <1>4. TypeOK'
    <2>1. dryrun' \in Nat
      <3>1. dryrun \in Nat /\ dryrun' = IF dryrun = 0 THEN 0 ELSE dryrun - 1
        BY <1>1 DEF Send, TypeOK
      <3>2. QED
        BY <3>1
    <2>2. published' \subseteq Enabled
      BY <1>1 DEF Send, TypeOK, outputs
    <2>3. terminated' \in BOOLEAN
      BY <1>1 DEF Send, TypeOK
    <2>4. \A m \in Meters :
             countdown'[m] \in IF Mult[m] = 0 THEN {0} ELSE -1..Mult[m]
      <3> SUFFICES ASSUME NEW m \in Meters
                   PROVE  countdown'[m] \in IF Mult[m] = 0 THEN {0} ELSE -1..Mult[m]
        OBVIOUS
      <3>1. Mult[m] \in Nat
        BY ConfigAssumption
      <3>2. countdown[m] \in IF Mult[m] = 0 THEN {0} ELSE -1..Mult[m]
        BY <1>1 DEF TypeOK
      <3>3. countdown'[m] \in {Mult[m], countdown[m]}
        BY <1>2
      <3>4. QED
        BY <3>1, <3>2, <3>3
    <2>5. window' \in [Meters -> Seq(Int)]
      <3>1. \A m \in Meters : window'[m] \in Seq(Int)
        BY <1>1, <1>2 DEF TypeOK
      <3>2. QED
        BY <1>2, <3>1
    <2>6. started' \subseteq Meters
      BY <1>1, <1>2, <1>3 DEF TypeOK
    <2>7. QED
      BY <1>1, <1>2, <2>1, <2>2, <2>3, <2>4, <2>5, <2>6 DEF TypeOK
  <1>5. FirstRoundFirst'
    BY <1>2 DEF FirstRoundFirst
  <1>6. CountFollowsReadings'
    <2> SUFFICES ASSUME NEW m \in Enabled
                 PROVE  LET n == Len(window'[m]) IN
                     \/ Mult[m] = 0 /\ countdown'[m] = 0 /\ n = 0
                     \/ /\ n = 0 /\ Mult[m] > 0
                        /\ countdown'[m] = IF m \in started' THEN Mult[m] ELSE 0
                     \/ /\ n \in 1..Mult[m] /\ countdown'[m] = Mult[m] - n
                        /\ n # Mult[m]
      BY <1>2 DEF CountFollowsReadings, JustRead
    <2>1. m \in Meters /\ Mult[m] \in Nat /\ window[m] \in Seq(Int) /\ Len(window[m]) \in Nat
      BY <1>1, ConfigAssumption DEF Enabled, TypeOK
    <2>2. \/ /\ isFirstQuery /\ countdown[m] = 0
             /\ Len(window[m]) = IF m \in read THEN 1 ELSE 0
          \/ /\ Mult[m] = 0 /\ countdown[m] = 0
             /\ Len(window[m]) = IF m \in read THEN 1 ELSE 0
          \/ /\ Len(window[m]) = 0 /\ Mult[m] > 0 /\ m \notin read
             /\ countdown[m] = IF m \in started THEN Mult[m] ELSE 0
          \/ /\ Len(window[m]) \in 1..Mult[m] /\ countdown[m] = Mult[m] - Len(window[m])
             /\ Len(window[m]) = Mult[m] => m \in read
      BY <1>2, <2>1 DEF IInv, CountFollowsReadings, JustRead
    <2>3. isFirstQuery => read = started
      BY <1>2 DEF IInv, FirstRoundFirst
    <2>4. CASE m \in WriteDue
      <3>1. Len(window'[m]) = 0 /\ countdown'[m] = Mult[m] /\ m \in started'
        BY <1>2, <2>1, <2>4
      <3>2. QED
        BY <2>1, <3>1
    <2>5. CASE m \notin WriteDue
      <3>1. /\ window'[m] = window[m] /\ countdown'[m] = countdown[m]
            /\ m \in started' <=> m \in started
        BY <1>2, <2>1, <2>5
      <3>2. m \notin read \/ countdown[m] # 0
        BY <1>3, <2>1, <2>5
      <3>3. QED
        BY <2>1, <2>2, <2>3, <3>1, <3>2
    <2>6. QED
      BY <2>4, <2>5
  <1>7. ValueFollowsReadings'
    <2> SUFFICES ASSUME NEW m \in Enabled, Merged(m)' # <<>>
                 PROVE  /\ Bounded(Merged(m)')
                        /\ Summary(Proc[m], Merged(m)', fvalueInflux'[m])
      BY DEF ValueFollowsReadings
    <2>1. m \in Meters
      BY DEF Enabled
    <2>2. m \notin WriteDue
      BY <1>2, <2>1 DEF Merged
    <2>3. Merged(m)' = Merged(m)
      BY <1>2, <2>1, <2>2 DEF Merged
    <2>4. QED
      BY <1>2, <2>3 DEF IInv, ValueFollowsReadings
  <1>8. QED
    BY <1>4, <1>5, <1>6, <1>7 DEF IInv

\* The steps that read and send nothing.
LEMMA QuietIInv ==
    ASSUME IInv,
           \/ FirstRound \/ sigterm_handler \/ Leave
           \/ UNCHANGED vars
    PROVE  IInv'
  <1>1. /\ isFirstQuery' = isFirstQuery /\ dryrun' = dryrun /\ read' = read
        /\ fvalue' = fvalue /\ fvalueInflux' = fvalueInflux
        /\ fvalueInfluxLast' = fvalueInfluxLast
        /\ countdown' = countdown /\ published' = published
        /\ window' = window /\ started' = started
    BY DEF FirstRound, sigterm_handler, Leave, vars, values, outputs
  <1>2. /\ terminated' \in BOOLEAN /\ pc' \in {"start", "loop", "send", "end"}
        /\ pc' = "start" <=> pc = "start"
        /\ pc = "send" => pc' = "send"
        /\ pc' = "send" => pc = "send" \/ isFirstQuery
    BY DEF FirstRound, sigterm_handler, Leave, vars, IInv, TypeOK
  <1>3. TypeOK'
    BY <1>1, <1>2 DEF IInv, TypeOK
  <1>4. FirstRoundFirst'
    BY <1>1, <1>2 DEF IInv, FirstRoundFirst
  <1>5. CountFollowsReadings'
    <2>1. CASE isFirstQuery
      BY <1>1, <1>2, <2>1 DEF IInv, CountFollowsReadings
    <2>2. CASE ~isFirstQuery
      <3>1. (pc' = "send") = (pc = "send")
        BY <1>2, <2>2
      <3>2. QED
        BY <1>1, <1>2, <2>2, <3>1 DEF IInv, CountFollowsReadings, JustRead
    <2>3. QED
      BY <2>1, <2>2 DEF IInv, TypeOK
  <1>6. ValueFollowsReadings'
    BY <1>1, <1>2 DEF IInv, ValueFollowsReadings, Merged
  <1>7. QED
    BY <1>3, <1>4, <1>5, <1>6 DEF IInv

LEMMA NextIInv == IInv /\ [Next]_vars => IInv'
  <1> SUFFICES ASSUME IInv, [Next]_vars PROVE IInv'
    OBVIOUS
  <1>1. CASE queryMeters
    BY <1>1, InitialQueryIInv
  <1>2. CASE Round
    <2>1. PICK S \in SUBSET Schedules :
             cron_queryMeters((UNION {Members[s] : s \in S}) \ Disabled)
      BY <1>2 DEF Round
    <2>2. (UNION {Members[s] : s \in S}) \ Disabled \in SUBSET Enabled
      <3>1. \A s \in S : Members[s] \subseteq Meters
        BY ConfigAssumption
      <3>2. UNION {Members[s] : s \in S} \subseteq Meters
        BY <3>1, Zenon
      <3>3. QED
        BY <3>2 DEF Enabled
    <2>3. QED
      BY <2>1, <2>2, RoundIInv
  <1>3. CASE Send
    BY <1>3, SendIInv
  <1>4. CASE FirstRound \/ sigterm_handler \/ Leave \/ UNCHANGED vars
    BY <1>4, QuietIInv
  <1>5. QED
    BY <1>1, <1>2, <1>3, <1>4 DEF Next, MainLoop

(***************************************************************************)
(* The countdown and the values for InfluxDB always follow the readings    *)
(* since the last write.                                                   *)
(***************************************************************************)
THEOREM Invariance == Spec => []IInv
  BY InitIInv, NextIInv, PTL DEF Spec

\* Every variable keeps its type; a countdown stays within influxwritemult.
THEOREM TypeCorrect == Spec => []TypeOK
  <1>1. IInv => TypeOK
    BY DEF IInv
  <1>2. QED
    BY <1>1, Invariance, PTL

(***************************************************************************)
(* A write covers influxwritemult readings, whichever of them failed in    *)
(* between and whichever schedules asked for them; only the first write    *)
(* covers the initial reading alone.                                       *)
(***************************************************************************)
THEOREM WritesEveryNth == Spec => EveryNthReading
  <1> DEFINE A == Sending => \A m \in WriteDue \ Disabled :
                     \/ Len(window[m]) = IF Mult[m] = 0 THEN 1 ELSE Mult[m]
                     \/ isFirstQuery /\ Len(window[m]) = 1
  <1>1. IInv => A
    <2> SUFFICES ASSUME IInv, Sending, NEW m \in WriteDue \ Disabled
                 PROVE  \/ Len(window[m]) = IF Mult[m] = 0 THEN 1 ELSE Mult[m]
                        \/ isFirstQuery /\ Len(window[m]) = 1
      OBVIOUS
    <2>1. m \in Enabled /\ m \in Meters /\ JustRead(m) /\ countdown[m] = 0 /\ Mult[m] \in Nat
      BY ConfigAssumption DEF IInv, TypeOK, WriteDue, Sending, JustRead, Enabled
    <2>2. Len(window[m]) \in Nat
      BY <2>1 DEF IInv, TypeOK
    <2>3. \/ isFirstQuery /\ Len(window[m]) = 1
          \/ Mult[m] = 0 /\ Len(window[m]) = 1
          \/ Len(window[m]) \in 1..Mult[m] /\ 0 = Mult[m] - Len(window[m])
      BY <2>1, <2>2 DEF IInv, CountFollowsReadings, Sending, JustRead
    <2>4. CASE Mult[m] = 0 /\ Len(window[m]) = 1
      BY <2>4
    <2>5. CASE Len(window[m]) \in 1..Mult[m] /\ 0 = Mult[m] - Len(window[m])
      <3>1. Mult[m] # 0 /\ Len(window[m]) = Mult[m]
        BY <2>1, <2>2, <2>5
      <3>2. QED
        BY <3>1
    <2>6. QED
      BY <2>3, <2>4, <2>5
  <1>2. IInv /\ [Next]_vars => [A]_vars
    BY <1>1
  <1>3. QED
    BY <1>2, Invariance, PTL DEF Spec, EveryNthReading

(***************************************************************************)
(* The greatest and the smallest reading of a bounded window.              *)
(***************************************************************************)
LEMMA MaxMin ==
    ASSUME NEW w \in Seq(Int), Bounded(w)
    PROVE  /\ Max(Readings(w)) \in Readings(w)
           /\ \A x \in Readings(w) : x <= Max(Readings(w))
           /\ Min(Readings(w)) \in Readings(w)
           /\ \A x \in Readings(w) : Min(Readings(w)) <= x
  <1>1. PICK i \in DOMAIN w, j \in DOMAIN w : \A k \in DOMAIN w : w[i] <= w[k] /\ w[k] <= w[j]
    BY DEF Bounded
  <1>2. Readings(w) \subseteq Int
    BY DEF Readings
  <1>3. \E x \in Readings(w) : \A y \in Readings(w) : x >= y
    <2>1. w[j] \in Readings(w)
      BY DEF Readings
    <2>2. \A y \in Readings(w) : w[j] >= y
      BY <1>1, <1>2, <2>1 DEF Readings
    <2>3. QED
      BY <2>1, <2>2, Zenon
  <1>4. \E x \in Readings(w) : \A y \in Readings(w) : x <= y
    <2>1. w[i] \in Readings(w)
      BY DEF Readings
    <2>2. \A y \in Readings(w) : w[i] <= y
      BY <1>1, <1>2, <2>1 DEF Readings
    <2>3. QED
      BY <2>1, <2>2
  <1>5. Max(Readings(w)) \in Readings(w) /\ \A y \in Readings(w) : Max(Readings(w)) >= y
    BY <1>3, Zenon DEF Max
  <1>6. Min(Readings(w)) \in Readings(w) /\ \A y \in Readings(w) : Min(Readings(w)) <= y
    BY <1>4, Zenon DEF Min
  <1>7. QED
    BY <1>2, <1>5, <1>6

\* What is written of a meter sums up its window.
LEMMA PostSumsUp ==
    ASSUME IInv, Posting, Send, NEW m \in WriteDue \ Disabled
    PROVE  /\ m \in Meters /\ Merged(m) \in Seq(Int)
           /\ written'[m] = fvalueInflux[m] /\ fvalueInflux[m] \in Int
           /\ Bounded(Merged(m))
           /\ Summary(Proc[m], Merged(m), written'[m])
  <1>1. m \in Enabled /\ m \in Meters /\ JustRead(m) /\ countdown[m] = 0 /\ Mult[m] \in Nat
    BY ConfigAssumption DEF IInv, TypeOK, WriteDue, Posting, Sending, JustRead, Enabled
  <1>2. window[m] \in Seq(Int) /\ fvalueInflux[m] \in Int
    BY <1>1 DEF IInv, TypeOK
  <1>3. Len(window[m]) # 0
    BY <1>1, <1>2 DEF IInv, CountFollowsReadings, Posting, Sending, JustRead
  <1>4. window[m] # <<>>
    BY <1>3
  <1>5. Merged(m) \in Seq(Int) /\ Merged(m) # <<>>
    BY <1>1, <1>4, MergedType DEF IInv
  <1>6. written'[m] = fvalueInflux[m]
    BY DEF Send, Posting, Posted
  <1>7. QED
    BY <1>1, <1>2, <1>5, <1>6 DEF IInv, ValueFollowsReadings

\* The only step that ends a round is Send.
LEMMA OnlySendEndsRound == IInv /\ [Next]_vars /\ Sending => Send
  BY DEF Next, MainLoop, queryMeters, FirstRound, Round, cron_queryMeters, Leave,
         sigterm_handler, Sending, vars

(***************************************************************************)
(* influxwritemult with imax and imin: the value written is the greatest   *)
(* or the smallest of the readings the write covers, without an option the *)
(* last one, whatever failed in between; only the first write of a meter   *)
(* the initial query missed counts a 0 as well.                            *)
(***************************************************************************)
THEOREM WritesTheAggregate == Spec => WritesAggregate
  <1> DEFINE A == Posting => \A m \in WriteDue \ Disabled :
                     Proc[m] # "avg" => written'[m] = Aggregate(m, Merged(m))
  <1>1. IInv /\ [Next]_vars => A
    <2> SUFFICES ASSUME IInv, [Next]_vars, Posting, NEW m \in WriteDue \ Disabled,
                        Proc[m] # "avg"
                 PROVE  written'[m] = Aggregate(m, Merged(m))
      OBVIOUS
    <2> DEFINE w == Merged(m)
    <2>1. Send
      BY OnlySendEndsRound DEF Posting
    <2>2. /\ m \in Meters /\ w \in Seq(Int)
          /\ written'[m] \in Int /\ Bounded(w)
          /\ Summary(Proc[m], w, written'[m])
      BY <2>1, PostSumsUp
    <2>3. Proc[m] \in {"last", "max", "min", "avg"}
      BY <2>2, ConfigAssumption
    <2> HIDE DEF w
    <2>4. Readings(w) \subseteq Int
      BY <2>2 DEF Readings
    <2>5. CASE Proc[m] = "max"
      <3>1. written'[m] \in Readings(w) /\ \A x \in Readings(w) : x <= written'[m]
        BY <2>2, <2>5 DEF Summary, Readings
      <3>2. written'[m] = Max(Readings(w))
        BY <2>2, <2>4, <3>1, MaxMin
      <3>3. QED
        BY <2>5, <3>2 DEF Aggregate, w
    <2>6. CASE Proc[m] = "min"
      <3>1. written'[m] \in Readings(w) /\ \A x \in Readings(w) : written'[m] <= x
        BY <2>2, <2>6 DEF Summary, Readings
      <3>2. written'[m] = Min(Readings(w))
        BY <2>2, <2>4, <3>1, MaxMin
      <3>3. QED
        BY <2>6, <3>2 DEF Aggregate, w
    <2>7. CASE Proc[m] = "last"
      BY <2>2, <2>7 DEF Summary, Aggregate, w
    <2>8. QED
      BY <2>3, <2>5, <2>6, <2>7
  <1>2. IInv /\ [Next]_vars => [A]_vars
    BY <1>1
  <1>3. QED
    BY <1>2, Invariance, PTL DEF Spec, WritesAggregate

(***************************************************************************)
(* iavg: the value written lies between the smallest and the greatest of   *)
(* the readings the write covers, and the 0 of a first window.             *)
(***************************************************************************)
THEOREM AverageLiesBetween == Spec => WritesBetween
  <1> DEFINE A == Posting => \A m \in WriteDue \ Disabled :
                     Proc[m] = "avg" =>
                        written'[m] \in Min(Readings(Merged(m)))..Max(Readings(Merged(m)))
  <1>1. IInv /\ [Next]_vars => A
    <2> SUFFICES ASSUME IInv, [Next]_vars, Posting, NEW m \in WriteDue \ Disabled,
                        Proc[m] = "avg"
                 PROVE  written'[m] \in Min(Readings(Merged(m)))..Max(Readings(Merged(m)))
      OBVIOUS
    <2> DEFINE w == Merged(m)
    <2>1. Send
      BY OnlySendEndsRound DEF Posting
    <2>2. /\ m \in Meters /\ w \in Seq(Int)
          /\ written'[m] \in Int /\ Bounded(w)
          /\ Summary(Proc[m], w, written'[m])
      BY <2>1, PostSumsUp
    <2> HIDE DEF w
    <2>3. Readings(w) \subseteq Int
      BY <2>2 DEF Readings
    <2>4. \E a, b \in Readings(w) : a <= written'[m] /\ written'[m] <= b
      BY <2>2 DEF Summary, Readings
    <2>5. written'[m] \in Min(Readings(w))..Max(Readings(w))
      BY <2>2, <2>3, <2>4, MaxMin
    <2>6. QED
      BY <2>5 DEF w
  <1>2. IInv /\ [Next]_vars => [A]_vars
    BY <1>1
  <1>3. QED
    BY <1>2, Invariance, PTL DEF Spec, WritesBetween

-----------------------------------------------------------------------------
(***************************************************************************)
(* A dry run.  dryrun is both the number of rounds left and the switch     *)
(* that keeps the daemon from sending: it is 0 only when the loop is about *)
(* to end.                                                                 *)
(***************************************************************************)
Silent == /\ written = <<>> /\ published = {}
          /\ dryrun > 0 \/ (terminated /\ pc \in {"loop", "end"})

\* A silent daemon stays silent: the round that counts to 0 is the last.
LEMMA StaysSilent == TypeOK /\ Silent /\ [Next]_vars => Silent'
<1> SUFFICES ASSUME TypeOK, Silent, [Next]_vars PROVE Silent'
  OBVIOUS
<1>1. CASE queryMeters
  <2>1. /\ pc = "start" /\ pc' = "loop" /\ dryrun' = dryrun
        /\ written' = written /\ published' = published
    BY <1>1 DEF queryMeters, outputs
  <2>2. QED
    BY <2>1 DEF Silent
<1>2. CASE FirstRound
  BY <1>2 DEF FirstRound, Silent, outputs
<1>3. CASE Round
  <2>1. /\ ~terminated /\ dryrun' = dryrun /\ written' = written /\ published' = published
    BY <1>3 DEF Round, cron_queryMeters, outputs
  <2>2. QED
    BY <2>1 DEF Silent
<1>4. CASE Send
  <2>1. dryrun \in Nat /\ dryrun > 0
    BY <1>4 DEF Send, Silent, TypeOK
  <2>2. /\ written' = written /\ published' = published /\ dryrun' = dryrun - 1
        /\ terminated' = (terminated \/ dryrun = 1) /\ pc' = "loop"
    BY <1>4, <2>1 DEF Send, DryRunEnds, outputs
  <2>3. dryrun = 1 \/ dryrun' > 0
    BY <2>1, <2>2
  <2>4. QED
    BY <2>2, <2>3 DEF Silent
<1>5. CASE Leave
  BY <1>5 DEF Leave, Silent, outputs
<1>6. CASE sigterm_handler
  BY <1>6 DEF sigterm_handler, Silent, outputs
<1>7. CASE UNCHANGED vars
  BY <1>7 DEF vars, Silent, outputs
<1>8. QED
  BY <1>1, <1>2, <1>3, <1>4, <1>5, <1>6, <1>7 DEF Next, MainLoop

\* A daemon started as a dry run posts and publishes nothing, until its end.
THEOREM DryRunIsSilent == Spec => DryRunSendsNothing
<1>1. Init /\ dryrun > 0 => Silent
  BY DEF Init, Silent
<1>2. Silent => written = <<>> /\ published = {}
  BY DEF Silent
<1>3. Spec /\ dryrun > 0 => []Silent
  BY <1>1, StaysSilent, TypeCorrect, PTL DEF Spec
<1>4. QED
  BY <1>2, <1>3, PTL DEF DryRunSendsNothing
=============================================================================
