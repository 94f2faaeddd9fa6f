----------------------------- MODULE CronProofs -----------------------------
(***************************************************************************)
(* Theorems about the schedules, for every set of meters and schedules and *)
(* every expression: the inductive invariant of Cron and what it implies.  *)
(***************************************************************************)
EXTENDS Cron, FiniteSetTheorems, TLAPS

USE CronAssumption

-----------------------------------------------------------------------------
\* The marks of a round are numbers.
LEMMA MarkType == ASSUME NEW S \in SUBSET Schedules PROVE Mark(S) \in [Meters -> Nat]
<1>1. IsFiniteSet(Schedules)
  BY FS_AddElement DEF Schedules
<1>2. ASSUME NEW m \in Meters PROVE Cardinality({s \in S : m \in members[s]}) \in Nat
  BY <1>1, FS_Subset, FS_CardinalityType
<1>3. QED
  BY <1>2 DEF Mark

\* What CronAssumption says of the time after t.
LEMMA NextMatch ==
    ASSUME NEW e \in Expressions, NEW t \in Times
    PROVE  /\ CronNext[e][t] \in 1..(MaxTime + 1) /\ CronNext[e][t] > t
           /\ CronNext[e][t] \in 0..(MaxTime + 1)
  OBVIOUS

\* No match lies between a time and the next time computed from it.
LEMMA NothingBetween ==
    ASSUME NEW e \in Expressions, NEW t \in Times, NEW u \in Matches(e), u > t
    PROVE  CronNext[e][t] <= u
<1>1. PICK w \in Times : u = CronNext[e][w]
  BY DEF Matches
<1>2. /\ t \in Nat /\ w \in Nat /\ u \in Nat /\ CronNext[e][t] \in Nat
      /\ w < u /\ t < CronNext[e][t] /\ w <= MaxTime /\ t <= MaxTime
  BY <1>1, NextMatch DEF Times
<1>3. CASE w < CronNext[e][t]
  <2>1. CASE t <= w
    <3>1. w \in t..MaxTime
      BY <1>2, <2>1
    <3>2. QED
      BY <1>1, <1>3, <3>1, <1>2
  <2>2. CASE w < t
    <3>1. t \in w..MaxTime /\ t < CronNext[e][w]
      BY <1>1, <1>2, <2>2
    <3>2. CronNext[e][t] = CronNext[e][w]
      BY <3>1
    <3>3. QED
      BY <1>1, <1>2, <3>2
  <2>3. QED
    BY <1>2, <2>1, <2>2
<1>4. CASE w >= CronNext[e][t]
  BY <1>2, <1>4
<1>5. QED
  BY <1>2, <1>3, <1>4

-----------------------------------------------------------------------------
LEMMA InitIInv == Init => IInv
<1> SUFFICES ASSUME Init PROVE IInv
  OBVIOUS
<1>1. TypeOK
  BY DEF Init, TypeOK, Schedules, Times
<1>2. CountsNames /\ EveryMeterScheduled /\ NextIsNext /\ NoMatchForgotten
  BY DEF Init, CountsNames, EveryMeterScheduled, NextIsNext, NoMatchForgotten, Running
<1>3. QueriedAtMostOnce
  BY DEF Init, QueriedAtMostOnce
<1>4. QED
  BY <1>1, <1>2, <1>3 DEF IInv

LEMMA StepTypeOK == TypeOK /\ [Next]_vars => TypeOK'
<1> SUFFICES ASSUME TypeOK, [Next]_vars PROVE TypeOK'
  OBVIOUS
<1> USE DEF TypeOK
<1>1. ASSUME NEW s \in Schedules, NEW e \in Expressions, cron_add(s, e) PROVE TypeOK'
  <2>1. [cronExpr EXCEPT ![s] = e] \in [Schedules -> Expressions \cup {NoExpression}]
    OBVIOUS
  <2>2. CASE exit /\ UNCHANGED <<clock, roundVars>>
    BY <2>2 DEF exit, tableVars, clock, roundVars
  <2>3. CASE /\ cronExpr' = [cronExpr EXCEPT ![s] = e]
             /\ UNCHANGED <<pc, members, hasSchedule>>
             /\ UNCHANGED <<clock, roundVars>>
    <3>1. cronExpr' \in [Schedules -> Expressions \cup {NoExpression}]
      BY <2>1, <2>3, Zenon
    <3>2. QED
      BY <2>3, <3>1, Zenon DEF TypeOK, clock, roundVars
  <2>4. QED
    BY <1>1, <2>2, <2>3, Zenon DEF cron_add
<1>2. ASSUME NEW s \in Schedules, NEW m \in Meters, cron_meter_add_byName(s, m) PROVE TypeOK'
  <2>1. CountSchedule(s, m) \in Nat
    BY DEF CountSchedule
  <2>2. CASE exit /\ UNCHANGED <<clock, roundVars>>
    BY <2>2 DEF exit, tableVars, clock, roundVars
  <2>3. CASE /\ members' = [members EXCEPT ![s] = cron_meter_add(s, m)]
             /\ hasSchedule' = [hasSchedule EXCEPT ![m] = CountSchedule(s, m)]
             /\ UNCHANGED <<pc, cronExpr>>
             /\ UNCHANGED <<clock, roundVars>>
    <3>1. cron_meter_add(s, m) \in SUBSET Meters
      BY DEF cron_meter_add
    <3>2. members' \in [Schedules -> SUBSET Meters]
      BY <2>3, <3>1
    <3>3. hasSchedule' \in [Meters -> Nat]
      BY <2>1, <2>3
    <3>4. QED
      BY <2>3, <3>2, <3>3 DEF clock, roundVars
  <2>4. QED
    BY <1>2, <2>2, <2>3, Zenon DEF cron_meter_add_byName
<1>3. CASE cron_setDefault
  <2>1. Default \in Schedules
    BY DEF Schedules
  <2>2. nextQueryTime' \in [Schedules -> 0..(MaxTime + 1)]
    BY <1>3, NextMatch DEF cron_setDefault, cron_find
  <2>3. QED
    BY <1>3, <2>1, <2>2 DEF cron_setDefault, clock
<1>4. CASE BeginRound
  <2>1. DueSchedules \in SUBSET Schedules
    BY DEF DueSchedules
  <2>2. isDue' \in [Meters -> Nat]
    BY <1>4, <2>1, MarkType DEF BeginRound
  <2>3. nextQueryTime' \in [Schedules -> 0..(MaxTime + 1)]
    BY <1>4, NextMatch DEF BeginRound, NextTime, DueSchedules, cron_find
  <2>4. QED
    BY <1>4, <2>2, <2>3 DEF BeginRound, tableVars, clock
<1>5. ASSUME NEW m \in Meters, queryMeter(m) PROVE TypeOK'
  BY <1>5 DEF queryMeter, tableVars, clock
<1>6. CASE EndRound
  BY <1>6 DEF EndRound, tableVars, clock, roundVars
<1>7. CASE Tick
  BY <1>7 DEF Tick, tableVars, roundVars, Times
<1>8. CASE SetClockBack
  BY <1>8 DEF SetClockBack, tableVars, roundVars, Times
<1>9. CASE UNCHANGED vars
  BY <1>9 DEF vars, tableVars, clock, roundVars
<1>10. QED
  BY <1>1, <1>2, <1>3, <1>4, <1>5, <1>6, <1>7, <1>8, <1>9 DEF Next, Config, MainLoop

\* The members of the schedules: what the file says, then the default.
LEMMA StepMembers ==
    TypeOK /\ CountsNames /\ EveryMeterScheduled /\ [Next]_vars
        => CountsNames' /\ EveryMeterScheduled'
<1> SUFFICES ASSUME TypeOK, CountsNames, EveryMeterScheduled, [Next]_vars
             PROVE  CountsNames' /\ EveryMeterScheduled'
  OBVIOUS
<1> USE DEF CountsNames, EveryMeterScheduled, InNamed, Running
<1>1. ASSUME NEW s \in Schedules, NEW e \in Expressions, cron_add(s, e)
      PROVE  CountsNames' /\ EveryMeterScheduled'
  BY <1>1 DEF cron_add, exit, tableVars
<1>2. ASSUME NEW s \in Schedules, NEW m \in Meters, cron_meter_add_byName(s, m)
      PROVE  CountsNames' /\ EveryMeterScheduled'
  <2>1. CASE ~cron_find(s)
    BY <1>2, <2>1 DEF cron_meter_add_byName, exit, tableVars
  <2>2. CASE cron_find(s)
    <3>1. /\ members' = [members EXCEPT ![s] = @ \cup {m}]
          /\ hasSchedule' = [hasSchedule EXCEPT ![m] = CountSchedule(s, m)]
          /\ pc' = "config"
      BY <1>2, <2>2 DEF cron_meter_add_byName, cron_meter_add
    <3>2. ASSUME NEW k \in Meters, hasSchedule'[k] > 0 PROVE \E n \in Names : k \in members'[n]
      <4>1. CASE hasSchedule[k] > 0
        BY <3>1, <4>1 DEF TypeOK, Schedules
      <4>2. CASE ~(hasSchedule[k] > 0)
        BY <3>1, <3>2, <4>2 DEF TypeOK, Schedules, CountSchedule
      <4>3. QED
        BY <4>1, <4>2
    <3>3. QED
      BY <3>1, <3>2
  <2>3. QED
    BY <2>1, <2>2
<1>3. CASE cron_setDefault
  <2>1. Default \in Schedules /\ \A n \in Names : n \in Schedules /\ n # Default
    BY DEF Schedules
  <2>2. /\ members' = [members EXCEPT ![Default] = @ \cup {m \in Meters : hasSchedule[m] = 0}]
        /\ hasSchedule' = hasSchedule
    BY <1>3 DEF cron_setDefault
  <2>3. \A n \in Names : members'[n] = members[n]
    BY <2>1, <2>2 DEF TypeOK
  <2>4. \A m \in Meters : hasSchedule[m] = 0 => m \in members'[Default]
    BY <2>1, <2>2 DEF TypeOK
  <2>5. \A m \in Meters : hasSchedule[m] = 0 \/ hasSchedule[m] > 0
    BY DEF TypeOK
  <2>6. QED
    BY <2>2, <2>3, <2>4, <2>5
<1>4. CASE BeginRound
  BY <1>4 DEF BeginRound, tableVars
<1>5. ASSUME NEW m \in Meters, queryMeter(m) PROVE CountsNames' /\ EveryMeterScheduled'
  BY <1>5 DEF queryMeter, tableVars
<1>6. CASE EndRound
  BY <1>6 DEF EndRound, tableVars
<1>7. CASE Tick \/ SetClockBack
  BY <1>7 DEF Tick, SetClockBack, tableVars
<1>8. CASE UNCHANGED vars
  BY <1>8 DEF vars, tableVars
<1>9. QED
  BY <1>1, <1>2, <1>3, <1>4, <1>5, <1>6, <1>7, <1>8 DEF Next, Config, MainLoop

\* The next time follows the last round of its schedule.
LEMMA StepNext == TypeOK /\ NextIsNext /\ [Next]_vars => NextIsNext'
<1> SUFFICES ASSUME TypeOK, NextIsNext, [Next]_vars PROVE NextIsNext'
  OBVIOUS
<1> USE DEF NextIsNext, Running, cron_find
<1>1. ASSUME NEW s \in Schedules, NEW e \in Expressions, cron_add(s, e) PROVE NextIsNext'
  BY <1>1 DEF cron_add, exit
<1>2. ASSUME NEW s \in Schedules, NEW m \in Meters, cron_meter_add_byName(s, m) PROVE NextIsNext'
  BY <1>2 DEF cron_meter_add_byName, exit
<1>3. CASE cron_setDefault
  BY <1>3 DEF cron_setDefault, clock
<1>4. CASE BeginRound
  BY <1>4 DEF BeginRound, NextTime, tableVars, DueSchedules
<1>5. ASSUME NEW m \in Meters, queryMeter(m) PROVE NextIsNext'
  BY <1>5 DEF queryMeter, tableVars
<1>6. CASE EndRound
  BY <1>6 DEF EndRound, tableVars, roundVars
<1>7. CASE Tick \/ SetClockBack
  BY <1>7 DEF Tick, SetClockBack, tableVars, roundVars
<1>8. CASE UNCHANGED vars
  BY <1>8 DEF vars, tableVars, roundVars
<1>9. QED
  BY <1>1, <1>2, <1>3, <1>4, <1>5, <1>6, <1>7, <1>8 DEF Next, Config, MainLoop

\* A round begins with nobody queried, and queries whom it has not.
LEMMA StepQueries == TypeOK /\ QueriedAtMostOnce /\ [Next]_vars => QueriedAtMostOnce'
<1> SUFFICES ASSUME TypeOK, QueriedAtMostOnce, [Next]_vars PROVE QueriedAtMostOnce'
  OBVIOUS
<1> USE DEF QueriedAtMostOnce
<1>1. CASE Config
  BY <1>1 DEF Config, cron_add, cron_meter_add_byName, cron_setDefault, exit
<1>2. CASE BeginRound
  <2>1. DueSchedules \in SUBSET Schedules
    BY DEF DueSchedules
  <2>2. isDue' \in [Meters -> Nat] /\ \A m \in Meters : numQueries'[m] = 0
    BY <1>2, <2>1, MarkType DEF BeginRound
  <2>3. QED
    BY <2>2
<1>3. ASSUME NEW m \in Meters, queryMeter(m) PROVE QueriedAtMostOnce'
  BY <1>3 DEF queryMeter, Pending, TypeOK
<1>4. CASE EndRound
  BY <1>4 DEF EndRound
<1>5. CASE Tick \/ SetClockBack
  BY <1>5 DEF Tick, SetClockBack, roundVars
<1>6. CASE UNCHANGED vars
  BY <1>6 DEF vars, roundVars
<1>7. QED
  BY <1>1, <1>2, <1>3, <1>4, <1>5, <1>6 DEF Next, MainLoop

\* With the next time right, no match can be forgotten.
LEMMA NextForgetsNothing == TypeOK /\ NextIsNext => NoMatchForgotten
<1> SUFFICES ASSUME TypeOK, NextIsNext, Running,
                    NEW s \in Schedules, cron_find(s),
                    NEW t \in Matches(cronExpr[s]), t > servedAt[s]
             PROVE  nextQueryTime[s] <= t
  BY DEF NoMatchForgotten
<1>1. cronExpr[s] \in Expressions /\ servedAt[s] \in Times
  BY DEF TypeOK, cron_find
<1>2. QED
  BY <1>1, NothingBetween DEF NextIsNext

\* The inductive invariant: members, next times and what follows from them.
THEOREM Invariance == Spec => []IInv
<1>1. Init => IInv
  BY InitIInv
<1>2. IInv /\ [Next]_vars => IInv'
  <2> SUFFICES ASSUME IInv, [Next]_vars PROVE IInv'
    OBVIOUS
  <2>1. TypeOK' /\ NextIsNext'
    BY StepTypeOK, StepNext DEF IInv
  <2>2. CountsNames' /\ EveryMeterScheduled'
    BY StepMembers DEF IInv
  <2>3. (TypeOK /\ NextIsNext => NoMatchForgotten)'
    BY NextForgetsNothing, PTL
  <2>4. QueriedAtMostOnce'
    BY StepQueries DEF IInv
  <2>5. QED
    BY <2>1, <2>2, <2>3, <2>4 DEF IInv
<1>3. QED
  BY <1>1, <1>2, PTL DEF Spec

\* Whatever the order of the file, no meter is left without a schedule.
THEOREM NoMeterWithoutSchedule == Spec => []EveryMeterScheduled
<1>1. IInv => EveryMeterScheduled
  BY DEF IInv
<1>2. QED
  BY <1>1, Invariance, PTL

\* No matching time is lost, however long rounds are and however the clock is set.
THEOREM MatchesAreKept == Spec => []NoMatchForgotten
<1>1. IInv => NoMatchForgotten
  BY DEF IInv
<1>2. QED
  BY <1>1, Invariance, PTL

\* A schedule is taken up only when a time that matches has come since its last round.
THEOREM MatchesAreServedOnce == Spec => NoMatchTwice
<1> DEFINE A == pc = "loop" /\ pc' = "round" =>
                  \A s \in DueSchedules : NewMatch(s)
<1>1. IInv /\ [Next]_vars => [A]_vars
  <2> SUFFICES ASSUME IInv, Next, pc = "loop", pc' = "round",
                      NEW s \in DueSchedules
               PROVE  NewMatch(s)
    BY DEF A
  <2>2. s \in Schedules /\ cron_find(s) /\ nextQueryTime[s] <= now
    BY DEF DueSchedules, cron_is_due, IInv, TypeOK, Times
  <2>3. cronExpr[s] \in Expressions /\ servedAt[s] \in Times
    BY <2>2 DEF IInv, TypeOK, cron_find
  <2>4. nextQueryTime[s] = CronNext[cronExpr[s]][servedAt[s]]
    BY <2>2 DEF IInv, NextIsNext, Running
  <2>5. nextQueryTime[s] \in Matches(cronExpr[s]) /\ servedAt[s] < nextQueryTime[s]
    BY <2>3, <2>4, NextMatch DEF Matches, Times
  <2>6. QED
    BY <2>2, <2>5 DEF NewMatch
<1>2. QED
  BY <1>1, Invariance, PTL DEF Spec, NoMatchTwice

\* When a round ends every marked meter has been queried once, however many of its
\* schedules were due, and no other.
THEOREM MetersAreQueriedOnce == Spec => OncePerRound
<1> DEFINE A == pc = "round" /\ pc' = "loop" =>
                  \A m \in Meters : numQueries[m] = IF isDue[m] > 0 THEN 1 ELSE 0
<1>1. IInv /\ [Next]_vars => [A]_vars
  <2> SUFFICES ASSUME IInv, Next, pc = "round", pc' = "loop", NEW m \in Meters
               PROVE  numQueries[m] = IF isDue[m] > 0 THEN 1 ELSE 0
    BY DEF A
  <2>1. EndRound
    BY DEF Next, Config, MainLoop, cron_add, cron_meter_add_byName, cron_setDefault, exit,
           BeginRound, queryMeter, Tick, SetClockBack
  <2>2. ~(isDue[m] > 0 /\ numQueries[m] = 0)
    BY <2>1 DEF EndRound, Pending
  <2>3. /\ numQueries[m] \in Nat /\ isDue[m] \in Nat
        /\ numQueries[m] <= IF isDue[m] > 0 THEN 1 ELSE 0
    BY DEF IInv, TypeOK, QueriedAtMostOnce
  <2>4. QED
    BY <2>2, <2>3
<1>2. QED
  BY <1>1, Invariance, PTL DEF Spec, OncePerRound
=============================================================================
