-------------------------------- MODULE Cron --------------------------------
(***************************************************************************)
(* The schedules of cron.cpp: the table the configuration file fills, the  *)
(* meters that are members of a schedule, and cron_queryMeters against a   *)
(* clock that advances while a round is under way and may be set back.     *)
(*                                                                         *)
(* cron_next is the library ccronexpr: CronNext[e][t] is the first time    *)
(* after t that matches expression e, MaxTime + 1 when none does up to     *)
(* MaxTime.  What becomes of the values a meter answers with is MeterCycle.*)
(*                                                                         *)
(* A definition name_variant states a plausible mistake in name; the       *)
(* specification uses none of them, they show that the properties notice.  *)
(***************************************************************************)
EXTENDS Integers, FiniteSets

CONSTANTS Meters,
          Disabled,      \* the meters with disabled=1
          Names,         \* the names of schedules a configuration file uses
          Default,       \* the schedule without a name
          Expressions,
          CronNext,      \* CronNext[e][t]
          NoExpression,  \* the schedule is not defined
          MaxTime,       \* the last time the clock shows
          MaxSetBacks    \* how often the clock is set back

Schedules == Names \cup {Default}
Times == 0..MaxTime

ASSUME CronAssumption ==
    /\ Disabled \subseteq Meters
    /\ Default \notin Names
    /\ NoExpression \notin Expressions /\ IsFiniteSet(Names)
    /\ MaxTime \in Nat /\ MaxSetBacks \in Nat
    /\ CronNext \in [Expressions -> [Times -> 1..(MaxTime + 1)]]
    /\ \A e \in Expressions : \A t \in Times :
          /\ CronNext[e][t] > t
          /\ \A u \in t..MaxTime : u < CronNext[e][t] => CronNext[e][u] = CronNext[e][t]

\* The times at which expression e is to be served.
Matches(e) == {CronNext[e][t] : t \in Times}

VARIABLES pc,             \* "config", "loop", "round" or, after an error, "exit"
          cronExpr,       \* cronExpr[s]: the expression of schedule s
          members,        \* members[s]: its meters
          hasSchedule,    \* hasSchedule[m]: how many named schedules m is in
          nextQueryTime,
          now,            \* the clock
          setBacks,
          isDue,          \* isDue[m]: the due schedules m is in, this round
          numQueries,     \* numQueries[m]: how often m was queried this round
          servedAt        \* servedAt[s]: the time of the last round s was due in

tableVars == <<cronExpr, members, hasSchedule>>
clock == <<now, setBacks>>
roundVars == <<nextQueryTime, isDue, numQueries, servedAt>>
vars == <<pc, tableVars, clock, roundVars>>

cron_find(s) == cronExpr[s] # NoExpression

\* main adds the default schedule, from --cron or --poll, before it reads the file.
Init == /\ pc = "config"
        /\ \E e \in Expressions :
              cronExpr = [s \in Schedules |-> IF s = Default THEN e ELSE NoExpression]
        /\ members = [s \in Schedules |-> {}]
        /\ hasSchedule = [m \in Meters |-> 0]
        /\ nextQueryTime = [s \in Schedules |-> 0]
        /\ now \in Times
        /\ setBacks = 0
        /\ isDue = [m \in Meters |-> 0]
        /\ numQueries = [m \in Meters |-> 0]
        /\ servedAt = [s \in Schedules |-> 0]

exit == pc' = "exit" /\ UNCHANGED tableVars
-----------------------------------------------------------------------------
(***************************************************************************)
(* parseCron, an entry of the section [Schedule]: a named schedule may be  *)
(* defined once, the default one is overwritten.                           *)
(***************************************************************************)
cron_add(s, e) ==
    /\ pc = "config"
    /\ IF cron_find(s) /\ s # Default
       THEN exit
       ELSE /\ cronExpr' = [cronExpr EXCEPT ![s] = e]
            /\ UNCHANGED <<pc, members, hasSchedule>>
    /\ UNCHANGED <<clock, roundVars>>

\* Only named schedules count: a meter of none gets the default one at the end.
CountSchedule(s, m) == IF s = Default THEN hasSchedule[m] ELSE hasSchedule[m] + 1
cron_meter_add_first(s, m) == {m}
cron_meter_add(s, m) == members[s] \cup {m}

(***************************************************************************)
(* parseMeter, an entry schedule=: the schedule has to be defined before.  *)
(* (A meter that repeats an entry becomes a member twice, with no effect   *)
(* but on the counters.)                                                   *)
(***************************************************************************)
cron_meter_add_byName(s, m) ==
    /\ pc = "config"
    /\ IF ~cron_find(s)
       THEN exit
       ELSE /\ m \notin members[s]
            /\ members' = [members EXCEPT ![s] = cron_meter_add(s, m)]
            /\ hasSchedule' = [hasSchedule EXCEPT ![m] = CountSchedule(s, m)]
            /\ UNCHANGED <<pc, cronExpr>>
    /\ UNCHANGED <<clock, roundVars>>

\* main, after the file was read: the rest of the meters, and the first times.
cron_setDefault ==
    /\ pc = "config"
    /\ pc' = "loop"
    /\ members' = [members EXCEPT ![Default] = @ \cup {m \in Meters : hasSchedule[m] = 0}]
    /\ nextQueryTime' = [s \in Schedules |->
                           IF cron_find(s) THEN CronNext[cronExpr[s]][now] ELSE 0]
    /\ servedAt' = [s \in Schedules |-> now]
    /\ UNCHANGED <<cronExpr, hasSchedule, clock, isDue, numQueries>>
-----------------------------------------------------------------------------
cron_is_due_after(s) == now > nextQueryTime[s]
cron_is_due(s) == now >= nextQueryTime[s]

\* The defined schedules cron_queryMeters takes up: due, and with members.
DueSchedules == {s \in Schedules : cron_find(s) /\ cron_is_due(s) /\ members[s] # {}}

NextTime_fromLast(s) == IF nextQueryTime[s] \in Times THEN CronNext[cronExpr[s]][nextQueryTime[s]]
                        ELSE now + 1
NextTime_late(s) == CronNext[cronExpr[s]][IF now < MaxTime THEN now + 1 ELSE now]
NextTime(s) == CronNext[cronExpr[s]][now]

(***************************************************************************)
(* cron_queryMeters: the enabled members of all due schedules are marked   *)
(* and the schedules get their next time, counted from the time at which   *)
(* the round begins ...                                                    *)
(***************************************************************************)
Mark(S) == [m \in Meters |-> IF m \in Disabled THEN 0
                             ELSE Cardinality({s \in S : m \in members[s]})]

BeginRound ==
    /\ pc = "loop"
    /\ isDue' = Mark(DueSchedules)
    /\ nextQueryTime' = [s \in Schedules |->
                           IF s \in DueSchedules THEN NextTime(s) ELSE nextQueryTime[s]]
    /\ servedAt' = [s \in Schedules |->
                      IF s \in DueSchedules THEN now ELSE servedAt[s]]
    /\ numQueries' = [m \in Meters |-> 0]
    /\ pc' = "round"
    /\ UNCHANGED <<tableVars, clock>>

\* ... then every marked meter is queried, which takes its time ...
Pending_perSchedule(m) == numQueries[m] < isDue[m]
Pending(m) == isDue[m] > 0 /\ numQueries[m] = 0

queryMeter(m) ==
    /\ pc = "round" /\ Pending(m)
    /\ numQueries' = [numQueries EXCEPT ![m] = @ + 1]
    /\ UNCHANGED <<pc, tableVars, clock, nextQueryTime, isDue, servedAt>>

\* ... and main goes on to the next round once the values are sent.
EndRound ==
    /\ pc = "round" /\ \A m \in Meters : ~Pending(m)
    /\ pc' = "loop"
    /\ UNCHANGED <<tableVars, clock, roundVars>>
-----------------------------------------------------------------------------
Tick == /\ pc # "exit" /\ now < MaxTime
        /\ now' = now + 1
        /\ UNCHANGED <<pc, tableVars, roundVars, setBacks>>

SetClockBack ==
    /\ pc # "exit" /\ setBacks < MaxSetBacks
    /\ now' \in 0..(now - 1)
    /\ setBacks' = setBacks + 1
    /\ UNCHANGED <<pc, tableVars, roundVars>>

Config == \/ \E s \in Schedules :
                \/ \E e \in Expressions : cron_add(s, e)
                \/ \E m \in Meters : cron_meter_add_byName(s, m)
          \/ cron_setDefault
MainLoop == BeginRound \/ (\E m \in Meters : queryMeter(m)) \/ EndRound
Next == Config \/ MainLoop \/ Tick \/ SetClockBack

Spec == Init /\ [][Next]_vars
\* The main loop waits for no other process, so it always goes on.
FairSpec == Spec /\ WF_vars(MainLoop)
-----------------------------------------------------------------------------
TypeOK == /\ pc \in {"config", "loop", "round", "exit"}
          /\ cronExpr \in [Schedules -> Expressions \cup {NoExpression}]
          /\ members \in [Schedules -> SUBSET Meters]
          /\ hasSchedule \in [Meters -> Nat]
          /\ nextQueryTime \in [Schedules -> 0..(MaxTime + 1)]
          /\ now \in Times /\ setBacks \in 0..MaxSetBacks
          /\ isDue \in [Meters -> Nat] /\ numQueries \in [Meters -> Nat]
          /\ servedAt \in [Schedules -> Times]

Running == pc \in {"loop", "round"}

(***************************************************************************)
(* In the main loop every meter is in a schedule, and it is in the default *)
(* one unless the file put it into a named one, whatever the order of the  *)
(* sections and however often a schedule was redefined.                    *)
(***************************************************************************)
InNamed(m) == \E s \in Names : m \in members[s]
EveryMeterScheduled ==
    Running => \A m \in Meters : InNamed(m) \/ m \in members[Default]

(***************************************************************************)
(* No match is forgotten: whatever the clock does, a time that matches the *)
(* expression and is later than the last round of the schedule is not      *)
(* earlier than nextQueryTime, so it is still ahead or makes the schedule  *)
(* due.  What passes during a round is made up for by one query after it.  *)
(***************************************************************************)
NoMatchForgotten ==
    Running => \A s \in Schedules : cron_find(s) =>
        \A t \in Matches(cronExpr[s]) : t > servedAt[s] => nextQueryTime[s] <= t

(***************************************************************************)
(* No match is served twice: a schedule is due only when a time that       *)
(* matches has come after its last round, also when the clock was set back *)
(* over a match already served.                                            *)
(***************************************************************************)
NewMatch(s) == \E t \in Matches(cronExpr[s]) : servedAt[s] < t /\ t <= now
NoMatchTwice ==
    [][pc = "loop" /\ pc' = "round" => \A s \in DueSchedules : NewMatch(s)]_vars

(***************************************************************************)
(* "this works as if a meter schedule fits to more than one schedule at    *)
(* the same time, the meter will queried ony once" (emmbus2influx.conf):   *)
(* in a round every enabled member of a due schedule is queried exactly    *)
(* once, and no other meter.                                               *)
(***************************************************************************)
OncePerRound ==
    [][pc = "round" /\ pc' = "loop" =>
         \A m \in Meters : numQueries[m] = IF isDue[m] > 0 THEN 1 ELSE 0]_vars

(***************************************************************************)
(* A schedule that is due is taken up, unless the clock is set back before *)
(* it, however long the rounds are.                                        *)
(***************************************************************************)
Overdue(s) == Running /\ cron_find(s) /\ members[s] # {} /\ nextQueryTime[s] <= now
DueIsServed == \A s \in Schedules : Overdue(s) ~> ~Overdue(s)

(***************************************************************************)
(* The inductive invariant: the next time is the first match after the     *)
(* last round of the schedule, and a round has queried the marked meters   *)
(* at most once.                                                           *)
(***************************************************************************)
CountsNames ==
    \A m \in Meters : hasSchedule[m] > 0 => InNamed(m)
NextIsNext ==
    Running => \A s \in Schedules : cron_find(s) =>
        nextQueryTime[s] = CronNext[cronExpr[s]][servedAt[s]]
QueriedAtMostOnce ==
    pc = "round" => \A m \in Meters : numQueries[m] <= IF isDue[m] > 0 THEN 1 ELSE 0
IInv == /\ TypeOK /\ CountsNames /\ EveryMeterScheduled /\ NextIsNext /\ NoMatchForgotten
        /\ QueriedAtMostOnce
=============================================================================
