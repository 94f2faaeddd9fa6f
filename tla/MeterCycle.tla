----------------------------- MODULE MeterCycle -----------------------------
(***************************************************************************)
(* The main loop of emmbus2influx.cpp with the query functions of cron.cpp *)
(* and mbusread.cpp: which meters are read in a round, what becomes of     *)
(* their values between two writes to InfluxDB (influxwritemult with imax, *)
(* imin, iavg), and what is sent in which round.                           *)
(*                                                                         *)
(* A meter has one value, a register or, for a virtual meter, a formula.   *)
(* The schedules that are due in a round are chosen freely, without the    *)
(* clock of cron.cpp, and so is the answer of every meter.  InfluxDB is    *)
(* configured; how its client delivers a line is in InfluxPost.            *)
(*                                                                         *)
(* A definition name_variant states a plausible mistake in name; the       *)
(* specification uses none of them, they show that the properties notice.  *)
(***************************************************************************)
EXTENDS Integers, Sequences, FiniteSets, FiniteSetsExt

CONSTANTS Meters,
          Virtual,       \* the meters with formulas only (isFormulaOnly)
          Tcp,           \* the meters behind a TCP gateway
          Disabled,      \* the meters with disabled=1
          Formula(_, _), \* Formula(m, v): of the virtual meter m, v = the registers
          Schedules,
          Members,       \* Members[s]: the meters of schedule s
          Mult,          \* Mult[m]: influxwritemult, 0 = write every value
          Proc,          \* Proc[m]: "last", "max", "min" or "avg"
          Values,        \* what a register may hold
          NoReply,       \* the meter does not answer
          NoConnection,  \* the connection to its gateway cannot be opened
          DryRuns        \* the arguments of --dryrun, 0 = none

ASSUME ConfigAssumption ==
    /\ Virtual \subseteq Meters /\ Tcp \subseteq Meters /\ Disabled \subseteq Meters
    /\ Members \in [Schedules -> SUBSET Meters]
    /\ Mult \in [Meters -> Nat]
    /\ Proc \in [Meters -> {"last", "max", "min", "avg"}]
    /\ Values \subseteq Int /\ {NoReply, NoConnection} \cap Values = {}
    /\ NoReply # NoConnection
    /\ DryRuns \subseteq Nat

Enabled == Meters \ Disabled

\* A formula sees the registers of the enabled meters, 0 where reading failed.
Registers == [Enabled \ Virtual -> Values \cup {0}]
ASSUME FormulaAssumption ==
    \A m \in Virtual : \A v \in Registers : Formula(m, v) \in Int

VARIABLES pc,            \* where main is: initial query, loop top, sending, end
          terminated,
          isFirstQuery,
          dryrun,
          read,          \* the meters with meterHasBeenRead
          fvalue, fvalueInflux, fvalueInfluxLast,
          countdown,     \* influxWriteCountdown
          written,       \* written[m]: the value of m in the last post to InfluxDB
          published,     \* the meters published in the last round
          window,        \* window[m]: the values of m since its last write
          started        \* the meters whose window begins with a reading

values == <<fvalue, fvalueInflux, fvalueInfluxLast>>
outputs == <<written, published>>
vars == <<pc, terminated, isFirstQuery, dryrun, read, values, countdown,
          outputs, window, started>>

Polled(due) == due \ (Virtual \cup Disabled)

\* What the meters in S may answer; only a TCP connection can fail to open.
Replies(S) ==
    {r \in [S -> Values \cup {NoReply, NoConnection}] :
        \A m \in S : r[m] = NoConnection => m \in Tcp}
Answered(r) == {m \in DOMAIN r : r[m] \in Values}

Init == /\ pc = "start"
        /\ terminated = FALSE
        /\ isFirstQuery = TRUE
        /\ dryrun \in DryRuns
        /\ read = {}
        /\ fvalue = [m \in Meters |-> 0]
        /\ fvalueInflux = [m \in Meters |-> 0]
        /\ fvalueInfluxLast = [m \in Meters |-> 0]
        /\ countdown = [m \in Meters |-> IF Mult[m] = 0 THEN 0 ELSE -1]
        /\ written = <<>>
        /\ published = {}
        /\ window = [m \in Meters |-> <<>>]
        /\ started = {}
-----------------------------------------------------------------------------
(***************************************************************************)
(* queryMeter: the value is reset before the request is sent, but not when *)
(* the connection cannot be opened.                                        *)
(***************************************************************************)
queryMeter(r, m) ==
    IF m \notin DOMAIN r \/ r[m] = NoConnection THEN fvalue[m]
    ELSE IF r[m] = NoReply THEN 0 ELSE r[m]

\* executeMeterFormulas for the virtual meters in S, after all registers.
executeMeterFormulas(r, S) ==
    [m \in Meters |->
        IF m \in S \cap Virtual
        THEN Formula(m, [i \in Enabled \ Virtual |-> queryMeter(r, i)])
        ELSE queryMeter(r, m)]

(***************************************************************************)
(* executeInfluxWriteCalc.  The countdown is Mult after a write, -1 at the *)
(* program start (to force a write), and 0 when a write is due.  The first *)
(* value after a write starts a new window, every other is merged.         *)
(***************************************************************************)
CountdownAfterRead_late(m) ==
    IF Mult[m] = 0 THEN 0 ELSE IF countdown[m] = -1 THEN Mult[m]
    ELSE IF countdown[m] = 0 THEN Mult[m] ELSE countdown[m] - 1
CountdownAfterRead(m) ==
    IF Mult[m] = 0 THEN countdown[m]
    ELSE IF countdown[m] = -1 THEN 0
    ELSE IF countdown[m] = 0 THEN Mult[m] - 1
    ELSE countdown[m] - 1

StartsWindow_initialOnly(m) == Mult[m] = 0 \/ countdown[m] = -1
StartsWindow(m) == Mult[m] = 0 \/ countdown[m] \in {Mult[m], -1}

Merge_sum(m, new, last) == IF Proc[m] = "avg" THEN new + last ELSE new
Merge(m, new, last) ==
    CASE Proc[m] = "last" -> new
      [] Proc[m] = "max" -> IF new < last THEN last ELSE new
      [] Proc[m] = "min" -> IF new > last THEN last ELSE new
      [] Proc[m] = "avg" -> (new + last) \div 2

executeInfluxWriteCalc(m, last) ==
    IF StartsWindow(m) THEN fvalue'[m] ELSE Merge(m, fvalue'[m], last)

(***************************************************************************)
(* queryMeters, the initial query of all meters.  A disabled meter counts  *)
(* as queried with success, a virtual one is read but not counted; without *)
(* a success the daemon ends.                                              *)
(***************************************************************************)
queryMeters ==
    /\ pc = "start"
    /\ \E r \in Replies(Polled(Meters)) :
        /\ read' = Answered(r) \cup Virtual
        /\ fvalue' = executeMeterFormulas(r, Enabled)
        /\ terminated' = (terminated \/ (Answered(r) = {} /\ Disabled \subseteq Virtual))
    /\ fvalueInfluxLast' = fvalueInflux
    /\ fvalueInflux' = [m \in Meters |->
                          IF m \in Disabled THEN fvalue'[m]
                          ELSE executeInfluxWriteCalc(m, fvalueInflux[m])]
    /\ countdown' = [m \in Meters |->
                       IF m \in Disabled THEN countdown[m] ELSE CountdownAfterRead(m)]
    /\ window' = [m \in Meters |-> IF m \in read' THEN <<fvalue'[m]>> ELSE <<>>]
    /\ started' = read'
    /\ pc' = "loop"
    /\ UNCHANGED <<isFirstQuery, dryrun, outputs>>

\* The first round of the loop sends what the initial query has read.
FirstRound ==
    /\ pc = "loop" /\ ~terminated /\ isFirstQuery
    /\ pc' = "send"
    /\ UNCHANGED <<terminated, isFirstQuery, dryrun, read, values, countdown,
                   outputs, window, started>>

(***************************************************************************)
(* cron_queryMeters: the enabled members of the due schedules are queried, *)
(* the formulas of those that were read are executed and their values      *)
(* taken over for InfluxDB.  A meter that was not read keeps the value its *)
(* window has so far.                                                      *)
(***************************************************************************)
TakenOver(due) == due \cap read'

cron_queryMeters(due) ==
    /\ pc = "loop" /\ ~terminated /\ ~isFirstQuery
    /\ \E r \in Replies(Polled(due)) :
        /\ read' = Answered(r) \cup (due \cap Virtual)
        /\ fvalue' = executeMeterFormulas(r, read')
    /\ fvalueInfluxLast' = [m \in Meters |-> IF m \in due THEN fvalueInflux[m]
                                             ELSE fvalueInfluxLast[m]]
    /\ fvalueInflux' = [m \in Meters |->
                          IF m \in TakenOver(due)
                          THEN executeInfluxWriteCalc(m, fvalueInfluxLast'[m])
                          ELSE fvalueInflux[m]]
    /\ countdown' = [m \in Meters |->
                       IF m \in TakenOver(due) THEN CountdownAfterRead(m) ELSE countdown[m]]
    /\ window' = [m \in Meters |-> IF m \in read' THEN Append(window[m], fvalue'[m])
                                   ELSE window[m]]
    /\ pc' = IF read' = {} THEN "loop" ELSE "send"
    /\ UNCHANGED <<terminated, isFirstQuery, dryrun, outputs, started>>

\* The enabled members of the schedules that are due, none of them included.
Round == \E S \in SUBSET Schedules :
            cron_queryMeters((UNION {Members[s] : s \in S}) \ Disabled)
-----------------------------------------------------------------------------
WriteDue == {m \in read : countdown[m] = 0}

Posted_changed == {m \in WriteDue \ Disabled : fvalueInflux[m] # fvalueInfluxLast[m]}
Posted == WriteDue \ Disabled

DryRunEnds_never == FALSE
DryRunEnds == dryrun = 1

(***************************************************************************)
(* The rest of a round.  InfluxDB gets the meters that were read and are   *)
(* due for a write, MQTT every enabled meter; a dry run prints the same    *)
(* and ends after the given number of rounds.                              *)
(***************************************************************************)
Send ==
    /\ pc = "send"
    /\ countdown' = [m \in Meters |-> IF m \in WriteDue THEN Mult[m] ELSE countdown[m]]
    /\ window' = [m \in Meters |-> IF m \in WriteDue THEN <<>> ELSE window[m]]
    /\ IF dryrun = 0
       THEN /\ written' = [m \in Posted |-> fvalueInflux[m]]
            /\ published' = Enabled
       ELSE UNCHANGED outputs
    /\ isFirstQuery' = FALSE
    /\ dryrun' = IF dryrun = 0 THEN 0 ELSE dryrun - 1
    /\ terminated' = (terminated \/ DryRunEnds)
    /\ started' = started \cup WriteDue
    /\ pc' = "loop"
    /\ UNCHANGED <<read, values>>

\* SIGTERM or SIGINT; main looks at it at the top of the loop only.
sigterm_handler ==
    /\ pc # "end" /\ ~terminated
    /\ terminated' = TRUE
    /\ UNCHANGED <<pc, isFirstQuery, dryrun, read, values, countdown, outputs,
                   window, started>>

CanLeave_afterFirstRound == terminated /\ ~isFirstQuery
CanLeave == terminated

Leave ==
    /\ pc = "loop" /\ CanLeave
    /\ pc' = "end"
    /\ UNCHANGED <<terminated, isFirstQuery, dryrun, read, values, countdown,
                   outputs, window, started>>

MainLoop == queryMeters \/ FirstRound \/ Round \/ Send \/ Leave
Next == MainLoop \/ sigterm_handler

Spec == Init /\ [][Next]_vars
\* Nothing in the main loop waits for another process: it always goes on.
FairSpec == Spec /\ WF_vars(MainLoop)
-----------------------------------------------------------------------------
TypeOK == /\ pc \in {"start", "loop", "send", "end"}
          /\ terminated \in BOOLEAN /\ isFirstQuery \in BOOLEAN
          /\ dryrun \in Nat
          /\ read \subseteq Meters /\ started \subseteq Meters
          /\ fvalue \in [Meters -> Int]
          /\ \A m \in Meters \ Virtual : fvalue[m] \in Values \cup {0}
          /\ fvalueInflux \in [Meters -> Int]
          /\ fvalueInfluxLast \in [Meters -> Int]
          /\ \A m \in Meters : countdown[m] \in IF Mult[m] = 0 THEN {0} ELSE -1..Mult[m]
          /\ published \subseteq Enabled
          /\ window \in [Meters -> Seq(Int)]

\* The step that ends a round, and the one that sends for real.
Sending == pc = "send" /\ pc' = "loop"
Posting == Sending /\ dryrun = 0

(***************************************************************************)
(* influxwritemult=n, "we will write data to influx on every second query" *)
(* for n = 2: a write covers exactly n readings of the meter, however the  *)
(* readings fail in between and in whichever schedules the meter is due.   *)
(* Only the first write after the start covers the initial reading alone.  *)
(***************************************************************************)
EveryNthReading ==
    [][Sending => \A m \in WriteDue \ Disabled :
          \/ Len(window[m]) = IF Mult[m] = 0 THEN 1 ELSE Mult[m]
          \/ isFirstQuery /\ Len(window[m]) = 1]_vars

(***************************************************************************)
(* What executeInfluxWriteCalc takes for the readings since the last       *)
(* write.  The initial query leaves the countdown of a meter it could not  *)
(* read at 0, the value of a window under way: the first window of that    *)
(* meter is merged with the value 0 its registers were reset to.           *)
(***************************************************************************)
Merged(m) == IF m \in started \/ Mult[m] = 0 THEN window[m] ELSE <<0>> \o window[m]

Readings(w) == {w[i] : i \in DOMAIN w}
Aggregate(m, w) == CASE Proc[m] = "max" -> Max(Readings(w))
                     [] Proc[m] = "min" -> Min(Readings(w))
                     [] OTHER -> w[Len(w)]

(***************************************************************************)
(* The value written is the last, the greatest or the smallest of the      *)
(* readings the write covers: a failed query in between neither adds a     *)
(* value nor restarts the window.  Only the first write of a meter the     *)
(* initial query could not read counts a 0 as well; no later one does.     *)
(***************************************************************************)
WritesAggregate ==
    [][Posting => \A m \in WriteDue \ Disabled :
          Proc[m] # "avg" => written'[m] = Aggregate(m, Merged(m))]_vars

(***************************************************************************)
(* iavg: the value written lies between the smallest and the greatest      *)
(* reading the write covers, with the same 0 in the first write of a meter *)
(* the initial query missed.  (It is not their mean: the last weighs half.) *)
(***************************************************************************)
WritesBetween ==
    [][Posting => \A m \in WriteDue \ Disabled :
          Proc[m] = "avg" =>
             written'[m] \in Min(Readings(Merged(m)))..Max(Readings(Merged(m)))]_vars

\* In a dry run nothing is ever sent: it ends before dryrun, which also
\* switches sending off, has been counted down to zero.
DryRunSendsNothing == dryrun > 0 => [](written = <<>> /\ published = {})

(***************************************************************************)
(* The inductive invariant behind these properties: the countdown and the  *)
(* number of readings since the last write determine each other, except    *)
(* before a meter was read for the first time, and fvalueInflux sums up    *)
(* what Merged says.                                                       *)
(***************************************************************************)
FirstRoundFirst ==
    /\ pc = "start" => isFirstQuery /\ \A m \in Meters : fvalue[m] = 0
    /\ pc # "start" /\ isFirstQuery => read = started

JustRead(m) == pc = "send" /\ m \in read

CountFollowsReadings ==
    \A m \in Enabled :
        LET n == Len(window[m]) IN
        \/ pc = "start" /\ n = 0 /\ countdown[m] = IF Mult[m] = 0 THEN 0 ELSE -1
        \/ /\ pc # "start" /\ isFirstQuery
           /\ countdown[m] = 0 /\ n = IF m \in read THEN 1 ELSE 0
        \/ /\ pc # "start" /\ ~isFirstQuery /\ Mult[m] = 0
           /\ countdown[m] = 0 /\ n = IF JustRead(m) THEN 1 ELSE 0
        \/ /\ pc # "start" /\ ~isFirstQuery /\ n = 0 /\ ~JustRead(m) /\ Mult[m] > 0
           /\ countdown[m] = IF m \in started THEN Mult[m] ELSE 0
        \/ /\ pc # "start" /\ ~isFirstQuery /\ n \in 1..Mult[m]
           /\ countdown[m] = Mult[m] - n
           /\ n = Mult[m] => JustRead(m)

\* A least and a greatest element of w; f sums up w in the way of processing p.
Bounded(w) == \E i, j \in DOMAIN w : \A k \in DOMAIN w : w[i] <= w[k] /\ w[k] <= w[j]
Summary(p, w, f) ==
    /\ p = "last" => f = w[Len(w)]
    /\ p = "max" => /\ \E i \in DOMAIN w : f = w[i]
                    /\ \A k \in DOMAIN w : w[k] <= f
    /\ p = "min" => /\ \E i \in DOMAIN w : f = w[i]
                    /\ \A k \in DOMAIN w : f <= w[k]
    /\ p = "avg" => \E i, j \in DOMAIN w : w[i] <= f /\ f <= w[j]

ValueFollowsReadings ==
    \A m \in Enabled : Merged(m) # <<>> =>
        /\ Bounded(Merged(m))
        /\ Summary(Proc[m], Merged(m), fvalueInflux[m])

IInv == /\ TypeOK
        /\ FirstRoundFirst
        /\ CountFollowsReadings
        /\ ValueFollowsReadings

(***************************************************************************)
(* A meter that is read again and again is written again and again.        *)
(***************************************************************************)
ReadIsWritten ==
    \A m \in Enabled : []<>(pc = "send" /\ m \in read) => []<>(m \in DOMAIN written)

\* A signal ends the daemon, and the end of a dry run does.
SignalEnds == terminated ~> pc = "end"
=============================================================================
