---------------------------- MODULE ConfigLines ----------------------------
(***************************************************************************)
(* What the configuration file has of consequences: the meters that        *)
(* MeterConfig reads from it, and what a round of the main loop of         *)
(* emmbus2influx.cpp puts together for them with LineFormat.  Which meters *)
(* are read in a round and due for a write to InfluxDB is MeterCycle's     *)
(* part; here it is any set of the enabled ones.                           *)
(***************************************************************************)
EXTENDS MeterConfig, LineFormat

\* The sinks the three functions below look up.
ASSUME SinksAssumption == {"influx", "grafana", "mqtt"} \subseteq Sinks

VARIABLES influxBuf,    \* the buffer of the InfluxDB client
          grafanaBuf,   \* the one of the Grafana client
          messages      \* messages[i]: what the meter i publishes

texts == <<influxBuf, grafanaBuf, messages>>
vars == <<configVars, texts>>

ConfigInit == Init /\ influxBuf = EmptyBuffer /\ grafanaBuf = EmptyBuffer /\ messages = <<>>

Reporting(i) == [name |-> <<meters[i].name, i>>, disabled |-> meters[i].disabled,
                 numEnabled |-> meters[i].numEnabled,
                 registers |-> registers(meters[i]), formulas |-> meters[i].formulas]

\* A call that fails ends the program.  Only a meter that is queried, in S, writes
\* to InfluxDB; the other two functions pass over a disabled meter themselves.
Round(S) ==
    /\ pc = "loaded"
    /\ influxBuf' = FoldLeftDomain(LAMBDA c, i : IF i \in S
                                                 THEN influxAppendData(c, Reporting(i)) ELSE c,
                                   EmptyBuffer, meters)
    /\ grafanaBuf' = FoldLeftDomain(LAMBDA c, i : grafanaAppendData(c, Reporting(i)),
                                    EmptyBuffer, meters)
    /\ messages' = [i \in DOMAIN meters |-> mqttSendData(Reporting(i))]
    /\ pc' = IF influxBuf'.failed \/ grafanaBuf'.failed THEN "failed" ELSE "sent"
    /\ UNCHANGED <<section, parsed, serDevice, numLines>>

Next == \/ readMeterDefinitions /\ UNCHANGED texts
        \/ \E S \in SUBSET {i \in DOMAIN meters : ~meters[i].disabled} : Round(S)

Spec == ConfigInit /\ [][Next]_vars
-----------------------------------------------------------------------------
\* Everything the program sends of a round can be read by who gets it: the
\* buffers hold complete lines, the messages are JSON, and no line is begun that
\* cannot be ended (upon which influxAppendData and grafanaAppendData exit).
TextsWellFormed ==
    /\ pc # "failed"
    /\ LineProtocol(influxBuf.text) /\ LineProtocol(grafanaBuf.text)
    /\ \A i \in DOMAIN messages : Json(messages[i])

\* Grafana and the broker get of every enabled meter exactly the fields that are
\* enabled for them: the counters that decide whether a
\* meter has anything to send, which a type and the formulas before and after
\* type= add to, never hide a field.
Fields(i) == registers(meters[i]) \o meters[i].formulas
EnabledNames(i, k) == {f.name : f \in {Fields(i)[j] : j \in {j \in DOMAIN Fields(i) :
                                                              Fields(i)[j].enabled[k] = 1}}}
LineOf(i) == {e \in DOMAIN grafanaBuf.text :
                 \E b \in 1..e : /\ grafanaBuf.text[b].type = MEAS
                                 /\ grafanaBuf.text[b].name = <<meters[i].name, i>>
                                 /\ \A j \in (b + 1)..e : grafanaBuf.text[j].type # MEAS}
InGrafana(i) == {grafanaBuf.text[e].name : e \in {e \in LineOf(i) : IsField(grafanaBuf.text[e])}}
InMessage(i) == {messages[i][t].name : t \in {t \in DOMAIN messages[i] :
                                                 messages[i][t].kind \in {"member", "element"}}}

EnabledFieldsSent ==
    pc = "sent" =>
        \A i \in DOMAIN meters :
            ~meters[i].disabled => /\ InGrafana(i) = EnabledNames(i, "grafana")
                                   /\ InMessage(i) = EnabledNames(i, "mqtt")

\* What holds for a meter is what its own section says, else what its type says, in
\* whatever order the file says it, else, for influxwritemult and mqttprefix, what
\* the command line says; its mqttqos and mqttretain never reach a meter.
MostSpecific(m, s) ==
    IF m.said[s] # Unset THEN m.said[s]
    ELSE IF m.type # 0 THEN meterTypes[m.type].settings[s]
    ELSE IF s \in {"influxwritemult", "mqttprefix"} THEN Global
    ELSE Unset
SettingsPrecedence ==
    \A i \in DOMAIN meters : \A s \in Settings : meters[i].settings[s] = MostSpecific(meters[i], s)

\* Two meters that are queried never have the same name, so none publishes
\* on the topic of another.
EnabledNamesUnique ==
    \A i, j \in DOMAIN meters :
        meters[i].name = meters[j].name /\ ~meters[i].disabled /\ ~meters[j].disabled => i = j

\* An assertion of queryMeter: a meter it sends a request to has a handle.
QueriedHasHandle ==
    pc = "loaded" =>
        \A i \in DOMAIN meters :
            meters[i].disabled \/ meters[i].isTCP \/ isFormulaOnly(meters[i]) \/ meters[i].mb # "none"
-----------------------------------------------------------------------------
(***************************************************************************)
(* The types, and the inductive invariant that the properties follow from: *)
(* what a section under construction says of itself, and what was stored.  *)
(***************************************************************************)
Entries == Registers \cup Formulas
FieldSet == [name : {e.name : e \in Entries}, formulaOnly : {e.formulaOnly : e \in Entries},
             array : {e.array : e \in Entries}, enabled : [Sinks -> {0, 1}]]
Value == Given \cup {Global, Unset}
TypeSet == [name : TypeNames \cup {NoName}, registers : Seq(FieldSet),
            settings : [Settings -> Value]]
StoredTypeSet == [name : TypeNames, registers : Seq(FieldSet), settings : [Settings -> Value],
                  isFormulaOnly : BOOLEAN, numEnabled : [Sinks -> Nat]]
MeterSet == [name : MeterNames \cup {NoName}, type : Nat, formulas : Seq(FieldSet),
             settings : [Settings -> Value], conflict : BOOLEAN,
             numEnabled : [Sinks -> Nat], disabled : BOOLEAN, isTCP : BOOLEAN,
             mbusAddress : {Unsigned(a) : a \in Addresses \cup {-1}},
             mbusId : Addresses \cup {-1}, mb : {"none", "serial"},
             said : [Settings -> Given \cup {Unset}]]

TypeOK == /\ pc \in {"begin", "type", "meter", "read", "loaded", "sent", "failed", "exit"}
          /\ type \in TypeSet /\ meter \in MeterSet
          /\ defaults \in [Sinks -> {0, 1}]
          /\ meterTypes \in Seq(StoredTypeSet) /\ meters \in Seq(MeterSet)
          /\ serDevice \in BOOLEAN /\ numLines \in 0..MaxLines

\* The counter of a sink counts the fields that are enabled for it.
Counted(m) ==
    \A k \in Sinks : m.numEnabled[k] = NumEnabled(registers(m), k) + NumEnabled(m.formulas, k)

\* A type settles its prefix at once, a meter when it is stored.
PrefixKnown(t) == "mqttprefix" \in Settings => t.settings["mqttprefix"] # Unset

TypesKnown ==
    \A i \in DOMAIN meterTypes :
        /\ PrefixKnown(meterTypes[i])
        /\ \A k \in Sinks : meterTypes[i].numEnabled[k] = NumEnabled(meterTypes[i].registers, k)

\* As long as a meter has said nothing of its own, type= may still come.
MeterSettings ==
    /\ meter.type \in 0..Len(meterTypes)
    /\ ~meter.conflict => \A s \in Settings : meter.said[s] = Unset
    /\ \A s \in Settings :
          meter.settings[s] = IF s = "mqttprefix" /\ meter.type = 0 THEN meter.said[s]
                              ELSE MostSpecific(meter, s)

\* No meter that is queried has the name of the one under construction.
NameFree ==
    meter.name # NoName => \A i \in DOMAIN meters : meters[i].name = meter.name => meters[i].disabled

Stored ==
    \A i \in DOMAIN meters : /\ meters[i].name # NoName
                             /\ meters[i].type \in 0..Len(meterTypes)
                             /\ Counted(meters[i])

IInv == /\ TypeOK
        /\ PrefixKnown(type) /\ TypesKnown
        /\ MeterSettings /\ Counted(meter) /\ NameFree
        /\ Stored /\ SettingsPrecedence /\ EnabledNamesUnique
=============================================================================
