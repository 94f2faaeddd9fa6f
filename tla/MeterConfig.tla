---------------------------- MODULE MeterConfig ----------------------------
(***************************************************************************)
(* readMeterDefinitions of meterDef.cpp: the sections MeterType and Meter  *)
(* of the configuration file, one action per line of the file, with the    *)
(* defaults a line takes from the lines before it, and the serial handle   *)
(* every meter gets at the end.  A line the parser refuses ends the        *)
(* program.  The section Schedule is in Cron; of a register or formula     *)
(* only the name, what it is enabled for and its array are kept.           *)
(*                                                                         *)
(* A definition name_variant states a plausible mistake in name; the       *)
(* specification uses none of them, they show that the properties notice.  *)
(***************************************************************************)
EXTENDS Integers, Sequences, FiniteSets, FiniteSetsExt

CONSTANTS TypeNames, MeterNames,
          NoName,
          Registers,     \* the register entries a file may have
          Formulas,      \* the formula entries a file may have
          Sinks,         \* what a field can be enabled for
          Settings,      \* what a type and a meter can set, among AllSettings
          Given,         \* the values the file may give to a setting
          BadMult,       \* those no influxwritemult may have
          Global,        \* the value of the command line
          Unset,         \* nothing was said
          Addresses,     \* the values of address=
          AddressWidth,  \* bits of meter_t.mbusAddress
          MaxMeters, MaxLines

AllSettings == {"influxwritemult", "measurement", "mqttprefix", "mqttqos", "mqttretain"}

(***************************************************************************)
(* An entry is a record: its name, formulaOnly for one that is no record   *)
(* of the answer, array, what its arr= says, and options, the values of    *)
(* its own influx=, mqtt= and grafana=.                                    *)
(***************************************************************************)
ASSUME ConfigFileAssumption ==
    /\ NoName \notin TypeNames \cup MeterNames
    /\ Settings \subseteq AllSettings
    /\ BadMult \subseteq Given
    /\ Global # Unset /\ {Global, Unset} \cap Given = {}
    /\ Unset \notin {0, 1}
    /\ Addresses \subseteq Int
    /\ AddressWidth \in Nat /\ MaxMeters \in Nat /\ MaxLines \in Nat
    /\ \A r \in Registers \cup Formulas : r.options \in [Sinks -> {0, 1, Unset}]

VARIABLES pc,          \* the section the parser is in, then what main does
          type,        \* the MeterType under construction
          meter,       \* the Meter under construction
          defaults,    \* what the entries below are enabled for
          meterTypes, meters,
          serDevice,   \* a serial device was opened before
          numLines

parsed == <<meterTypes, meters>>
section == <<type, meter, defaults>>
configVars == <<pc, section, parsed, serDevice, numLines>>

Unsigned(a) == a % 2^AddressWidth

NewType == [name |-> NoName, registers |-> <<>>,
            settings |-> [s \in Settings |->
                            IF s \in {"influxwritemult", "mqttprefix"} THEN Global ELSE Unset]]
NewMeter == [name |-> NoName, type |-> 0, formulas |-> <<>>,
             settings |-> [s \in Settings |-> IF s = "influxwritemult" THEN Global ELSE Unset],
             conflict |-> FALSE,
             numEnabled |-> [k \in Sinks |-> 0],
             disabled |-> FALSE, isTCP |-> FALSE,
             mbusAddress |-> Unsigned(-1), mbusId |-> -1, mb |-> "none",
             said |-> [s \in Settings |-> Unset]]     \* what the section itself has said
AllEnabled == [k \in Sinks |-> 1]

Init == /\ pc = "begin"
        /\ type = NewType /\ meter = NewMeter
        /\ defaults = AllEnabled
        /\ meterTypes = <<>> /\ meters = <<>>
        /\ serDevice \in BOOLEAN
        /\ numLines = 0

Line == numLines < MaxLines /\ numLines' = numLines + 1 /\ UNCHANGED serDevice

\* parserError and every other refusal: nothing of the program is left.
exit == /\ pc' = "exit"
        /\ type' = NewType /\ meter' = NewMeter
        /\ defaults' = AllEnabled
        /\ meterTypes' = <<>> /\ meters' = <<>>

\* A line that is no entry of its section, has a value of another type, an
\* option that is not supported or given twice, or something behind it.
Refused == /\ pc \in {"begin", "type", "meter"}
           /\ Line /\ exit

findMeterType(n) == \E i \in DOMAIN meterTypes : meterTypes[i].name = n

\* A disabled meter does not keep its name.
findMeter_type(n) == findMeterType(n)
findMeter(n) == \E i \in DOMAIN meters : meters[i].name = n /\ ~meters[i].disabled

Field(entry) == [name |-> entry.name, formulaOnly |-> entry.formulaOnly,
                 array |-> entry.array,
                 enabled |-> [k \in Sinks |-> IF entry.options[k] = Unset THEN defaults[k]
                                              ELSE entry.options[k]]]
HasField(fields, n) == \E i \in DOMAIN fields : fields[i].name = n
NumEnabled(fields, k) == Cardinality({i \in DOMAIN fields : fields[i].enabled[k] = 1})
-----------------------------------------------------------------------------
(***************************************************************************)
(* parseMeterType.                                                         *)
(***************************************************************************)
InType == pc = "type" /\ Line
StayInType == UNCHANGED <<pc, meter, defaults, parsed>>

TypeName(n) ==
    /\ InType
    /\ IF type.name # NoName \/ findMeterType(n)
       THEN exit
       ELSE type' = [type EXCEPT !.name = n] /\ StayInType

TypeSetting(s, v) ==
    /\ InType
    /\ IF \/ s = "influxwritemult" /\ v \in BadMult
          \/ s = "measurement" /\ type.settings[s] # Unset
       THEN exit
       ELSE type' = [type EXCEPT !.settings[s] = v] /\ StayInType

\* mqtt=, influx= and grafana= hold for the entries below them, in both sections.
SectionDefault(k, v) ==
    /\ pc \in {"type", "meter"} /\ Line
    /\ defaults' = [defaults EXCEPT ![k] = v]
    /\ UNCHANGED <<pc, type, meter, parsed>>

Register(entry) ==
    /\ InType
    /\ IF HasField(type.registers, entry.name)
       THEN exit
       ELSE /\ type' = [type EXCEPT !.registers = Append(@, Field(entry))]
            /\ StayInType

TypeComplete == type.name # NoName /\ type.registers # <<>>

CountType(t) == [k \in Sinks |-> NumEnabled(t.registers, k)]

StoredType == [name |-> type.name, registers |-> type.registers, settings |-> type.settings,
               isFormulaOnly |-> \A i \in DOMAIN type.registers : type.registers[i].formulaOnly,
               numEnabled |-> CountType(type)]
-----------------------------------------------------------------------------
(***************************************************************************)
(* parseMeter.                                                             *)
(***************************************************************************)
InMeter == pc = "meter" /\ Line
StayInMeter == UNCHANGED <<pc, type, defaults, parsed>>

MeterName(n) ==
    /\ InMeter
    /\ IF meter.name # NoName \/ findMeter(n)
       THEN exit
       ELSE meter' = [meter EXCEPT !.name = n] /\ StayInMeter

\* What a type says is taken over where type= stands, and only there.
FromType(t, s) ==
    IF s = "measurement" /\ t.settings[s] = Unset THEN meter.settings[s] ELSE t.settings[s]

Conflict_none == FALSE
Conflict == meter.conflict
CountWith_set(t, k) == t.numEnabled[k]
CountWith(t, k) == meter.numEnabled[k] + t.numEnabled[k]

MeterType(n) ==
    /\ InMeter
    /\ IF Conflict \/ meter.type # 0 \/ ~findMeterType(n)
       THEN exit
       ELSE /\ \E i \in DOMAIN meterTypes :
                  /\ meterTypes[i].name = n
                  /\ meter' = [meter EXCEPT
                        !.type = i,
                        !.settings = [s \in Settings |-> FromType(meterTypes[i], s)],
                        !.numEnabled = [k \in Sinks |-> CountWith(meterTypes[i], k)]]
            /\ StayInMeter

MeterSetting(s, v) ==
    /\ InMeter
    /\ IF s = "influxwritemult" /\ v \in BadMult
       THEN exit
       ELSE /\ meter' = [meter EXCEPT !.settings[s] = v, !.conflict = TRUE, !.said[s] = v]
            /\ StayInMeter

Disable(v) == /\ InMeter
              /\ meter' = [meter EXCEPT !.disabled = v] /\ StayInMeter

Hostname == /\ InMeter
            /\ IF meter.isTCP THEN exit
               ELSE meter' = [meter EXCEPT !.isTCP = TRUE] /\ StayInMeter

Address(a) == /\ InMeter
              /\ meter' = [meter EXCEPT !.mbusAddress = Unsigned(a)] /\ StayInMeter

Id(a) == /\ InMeter
         /\ meter' = [meter EXCEPT !.mbusId = a] /\ StayInMeter

\* Only the formulas of the meter are compared, not the registers of its type.
Formula(entry) ==
    /\ InMeter
    /\ IF HasField(meter.formulas, entry.name)
       THEN exit
       ELSE /\ meter' = [meter EXCEPT
                  !.formulas = Append(@, Field(entry)),
                  !.numEnabled = [k \in Sinks |-> @[k] + Field(entry).enabled[k]]]
            /\ StayInMeter

MeterComplete ==
    /\ meter.name # NoName
    /\ meter.type # 0 \/ meter.formulas # <<>>
    /\ ~(meter.mbusAddress < 0 /\ meter.mbusId < 0 /\ meter.type # 0)

Settled(s) == IF s = "mqttprefix" /\ meter.settings[s] = Unset THEN Global
              ELSE meter.settings[s]

StoredMeter ==
    [meter EXCEPT !.settings = [s \in Settings |-> Settled(s)]]

registers(m) == IF m.type = 0 THEN <<>> ELSE meterTypes[m.type].registers
isFormulaOnly(m) == m.type = 0 \/ meterTypes[m.type].isFormulaOnly
-----------------------------------------------------------------------------
(***************************************************************************)
(* readMeterDefinitions: the header of the next section, or the end of the *)
(* file, completes the section before it.                                  *)
(***************************************************************************)
Complete == /\ pc = "type" => TypeComplete
            /\ pc = "meter" => MeterComplete

NextSection(next) ==
    /\ pc \in {"begin", "type", "meter"} /\ Line
    /\ pc = "meter" => Len(meters) < MaxMeters
    /\ IF ~Complete THEN exit
       ELSE /\ pc' = next
            /\ type' = NewType /\ meter' = NewMeter
            /\ defaults' = AllEnabled
            /\ meterTypes' = IF pc = "type" THEN Append(meterTypes, StoredType) ELSE meterTypes
            /\ meters' = IF pc = "meter" THEN Append(meters, StoredMeter) ELSE meters

\* Every meter on the serial line gets the handle of the device main has opened.
OnSerial(m) == /\ ~m.isTCP /\ ~m.disabled
               /\ m.mbusAddress > 0 \/ m.mbusId > -1

SetHandles ==
    /\ pc = "read"
    /\ IF \/ meters = <<>>
          \/ ~serDevice /\ \E i \in DOMAIN meters : OnSerial(meters[i])
       THEN exit
       ELSE /\ meters' = [i \in DOMAIN meters |->
                            IF OnSerial(meters[i]) THEN [meters[i] EXCEPT !.mb = "serial"]
                            ELSE meters[i]]
            /\ pc' = "loaded"
            /\ UNCHANGED <<section, meterTypes>>
    /\ UNCHANGED <<serDevice, numLines>>

TypeLine == \/ \E n \in TypeNames : TypeName(n)
            \/ \E s \in Settings, v \in Given : TypeSetting(s, v)
            \/ \E r \in Registers : Register(r)

MeterLine == \/ \E n \in MeterNames : MeterName(n)
             \/ \E n \in TypeNames : MeterType(n)
             \/ \E s \in Settings, v \in Given : MeterSetting(s, v)
             \/ \E v \in BOOLEAN : Disable(v)
             \/ Hostname
             \/ \E a \in Addresses : Address(a) \/ Id(a)
             \/ \E f \in Formulas : Formula(f)

readMeterDefinitions ==
    \/ TypeLine \/ MeterLine \/ Refused
    \/ \E k \in Sinks, v \in {0, 1} : SectionDefault(k, v)
    \/ \E next \in {"type", "meter", "read"} : NextSection(next)
    \/ SetHandles
=============================================================================
