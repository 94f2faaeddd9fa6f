---------------------------- MODULE ConfigProofs ----------------------------
(***************************************************************************)
(* Theorems about the configuration and what is sent of its meters, for    *)
(* every set of names, fields and settings and files of every length: the  *)
(* inductive invariant of ConfigLines and what it implies.                 *)
(***************************************************************************)
EXTENDS ConfigLines, FiniteSetTheorems, TLAPS

USE ConfigFileAssumption, SinksAssumption

-----------------------------------------------------------------------------
(***************************************************************************)
(* Lemmas on fields and their number.                                      *)
(***************************************************************************)

\* An entry becomes a field with a choice of its own for every sink.
LEMMA FieldType ==
    ASSUME NEW e \in Entries, defaults \in [Sinks -> {0, 1}]
    PROVE  Field(e) \in FieldSet
<1>1. e.options \in [Sinks -> {0, 1, Unset}]
  BY DEF Entries
<1>2. [k \in Sinks |-> IF e.options[k] = Unset THEN defaults[k] ELSE e.options[k]]
        \in [Sinks -> {0, 1}]
  BY <1>1
<1>3. QED
  BY <1>2 DEF Field, FieldSet

\* The number of the enabled fields of a sequence is one.
LEMMA NumEnabledType ==
    ASSUME NEW fields \in Seq(FieldSet), NEW k
    PROVE  /\ IsFiniteSet({i \in DOMAIN fields : fields[i].enabled[k] = 1})
           /\ NumEnabled(fields, k) \in Nat
<1>1. Len(fields) \in Nat /\ DOMAIN fields = 1..Len(fields)
  OBVIOUS
<1>2. IsFiniteSet(1..Len(fields))
  BY <1>1, FS_Interval
<1>3. IsFiniteSet({i \in DOMAIN fields : fields[i].enabled[k] = 1})
  BY <1>1, <1>2, FS_Subset
<1>4. QED
  BY <1>3, FS_CardinalityType DEF NumEnabled

\* No field is counted of an empty sequence.
LEMMA NumEnabledEmpty == ASSUME NEW k PROVE NumEnabled(<<>>, k) = 0
<1>1. {i \in DOMAIN <<>> : <<>>[i].enabled[k] = 1} = {}
  OBVIOUS
<1>2. QED
  BY <1>1, FS_EmptySet DEF NumEnabled

\* A field more counts what it is enabled for.
LEMMA NumEnabledAppend ==
    ASSUME NEW fields \in Seq(FieldSet), NEW f \in FieldSet, NEW k \in Sinks
    PROVE  NumEnabled(Append(fields, f), k) = NumEnabled(fields, k) + f.enabled[k]
<1> DEFINE S == {i \in DOMAIN fields : fields[i].enabled[k] = 1}
           more == Append(fields, f)
           T == {i \in DOMAIN more : more[i].enabled[k] = 1}
<1>1. /\ Len(fields) \in Nat /\ DOMAIN fields = 1..Len(fields)
      /\ DOMAIN more = 1..(Len(fields) + 1)
      /\ \A i \in 1..Len(fields) : more[i] = fields[i]
      /\ more[Len(fields) + 1] = f
  OBVIOUS
<1>2. f.enabled[k] \in {0, 1}
  BY DEF FieldSet
<1>3. IsFiniteSet(S) /\ Cardinality(S) \in Nat
  BY NumEnabledType, FS_CardinalityType
<1>4. Len(fields) + 1 \notin S
  BY <1>1
<1> HIDE DEF more
<1>5. T = IF f.enabled[k] = 1 THEN S \cup {Len(fields) + 1} ELSE S
  <2>1. DOMAIN more = (DOMAIN fields) \cup {Len(fields) + 1}
    BY <1>1
  <2>2. QED
    BY <1>1, <1>2, <2>1
<1> HIDE DEF S, T
<1>6. Cardinality(T) = Cardinality(S) + f.enabled[k]
  <2>1. CASE f.enabled[k] = 1
    BY <1>3, <1>4, <1>5, <2>1, FS_AddElement
  <2>2. CASE f.enabled[k] = 0
    BY <1>3, <1>5, <2>2
  <2>3. QED
    BY <1>2, <2>1, <2>2
<1>7. QED
  BY <1>6 DEF NumEnabled, S, T, more

\* The registers of a meter are those of its type.
LEMMA RegistersType ==
    ASSUME meterTypes \in Seq(StoredTypeSet), NEW m, m.type \in 0..Len(meterTypes)
    PROVE  registers(m) \in Seq(FieldSet)
<1>1. CASE m.type = 0
  BY <1>1 DEF registers
<1>2. CASE m.type # 0
  <2>1. m.type \in 1..Len(meterTypes)
    BY <1>2
  <2>2. meterTypes[m.type] \in StoredTypeSet
    BY <2>1
  <2>3. QED
    BY <1>2, <2>2 DEF registers, StoredTypeSet
<1>3. QED
  BY <1>1, <1>2

-----------------------------------------------------------------------------
(***************************************************************************)
(* The sections under construction.                                        *)
(***************************************************************************)

\* What a section begins with.
LEMMA NewSections ==
    /\ NewType \in TypeSet /\ PrefixKnown(NewType)
    /\ NewMeter \in MeterSet /\ AllEnabled \in [Sinks -> {0, 1}]
    /\ NewMeter.type = 0 /\ NewMeter.name = NoName /\ NewMeter.formulas = <<>>
    /\ \A k \in Sinks : NewMeter.numEnabled[k] = 0
    /\ \A s \in Settings : /\ NewMeter.said[s] = Unset
                           /\ NewMeter.settings[s] =
                                IF s = "influxwritemult" THEN Global ELSE Unset
<1>1. NewType \in TypeSet
  BY DEF NewType, TypeSet, Value
<1>2. PrefixKnown(NewType)
  BY DEF NewType, PrefixKnown
<1>3. NewMeter \in MeterSet
  <2>1. NewMeter.settings \in [Settings -> Value] /\ NewMeter.said \in [Settings -> Given \cup {Unset}]
    BY DEF NewMeter, Value
  <2>2. NewMeter.numEnabled \in [Sinks -> Nat]
    BY DEF NewMeter
  <2>3. NewMeter.formulas \in Seq(FieldSet)
    BY DEF NewMeter
  <2>4. QED
    BY <2>1, <2>2, <2>3 DEF NewMeter, MeterSet
<1>4. QED
  BY <1>1, <1>2, <1>3 DEF NewMeter, AllEnabled

\* A new section is consistent with whatever was stored before it.
LEMMA Cleared ==
    ASSUME type' = NewType, meter' = NewMeter, defaults' = AllEnabled,
           meterTypes' \in Seq(StoredTypeSet)
    PROVE  /\ type' \in TypeSet /\ meter' \in MeterSet /\ defaults' \in [Sinks -> {0, 1}]
           /\ PrefixKnown(type)' /\ MeterSettings' /\ Counted(meter)' /\ NameFree'
<1>1. Len(meterTypes)' \in Nat
  OBVIOUS
<1>2. MeterSettings'
  BY <1>1, NewSections, 0 \in 0..Len(meterTypes') DEF MeterSettings, MostSpecific
<1>3. Counted(meter)'
  BY NewSections, NumEnabledEmpty DEF Counted, registers
<1>4. NameFree'
  BY NewSections DEF NameFree
<1>5. QED
  BY <1>2, <1>3, <1>4, NewSections

\* Once the program has refused the file nothing is left of it.
LEMMA ExitIInv ==
    ASSUME IInv, exit, UNCHANGED serDevice, numLines' \in 0..MaxLines
    PROVE  IInv'
<1>1. meterTypes' = <<>> /\ meters' = <<>> /\ pc' = "exit"
      /\ type' = NewType /\ meter' = NewMeter /\ defaults' = AllEnabled
  BY DEF exit
<1>2. meterTypes' \in Seq(StoredTypeSet) /\ meters' \in Seq(MeterSet)
      /\ DOMAIN meterTypes' = {} /\ DOMAIN meters' = {}
  BY <1>1
<1>3. TypeOK'
  BY <1>1, <1>2, Cleared DEF IInv, TypeOK
<1>4. TypesKnown' /\ Stored' /\ SettingsPrecedence' /\ EnabledNamesUnique'
  BY <1>2 DEF TypesKnown, Stored, SettingsPrecedence, EnabledNamesUnique
<1>5. QED
  BY <1>1, <1>2, <1>3, <1>4, Cleared DEF IInv

\* The line of the parser is one more of those the file may have.
LEMMA LineType == ASSUME TypeOK, Line PROVE numLines' \in 0..MaxLines
  BY DEF TypeOK, Line

LEMMA InitIInv == ConfigInit => IInv
<1> SUFFICES ASSUME ConfigInit PROVE IInv
  OBVIOUS
<1>1. /\ pc = "begin" /\ type = NewType /\ meter = NewMeter /\ defaults = AllEnabled
      /\ meterTypes = <<>> /\ meters = <<>> /\ serDevice \in BOOLEAN /\ numLines = 0
  BY DEF ConfigInit, Init
<1>2. meterTypes \in Seq(StoredTypeSet) /\ meters \in Seq(MeterSet)
      /\ DOMAIN meterTypes = {} /\ DOMAIN meters = {} /\ Len(meterTypes) = 0
  BY <1>1
<1>3. TypeOK
  BY <1>1, <1>2, NewSections DEF TypeOK
<1>4. TypesKnown /\ Stored /\ SettingsPrecedence /\ EnabledNamesUnique
  BY <1>2 DEF TypesKnown, Stored, SettingsPrecedence, EnabledNamesUnique
<1>5. MeterSettings
  BY <1>1, <1>2, NewSections DEF MeterSettings, MostSpecific
<1>6. Counted(meter)
  BY <1>1, NewSections, NumEnabledEmpty DEF Counted, registers
<1>7. NameFree
  BY <1>1, NewSections DEF NameFree
<1>8. QED
  BY <1>1, <1>3, <1>4, <1>5, <1>6, <1>7, NewSections DEF IInv

-----------------------------------------------------------------------------
(***************************************************************************)
(* The lines of a section MeterType.                                       *)
(***************************************************************************)

\* A line that only changes the type under construction.
LEMMA TypeChange ==
    ASSUME IInv, type' \in TypeSet, PrefixKnown(type)', numLines' \in 0..MaxLines,
           UNCHANGED <<pc, meter, defaults, parsed, serDevice>>
    PROVE  IInv'
<1>1. pc' = pc /\ meter' = meter /\ defaults' = defaults /\ meterTypes' = meterTypes
      /\ meters' = meters /\ serDevice' = serDevice
  BY DEF parsed
<1>2. TypeOK'
  BY <1>1 DEF IInv, TypeOK
<1>3. TypesKnown' /\ MeterSettings' /\ Counted(meter)' /\ NameFree'
  BY <1>1 DEF IInv, TypesKnown, MeterSettings, MostSpecific, Counted, registers, NameFree
<1>4. Stored' /\ SettingsPrecedence' /\ EnabledNamesUnique'
  BY <1>1 DEF IInv, Stored, Counted, registers, SettingsPrecedence, MostSpecific, EnabledNamesUnique
<1>5. QED
  BY <1>2, <1>3, <1>4 DEF IInv

LEMMA TypeLineIInv == ASSUME IInv, TypeLine PROVE IInv'
<1>0. TypeOK /\ type \in TypeSet /\ PrefixKnown(type) /\ defaults \in [Sinks -> {0, 1}]
  BY DEF IInv, TypeOK
<1>1. ASSUME NEW n \in TypeNames, TypeName(n) PROVE IInv'
  <2>1. numLines' \in 0..MaxLines /\ UNCHANGED serDevice
    BY <1>0, <1>1, LineType DEF TypeName, InType, Line
  <2>2. CASE exit
    BY <2>1, <2>2, ExitIInv
  <2>3. CASE type' = [type EXCEPT !.name = n] /\ StayInType
    <3>1. type' \in TypeSet /\ PrefixKnown(type)'
      BY <1>0, <2>3 DEF TypeSet, PrefixKnown
    <3>2. QED
      BY <2>1, <2>3, <3>1, TypeChange DEF StayInType
  <2>4. QED
    BY <1>1, <2>2, <2>3 DEF TypeName
<1>2. ASSUME NEW s \in Settings, NEW v \in Given, TypeSetting(s, v) PROVE IInv'
  <2>1. numLines' \in 0..MaxLines /\ UNCHANGED serDevice
    BY <1>0, <1>2, LineType DEF TypeSetting, InType, Line
  <2>2. CASE exit
    BY <2>1, <2>2, ExitIInv
  <2>3. CASE type' = [type EXCEPT !.settings[s] = v] /\ StayInType
    <3>1. type.settings \in [Settings -> Value] /\ v \in Value /\ v # Unset
      BY <1>0 DEF TypeSet, Value
    <3>2. [type.settings EXCEPT ![s] = v] \in [Settings -> Value]
      BY <3>1
    <3>3. type' \in TypeSet
      BY <1>0, <2>3, <3>2 DEF TypeSet
    <3>4. type'.settings = [type.settings EXCEPT ![s] = v]
      BY <1>0, <2>3 DEF TypeSet
    <3>5. PrefixKnown(type)'
      BY <1>0, <3>1, <3>4 DEF PrefixKnown
    <3>6. QED
      BY <2>1, <2>3, <3>3, <3>5, TypeChange DEF StayInType
  <2>4. QED
    BY <1>2, <2>2, <2>3 DEF TypeSetting
<1>3. ASSUME NEW r \in Registers, Register(r) PROVE IInv'
  <2>1. numLines' \in 0..MaxLines /\ UNCHANGED serDevice
    BY <1>0, <1>3, LineType DEF Register, InType, Line
  <2>2. CASE exit
    BY <2>1, <2>2, ExitIInv
  <2>3. CASE type' = [type EXCEPT !.registers = Append(@, Field(r))] /\ StayInType
    <3>1. Field(r) \in FieldSet
      BY <1>0, FieldType DEF Entries
    <3>2. Append(type.registers, Field(r)) \in Seq(FieldSet)
      BY <1>0, <3>1 DEF TypeSet
    <3>3. type' \in TypeSet /\ PrefixKnown(type)'
      BY <1>0, <2>3, <3>2 DEF TypeSet, PrefixKnown
    <3>4. QED
      BY <2>1, <2>3, <3>3, TypeChange DEF StayInType
  <2>4. QED
    BY <1>3, <2>2, <2>3 DEF Register
<1>4. QED
  BY <1>1, <1>2, <1>3 DEF TypeLine

\* influx=, mqtt= and grafana= change nothing that is stored.
LEMMA SectionDefaultIInv ==
    ASSUME IInv, NEW k \in Sinks, NEW v \in {0, 1}, SectionDefault(k, v)
    PROVE  IInv'
<1>1. /\ pc' = pc /\ type' = type /\ meter' = meter /\ meterTypes' = meterTypes
      /\ meters' = meters /\ serDevice' = serDevice
      /\ defaults' = [defaults EXCEPT ![k] = v]
  BY DEF SectionDefault, parsed, Line
<1>2. TypeOK'
  BY <1>1, LineType DEF IInv, TypeOK, SectionDefault
<1>3. TypesKnown' /\ MeterSettings' /\ Counted(meter)' /\ NameFree' /\ PrefixKnown(type)'
  BY <1>1 DEF IInv, TypesKnown, MeterSettings, MostSpecific, Counted, registers, NameFree, PrefixKnown
<1>4. Stored' /\ SettingsPrecedence' /\ EnabledNamesUnique'
  BY <1>1 DEF IInv, Stored, Counted, registers, SettingsPrecedence, MostSpecific, EnabledNamesUnique
<1>5. QED
  BY <1>2, <1>3, <1>4 DEF IInv

-----------------------------------------------------------------------------
(***************************************************************************)
(* The lines of a section Meter.                                           *)
(***************************************************************************)

\* A line that only changes the meter under construction.
LEMMA MeterChange ==
    ASSUME IInv, meter' \in MeterSet, MeterSettings', Counted(meter)', NameFree',
           numLines' \in 0..MaxLines, UNCHANGED <<pc, type, defaults, parsed, serDevice>>
    PROVE  IInv'
<1>1. pc' = pc /\ type' = type /\ defaults' = defaults /\ meterTypes' = meterTypes
      /\ meters' = meters /\ serDevice' = serDevice
  BY DEF parsed
<1>2. TypeOK'
  BY <1>1 DEF IInv, TypeOK
<1>3. TypesKnown' /\ PrefixKnown(type)'
  BY <1>1 DEF IInv, TypesKnown, PrefixKnown
<1>4. Stored' /\ SettingsPrecedence' /\ EnabledNamesUnique'
  BY <1>1 DEF IInv, Stored, Counted, registers, SettingsPrecedence, MostSpecific, EnabledNamesUnique
<1>5. QED
  BY <1>2, <1>3, <1>4 DEF IInv

\* What a line leaves alone stays consistent.
LEMMA SettingsKept ==
    ASSUME MeterSettings, UNCHANGED meterTypes, meter'.type = meter.type,
           meter'.said = meter.said, meter'.settings = meter.settings,
           meter'.conflict = meter.conflict
    PROVE  MeterSettings'
  BY DEF MeterSettings, MostSpecific

LEMMA CountKept ==
    ASSUME Counted(meter), UNCHANGED meterTypes, meter'.type = meter.type,
           meter'.formulas = meter.formulas, meter'.numEnabled = meter.numEnabled
    PROVE  Counted(meter)'
  BY DEF Counted, registers

LEMMA NameKept ==
    ASSUME NameFree, UNCHANGED meters, meter'.name = meter.name
    PROVE  NameFree'
  BY DEF NameFree

LEMMA MeterNameIInv == ASSUME IInv, NEW n \in MeterNames, MeterName(n) PROVE IInv'
<1>0. meter \in MeterSet /\ MeterSettings /\ Counted(meter)
  BY DEF IInv, TypeOK
<1>1. numLines' \in 0..MaxLines /\ UNCHANGED serDevice
  BY LineType DEF IInv, MeterName, InMeter, Line
<1>2. CASE exit
  BY <1>1, <1>2, ExitIInv
<1>3. CASE meter' = [meter EXCEPT !.name = n] /\ StayInMeter /\ ~findMeter(n)
  <2>1. meterTypes' = meterTypes /\ meters' = meters
    BY <1>3 DEF StayInMeter, parsed
  <2>2. /\ meter' \in MeterSet /\ meter'.name = n
        /\ meter'.type = meter.type /\ meter'.said = meter.said
        /\ meter'.settings = meter.settings /\ meter'.conflict = meter.conflict
        /\ meter'.formulas = meter.formulas /\ meter'.numEnabled = meter.numEnabled
    BY <1>0, <1>3 DEF MeterSet
  <2>3. NameFree'
    BY <1>3, <2>1, <2>2 DEF NameFree, findMeter
  <2>4. MeterSettings' /\ Counted(meter)'
    BY <1>0, <2>1, <2>2, SettingsKept, CountKept
  <2>5. QED
    BY <1>1, <1>3, <2>2, <2>3, <2>4, MeterChange DEF StayInMeter
<1>4. QED
  BY <1>2, <1>3 DEF MeterName

\* A line that says neither a name, nor a type, a setting or a formula.
LEMMA OtherMeterLine ==
    ASSUME IInv, InMeter, StayInMeter, meter' \in MeterSet,
           meter'.name = meter.name, meter'.type = meter.type, meter'.said = meter.said,
           meter'.settings = meter.settings, meter'.conflict = meter.conflict,
           meter'.formulas = meter.formulas, meter'.numEnabled = meter.numEnabled
    PROVE  IInv'
<1>1. numLines' \in 0..MaxLines /\ UNCHANGED serDevice
  BY LineType DEF IInv, InMeter, Line
<1>2. meterTypes' = meterTypes /\ meters' = meters
  BY DEF StayInMeter, parsed
<1>3. MeterSettings' /\ Counted(meter)' /\ NameFree'
  BY <1>2, SettingsKept, CountKept, NameKept DEF IInv
<1>4. QED
  BY <1>1, <1>3, MeterChange DEF StayInMeter

LEMMA QuietMeterLinesIInv ==
    ASSUME IInv, \/ \E v \in BOOLEAN : Disable(v)
                 \/ Hostname
                 \/ \E a \in Addresses : Address(a) \/ Id(a)
    PROVE  IInv'
<1>0. meter \in MeterSet
  BY DEF IInv, TypeOK
<1>1. ASSUME NEW v \in BOOLEAN, Disable(v) PROVE IInv'
  <2>1. meter' = [meter EXCEPT !.disabled = v] /\ InMeter /\ StayInMeter
    BY <1>1 DEF Disable
  <2>2. /\ meter' \in MeterSet /\ meter'.name = meter.name
        /\ meter'.type = meter.type /\ meter'.said = meter.said
        /\ meter'.settings = meter.settings /\ meter'.conflict = meter.conflict
        /\ meter'.formulas = meter.formulas /\ meter'.numEnabled = meter.numEnabled
    BY <1>0, <2>1 DEF MeterSet
  <2>3. QED
    BY <2>1, <2>2, OtherMeterLine
<1>2. ASSUME Hostname PROVE IInv'
  <2>1. CASE exit
    <3>1. numLines' \in 0..MaxLines /\ UNCHANGED serDevice
      BY <1>2, LineType DEF IInv, Hostname, InMeter, Line
    <3>2. QED
      BY <2>1, <3>1, ExitIInv
  <2>2. CASE meter' = [meter EXCEPT !.isTCP = TRUE] /\ InMeter /\ StayInMeter
    <3>1. /\ meter' \in MeterSet /\ meter'.name = meter.name
          /\ meter'.type = meter.type /\ meter'.said = meter.said
          /\ meter'.settings = meter.settings /\ meter'.conflict = meter.conflict
          /\ meter'.formulas = meter.formulas /\ meter'.numEnabled = meter.numEnabled
      BY <1>0, <2>2 DEF MeterSet
    <3>2. QED
      BY <2>2, <3>1, OtherMeterLine
  <2>3. QED
    BY <1>2, <2>1, <2>2 DEF Hostname
<1>3. ASSUME NEW a \in Addresses, Address(a) PROVE IInv'
  <2>1. meter' = [meter EXCEPT !.mbusAddress = Unsigned(a)] /\ InMeter /\ StayInMeter
    BY <1>3 DEF Address
  <2>2. Unsigned(a) \in {Unsigned(b) : b \in Addresses \cup {-1}}
    OBVIOUS
  <2>3. /\ meter' \in MeterSet /\ meter'.name = meter.name
        /\ meter'.type = meter.type /\ meter'.said = meter.said
        /\ meter'.settings = meter.settings /\ meter'.conflict = meter.conflict
        /\ meter'.formulas = meter.formulas /\ meter'.numEnabled = meter.numEnabled
    BY <1>0, <2>1, <2>2 DEF MeterSet
  <2>4. QED
    BY <2>1, <2>3, OtherMeterLine
<1>4. ASSUME NEW a \in Addresses, Id(a) PROVE IInv'
  <2>1. meter' = [meter EXCEPT !.mbusId = a] /\ InMeter /\ StayInMeter
    BY <1>4 DEF Id
  <2>2. /\ meter' \in MeterSet /\ meter'.name = meter.name
        /\ meter'.type = meter.type /\ meter'.said = meter.said
        /\ meter'.settings = meter.settings /\ meter'.conflict = meter.conflict
        /\ meter'.formulas = meter.formulas /\ meter'.numEnabled = meter.numEnabled
    BY <1>0, <2>1 DEF MeterSet
  <2>3. QED
    BY <2>1, <2>2, OtherMeterLine
<1>5. QED
  BY <1>1, <1>2, <1>3, <1>4

LEMMA MeterSettingIInv ==
    ASSUME IInv, NEW s \in Settings, NEW v \in Given, MeterSetting(s, v)
    PROVE  IInv'
<1>0. meter \in MeterSet /\ MeterSettings /\ Counted(meter) /\ NameFree
  BY DEF IInv, TypeOK
<1>1. numLines' \in 0..MaxLines /\ UNCHANGED serDevice
  BY LineType DEF IInv, MeterSetting, InMeter, Line
<1>2. CASE exit
  BY <1>1, <1>2, ExitIInv
<1>3. CASE /\ meter' = [meter EXCEPT !.settings[s] = v, !.conflict = TRUE, !.said[s] = v]
           /\ StayInMeter
  <2>1. meterTypes' = meterTypes /\ meters' = meters
    BY <1>3 DEF StayInMeter, parsed
  <2>2. /\ meter.settings \in [Settings -> Value] /\ v \in Value /\ v # Unset
        /\ meter.said \in [Settings -> Given \cup {Unset}]
    BY <1>0 DEF MeterSet, Value
  <2>3. /\ [meter.settings EXCEPT ![s] = v] \in [Settings -> Value]
        /\ [meter.said EXCEPT ![s] = v] \in [Settings -> Given \cup {Unset}]
    BY <2>2
  <2>4. /\ meter' \in MeterSet /\ meter'.name = meter.name /\ meter'.type = meter.type
        /\ meter'.settings = [meter.settings EXCEPT ![s] = v]
        /\ meter'.said = [meter.said EXCEPT ![s] = v] /\ meter'.conflict
        /\ meter'.formulas = meter.formulas /\ meter'.numEnabled = meter.numEnabled
    BY <1>0, <1>3, <2>3 DEF MeterSet
  <2>5. MeterSettings'
    <3>1. \A t \in Settings :
             meter'.settings[t] = IF t = "mqttprefix" /\ meter'.type = 0 THEN meter'.said[t]
                                  ELSE MostSpecific(meter, t)'
      <4> SUFFICES ASSUME NEW t \in Settings
                   PROVE  meter'.settings[t] =
                            IF t = "mqttprefix" /\ meter'.type = 0 THEN meter'.said[t]
                            ELSE MostSpecific(meter, t)'
        OBVIOUS
      <4>1. CASE t = s
        <5>1. meter'.settings[t] = v /\ meter'.said[t] = v
          BY <2>2, <2>4, <4>1
        <5>2. QED
          BY <2>2, <5>1 DEF MostSpecific
      <4>2. CASE t # s
        <5>1. meter'.settings[t] = meter.settings[t] /\ meter'.said[t] = meter.said[t]
          BY <2>2, <2>4, <4>2
        <5>2. MostSpecific(meter, t)' = MostSpecific(meter, t)
          BY <2>1, <2>4, <5>1 DEF MostSpecific
        <5>3. QED
          BY <1>0, <2>4, <5>1, <5>2 DEF MeterSettings
      <4>3. QED
        BY <4>1, <4>2
    <3>2. QED
      BY <1>0, <2>1, <2>4, <3>1 DEF MeterSettings
  <2>6. Counted(meter)' /\ NameFree'
    BY <1>0, <2>1, <2>4, CountKept, NameKept
  <2>7. QED
    BY <1>1, <1>3, <2>4, <2>5, <2>6, MeterChange DEF StayInMeter
<1>4. QED
  BY <1>2, <1>3 DEF MeterSetting

\* Where type= stands nothing was said yet, and all that the type says holds.
LEMMA MeterTypeIInv == ASSUME IInv, NEW n \in TypeNames, MeterType(n) PROVE IInv'
<1>0. meter \in MeterSet /\ MeterSettings /\ Counted(meter) /\ NameFree
      /\ meterTypes \in Seq(StoredTypeSet) /\ TypesKnown
  BY DEF IInv, TypeOK
<1>1. numLines' \in 0..MaxLines /\ UNCHANGED serDevice
  BY LineType DEF IInv, MeterType, InMeter, Line
<1>2. CASE exit
  BY <1>1, <1>2, ExitIInv
<1>3. ASSUME ~Conflict, meter.type = 0, StayInMeter,
             NEW i \in DOMAIN meterTypes,
             meter' = [meter EXCEPT
                         !.type = i,
                         !.settings = [s \in Settings |-> FromType(meterTypes[i], s)],
                         !.numEnabled = [k \in Sinks |-> CountWith(meterTypes[i], k)]]
      PROVE  IInv'
  <2>1. meterTypes' = meterTypes /\ meters' = meters
    BY <1>3 DEF StayInMeter, parsed
  <2>2. /\ i \in 1..Len(meterTypes) /\ i \in Nat /\ meterTypes[i] \in StoredTypeSet
        /\ meterTypes[i].settings \in [Settings -> Value]
        /\ meterTypes[i].numEnabled \in [Sinks -> Nat]
    <3>1. i \in 1..Len(meterTypes) /\ i \in Nat /\ meterTypes[i] \in StoredTypeSet
      BY <1>0, <1>3
    <3>2. QED
      BY <3>1 DEF StoredTypeSet
  <2>3. \A s \in Settings : meter.said[s] = Unset
    BY <1>0, <1>3 DEF Conflict, MeterSettings
  <2>4. \A s \in Settings : FromType(meterTypes[i], s) = meterTypes[i].settings[s]
    BY <1>0, <1>3, <2>3 DEF FromType, MeterSettings, MostSpecific
  <2>5. [s \in Settings |-> FromType(meterTypes[i], s)] \in [Settings -> Value]
    BY <2>2, <2>4
  <2>6. [k \in Sinks |-> CountWith(meterTypes[i], k)] \in [Sinks -> Nat]
    BY <1>0, <2>2 DEF CountWith, MeterSet
  <2>7. /\ meter' \in MeterSet /\ meter'.name = meter.name /\ meter'.type = i
        /\ meter'.said = meter.said /\ meter'.conflict = meter.conflict
        /\ meter'.formulas = meter.formulas
        /\ \A s \in Settings : meter'.settings[s] = meterTypes[i].settings[s]
        /\ \A k \in Sinks : meter'.numEnabled[k] = meter.numEnabled[k] + meterTypes[i].numEnabled[k]
    BY <1>0, <1>3, <2>2, <2>4, <2>5, <2>6 DEF MeterSet, CountWith
  <2>8. MeterSettings'
    BY <1>0, <2>1, <2>2, <2>3, <2>7 DEF MeterSettings, MostSpecific
  <2>9. Counted(meter)'
    <3>1. \A k \in Sinks : meter.numEnabled[k] = NumEnabled(meter.formulas, k)
      <4>1. \A k \in Sinks : NumEnabled(meter.formulas, k) \in Nat
        BY <1>0, NumEnabledType DEF MeterSet
      <4>2. QED
        BY <1>0, <1>3, <4>1, NumEnabledEmpty DEF Counted, registers
    <3>2. \A k \in Sinks : /\ meterTypes[i].numEnabled[k] = NumEnabled(meterTypes[i].registers, k)
                           /\ NumEnabled(meterTypes[i].registers, k) \in Nat
                           /\ NumEnabled(meter.formulas, k) \in Nat
      BY <1>0, <2>2, NumEnabledType DEF TypesKnown, StoredTypeSet, MeterSet
    <3>3. registers(meter)' = meterTypes[i].registers
      BY <2>1, <2>2, <2>7 DEF registers
    <3>4. QED
      BY <2>7, <3>1, <3>2, <3>3 DEF Counted
  <2>10. QED
    BY <1>0, <1>1, <1>3, <2>1, <2>7, <2>8, <2>9, NameKept, MeterChange DEF StayInMeter
<1>4. QED
  BY <1>2, <1>3 DEF MeterType

LEMMA FormulaIInv == ASSUME IInv, NEW f \in Formulas, Formula(f) PROVE IInv'
<1>0. meter \in MeterSet /\ MeterSettings /\ Counted(meter) /\ NameFree
      /\ defaults \in [Sinks -> {0, 1}] /\ meterTypes \in Seq(StoredTypeSet)
  BY DEF IInv, TypeOK
<1>1. numLines' \in 0..MaxLines /\ UNCHANGED serDevice
  BY LineType DEF IInv, Formula, InMeter, Line
<1>2. CASE exit
  BY <1>1, <1>2, ExitIInv
<1>3. CASE /\ meter' = [meter EXCEPT
                  !.formulas = Append(@, Field(f)),
                  !.numEnabled = [k \in Sinks |-> @[k] + Field(f).enabled[k]]]
           /\ StayInMeter
  <2>1. meterTypes' = meterTypes /\ meters' = meters
    BY <1>3 DEF StayInMeter, parsed
  <2>2. Field(f) \in FieldSet
    BY <1>0, FieldType DEF Entries
  <2>3. /\ meter.formulas \in Seq(FieldSet) /\ meter.numEnabled \in [Sinks -> Nat]
        /\ Field(f).enabled \in [Sinks -> {0, 1}]
    BY <1>0, <2>2 DEF MeterSet, FieldSet
  <2>4. /\ Append(meter.formulas, Field(f)) \in Seq(FieldSet)
        /\ [k \in Sinks |-> meter.numEnabled[k] + Field(f).enabled[k]] \in [Sinks -> Nat]
    BY <2>2, <2>3
  <2>5. /\ meter' \in MeterSet /\ meter'.name = meter.name /\ meter'.type = meter.type
        /\ meter'.said = meter.said /\ meter'.settings = meter.settings
        /\ meter'.conflict = meter.conflict
        /\ meter'.formulas = Append(meter.formulas, Field(f))
        /\ \A k \in Sinks : meter'.numEnabled[k] = meter.numEnabled[k] + Field(f).enabled[k]
    BY <1>0, <1>3, <2>4 DEF MeterSet
  <2>6. Counted(meter)'
    <3>1. registers(meter)' = registers(meter)
      BY <2>1, <2>5 DEF registers
    <3>2. \A k \in Sinks : NumEnabled(registers(meter), k) \in Nat
      <4>1. registers(meter) \in Seq(FieldSet)
        BY <1>0, RegistersType DEF MeterSettings
      <4>2. QED
        BY <4>1, NumEnabledType, Zenon
    <3>3. \A k \in Sinks : NumEnabled(meter.formulas, k) \in Nat
      BY <2>3, NumEnabledType, Zenon
    <3>4. \A k \in Sinks : Field(f).enabled[k] \in Nat
      BY <2>3
    <3>5. \A k \in Sinks : NumEnabled(Append(meter.formulas, Field(f)), k)
                              = NumEnabled(meter.formulas, k) + Field(f).enabled[k]
      BY <2>2, <2>3, NumEnabledAppend, Zenon
    <3>6. ASSUME NEW k \in Sinks
          PROVE  meter'.numEnabled[k]
                   = NumEnabled(registers(meter), k) + NumEnabled(meter'.formulas, k)
      <4>1. meter.numEnabled[k] = NumEnabled(registers(meter), k) + NumEnabled(meter.formulas, k)
        BY <1>0 DEF Counted
      <4>2. meter'.numEnabled[k] = meter.numEnabled[k] + Field(f).enabled[k]
        BY <2>5
      <4>3. NumEnabled(meter'.formulas, k) = NumEnabled(meter.formulas, k) + Field(f).enabled[k]
        BY <2>5, <3>5
      <4> DEFINE x == NumEnabled(registers(meter), k)
                 y == NumEnabled(meter.formulas, k)
                 z == Field(f).enabled[k]
      <4>4. x \in Nat /\ y \in Nat /\ z \in Nat
        BY <3>2, <3>3, <3>4
      <4> HIDE DEF x, y, z
      <4>5. (x + y) + z = x + (y + z)
        BY <4>4
      <4>6. QED
        BY <4>1, <4>2, <4>3, <4>5 DEF x, y, z
    <3>7. QED
      BY <3>1, <3>6 DEF Counted
  <2>7. MeterSettings' /\ NameFree'
    BY <1>0, <2>1, <2>5, SettingsKept, NameKept
  <2>8. QED
    BY <1>1, <1>3, <2>5, <2>6, <2>7, MeterChange DEF StayInMeter
<1>4. QED
  BY <1>2, <1>3 DEF Formula

-----------------------------------------------------------------------------
(***************************************************************************)
(* The header of the next section, or the end of the file.                 *)
(***************************************************************************)

\* A type more changes nothing for a meter that refers to an earlier one.
LEMMA EarlierTypes ==
    ASSUME meterTypes \in Seq(StoredTypeSet), NEW t \in StoredTypeSet,
           meterTypes' = Append(meterTypes, t)
    PROVE  /\ meterTypes' \in Seq(StoredTypeSet)
           /\ Len(meterTypes') = Len(meterTypes) + 1
           /\ DOMAIN meterTypes' = (DOMAIN meterTypes) \cup {Len(meterTypes) + 1}
           /\ \A i \in DOMAIN meterTypes : meterTypes'[i] = meterTypes[i]
           /\ meterTypes'[Len(meterTypes) + 1] = t
           /\ \A n \in 0..Len(meterTypes) :
                 n \in 0..Len(meterTypes') /\ (n # 0 => meterTypes'[n] = meterTypes[n])
<1>1. /\ meterTypes' \in Seq(StoredTypeSet)
      /\ Len(meterTypes') = Len(meterTypes) + 1 /\ Len(meterTypes) \in Nat
      /\ DOMAIN meterTypes = 1..Len(meterTypes)
      /\ DOMAIN meterTypes' = 1..(Len(meterTypes) + 1)
      /\ \A i \in 1..Len(meterTypes) : meterTypes'[i] = meterTypes[i]
      /\ meterTypes'[Len(meterTypes) + 1] = t
  OBVIOUS
<1>2. DOMAIN meterTypes' = (DOMAIN meterTypes) \cup {Len(meterTypes) + 1}
  BY <1>1
<1>3. \A n \in 0..Len(meterTypes) :
         n \in 0..Len(meterTypes') /\ (n # 0 => n \in 1..Len(meterTypes))
  BY <1>1
<1>4. QED
  BY <1>1, <1>2, <1>3

LEMMA StoreTypeIInv ==
    ASSUME IInv, pc = "type", TypeComplete, pc' \in {"type", "meter", "read"},
           type' = NewType, meter' = NewMeter, defaults' = AllEnabled,
           meterTypes' = Append(meterTypes, StoredType), meters' = meters,
           UNCHANGED serDevice, numLines' \in 0..MaxLines
    PROVE  IInv'
<1>0. /\ type \in TypeSet /\ PrefixKnown(type) /\ meterTypes \in Seq(StoredTypeSet)
      /\ meters \in Seq(MeterSet) /\ TypesKnown /\ Stored /\ SettingsPrecedence
      /\ EnabledNamesUnique
  BY DEF IInv, TypeOK
<1>1. \A k \in Sinks : NumEnabled(type.registers, k) \in Nat
  <2>1. type.registers \in Seq(FieldSet)
    BY <1>0 DEF TypeSet
  <2>2. QED
    BY <2>1, NumEnabledType, Zenon
<1>2. CountType(type) \in [Sinks -> Nat]
  BY <1>1 DEF CountType
<1>3. /\ StoredType \in StoredTypeSet /\ PrefixKnown(StoredType)
      /\ \A k \in Sinks : StoredType.numEnabled[k] = NumEnabled(StoredType.registers, k)
  BY <1>0, <1>2 DEF StoredType, StoredTypeSet, TypeSet, TypeComplete, PrefixKnown, CountType
<1> DEFINE t == StoredType
<1> HIDE DEF t
<1>4. meterTypes' = Append(meterTypes, t) /\ t \in StoredTypeSet
  BY <1>3 DEF t
<1>5. /\ meterTypes' \in Seq(StoredTypeSet)
      /\ DOMAIN meterTypes' = (DOMAIN meterTypes) \cup {Len(meterTypes) + 1}
      /\ \A i \in DOMAIN meterTypes : meterTypes'[i] = meterTypes[i]
      /\ meterTypes'[Len(meterTypes) + 1] = t
      /\ \A n \in 0..Len(meterTypes) :
            n \in 0..Len(meterTypes') /\ (n # 0 => meterTypes'[n] = meterTypes[n])
  BY <1>0, <1>4, EarlierTypes
<1>6. TypesKnown'
  <2> SUFFICES ASSUME NEW i \in DOMAIN meterTypes'
               PROVE  /\ PrefixKnown(meterTypes'[i])
                      /\ \A k \in Sinks : meterTypes'[i].numEnabled[k]
                                            = NumEnabled(meterTypes'[i].registers, k)
    BY DEF TypesKnown, PrefixKnown, NumEnabled
  <2>1. CASE i \in DOMAIN meterTypes
    BY <1>0, <1>5, <2>1 DEF TypesKnown
  <2>2. CASE i = Len(meterTypes) + 1
    BY <1>3, <1>5, <2>2 DEF t
  <2>3. QED
    BY <1>5, <2>1, <2>2
<1>7. Stored'
  BY <1>0, <1>5 DEF Stored, Counted, registers
<1>8. SettingsPrecedence'
  BY <1>0, <1>5 DEF Stored, SettingsPrecedence, MostSpecific
<1>9. EnabledNamesUnique'
  BY <1>0 DEF EnabledNamesUnique
<1>10. TypeOK' /\ PrefixKnown(type)' /\ MeterSettings' /\ Counted(meter)' /\ NameFree'
  BY <1>0, <1>5, Cleared DEF IInv, TypeOK
<1>11. QED
  BY <1>6, <1>7, <1>8, <1>9, <1>10 DEF IInv

LEMMA StoreMeterIInv ==
    ASSUME IInv, pc = "meter", MeterComplete, pc' \in {"type", "meter", "read"},
           type' = NewType, meter' = NewMeter, defaults' = AllEnabled,
           meters' = Append(meters, StoredMeter), meterTypes' = meterTypes,
           UNCHANGED serDevice, numLines' \in 0..MaxLines
    PROVE  IInv'
<1>0. /\ meter \in MeterSet /\ meterTypes \in Seq(StoredTypeSet) /\ meters \in Seq(MeterSet)
      /\ TypesKnown /\ MeterSettings /\ Counted(meter) /\ NameFree
      /\ Stored /\ SettingsPrecedence /\ EnabledNamesUnique
  BY DEF IInv, TypeOK
<1> DEFINE m == StoredMeter
<1>1. [s \in Settings |-> Settled(s)] \in [Settings -> Value]
  BY <1>0 DEF Settled, MeterSet, Value
<1>2. /\ m \in MeterSet /\ m.name = meter.name /\ m.type = meter.type /\ m.said = meter.said
      /\ m.formulas = meter.formulas /\ m.numEnabled = meter.numEnabled
      /\ m.disabled = meter.disabled
      /\ \A s \in Settings : m.settings[s] = Settled(s)
  BY <1>0, <1>1 DEF StoredMeter, MeterSet
<1> HIDE DEF m
<1>3. meters' = Append(meters, m)
  BY DEF m
<1>4. /\ meters' \in Seq(MeterSet) /\ Len(meters) \in Nat
      /\ DOMAIN meters = 1..Len(meters)
      /\ DOMAIN meters' = 1..(Len(meters) + 1)
      /\ \A i \in 1..Len(meters) : meters'[i] = meters[i]
      /\ meters'[Len(meters) + 1] = m
  BY <1>0, <1>2, <1>3
<1>5. DOMAIN meters' = (DOMAIN meters) \cup {Len(meters) + 1}
  BY <1>4
<1>6. m.name # NoName
  BY <1>2 DEF MeterComplete
<1>7. Stored'
  <2>1. m.type \in 0..Len(meterTypes)
    BY <1>0, <1>2 DEF MeterSettings
  <2>2. Counted(m)
    BY <1>0, <1>2 DEF Counted, registers
  <2>3. QED
    BY <1>0, <1>4, <1>5, <1>6, <2>1, <2>2 DEF Stored, Counted, registers
<1>8. \A s \in Settings : m.settings[s] = MostSpecific(m, s)
  <2> SUFFICES ASSUME NEW s \in Settings PROVE m.settings[s] = MostSpecific(m, s)
    OBVIOUS
  <2>1. MostSpecific(m, s) = MostSpecific(meter, s)
    BY <1>2 DEF MostSpecific
  <2>2. CASE s = "mqttprefix" /\ meter.type = 0
    BY <1>0, <1>2, <2>1, <2>2 DEF Settled, MeterSettings, MostSpecific
  <2>3. CASE s = "mqttprefix" /\ meter.type # 0
    <3>1. meter.said[s] \in Given \cup {Unset} /\ meter.type \in DOMAIN meterTypes
      BY <1>0, <2>3 DEF MeterSet, MeterSettings
    <3>2. MostSpecific(meter, s) # Unset
      BY <1>0, <2>3, <3>1 DEF MostSpecific, TypesKnown, PrefixKnown
    <3>3. QED
      BY <1>0, <1>2, <2>1, <2>3, <3>2 DEF Settled, MeterSettings
  <2>4. CASE s # "mqttprefix"
    BY <1>0, <1>2, <2>1, <2>4 DEF Settled, MeterSettings
  <2>5. QED
    BY <2>2, <2>3, <2>4
<1>9. SettingsPrecedence'
  BY <1>0, <1>4, <1>5, <1>8 DEF SettingsPrecedence, MostSpecific
<1>10. EnabledNamesUnique'
  <2>1. \A i \in DOMAIN meters : meters[i].name = m.name => meters[i].disabled
    BY <1>0, <1>2, <1>6 DEF NameFree
  <2>2. QED
    BY <1>0, <1>4, <1>5, <2>1 DEF EnabledNamesUnique
<1>11. TypesKnown'
  BY <1>0 DEF TypesKnown
<1>12. TypeOK' /\ PrefixKnown(type)' /\ MeterSettings' /\ Counted(meter)' /\ NameFree'
  BY <1>0, <1>4, Cleared DEF IInv, TypeOK
<1>13. QED
  BY <1>7, <1>9, <1>10, <1>11, <1>12 DEF IInv

LEMMA NextSectionIInv ==
    ASSUME IInv, NEW next \in {"type", "meter", "read"}, NextSection(next)
    PROVE  IInv'
<1>0. /\ numLines' \in 0..MaxLines /\ UNCHANGED serDevice /\ pc \in {"begin", "type", "meter"}
  BY LineType DEF IInv, NextSection, Line
<1>1. CASE exit
  BY <1>0, <1>1, ExitIInv
<1>2. CASE /\ Complete
           /\ pc' = next
           /\ type' = NewType /\ meter' = NewMeter
           /\ defaults' = AllEnabled
           /\ meterTypes' = IF pc = "type" THEN Append(meterTypes, StoredType) ELSE meterTypes
           /\ meters' = IF pc = "meter" THEN Append(meters, StoredMeter) ELSE meters
  <2>1. CASE pc = "type"
    BY <1>0, <1>2, <2>1, StoreTypeIInv DEF Complete
  <2>2. CASE pc = "meter"
    BY <1>0, <1>2, <2>2, StoreMeterIInv DEF Complete
  <2>3. CASE pc = "begin"
    <3>1. meterTypes' = meterTypes /\ meters' = meters
      BY <1>2, <2>3
    <3>2. TypeOK' /\ PrefixKnown(type)' /\ MeterSettings' /\ Counted(meter)' /\ NameFree'
      BY <1>0, <1>2, <3>1, Cleared DEF IInv, TypeOK
    <3>3. TypesKnown' /\ Stored' /\ SettingsPrecedence' /\ EnabledNamesUnique'
      BY <3>1 DEF IInv, TypesKnown, Stored, Counted, registers, SettingsPrecedence,
                  MostSpecific, EnabledNamesUnique
    <3>4. QED
      BY <3>2, <3>3 DEF IInv
  <2>4. QED
    BY <1>0, <2>1, <2>2, <2>3
<1>3. QED
  BY <1>1, <1>2 DEF NextSection

-----------------------------------------------------------------------------
(***************************************************************************)
(* What main does with the meters.                                         *)
(***************************************************************************)

\* The handle is all that a meter gets after the file was read.
LEMMA SetHandlesIInv == ASSUME IInv, SetHandles PROVE IInv'
<1>0. /\ meters \in Seq(MeterSet) /\ Stored /\ SettingsPrecedence /\ EnabledNamesUnique
      /\ serDevice' = serDevice /\ numLines' = numLines /\ numLines' \in 0..MaxLines
  BY DEF IInv, TypeOK, SetHandles
<1>1. CASE exit
  BY <1>0, <1>1, ExitIInv
<1>2. CASE /\ meters' = [i \in DOMAIN meters |->
                            IF OnSerial(meters[i]) THEN [meters[i] EXCEPT !.mb = "serial"]
                            ELSE meters[i]]
           /\ pc' = "loaded"
           /\ UNCHANGED <<section, meterTypes>>
  <2>1. type' = type /\ meter' = meter /\ defaults' = defaults /\ meterTypes' = meterTypes
    BY <1>2 DEF section
  <2>2. /\ DOMAIN meters = 1..Len(meters) /\ Len(meters) \in Nat
        /\ DOMAIN meters' = DOMAIN meters
        /\ \A i \in DOMAIN meters : meters[i] \in MeterSet
    BY <1>0, <1>2
  <2>3. ASSUME NEW i \in DOMAIN meters
        PROVE  /\ meters'[i] \in MeterSet
               /\ meters'[i].name = meters[i].name /\ meters'[i].type = meters[i].type
               /\ meters'[i].said = meters[i].said /\ meters'[i].settings = meters[i].settings
               /\ meters'[i].formulas = meters[i].formulas
               /\ meters'[i].numEnabled = meters[i].numEnabled
               /\ meters'[i].disabled = meters[i].disabled
    <3>1. CASE OnSerial(meters[i])
      <4>1. meters'[i] = [meters[i] EXCEPT !.mb = "serial"]
        BY <1>2, <3>1
      <4>2. meters[i] \in MeterSet
        BY <2>2
      <4>3. QED
        BY <4>1, <4>2 DEF MeterSet
    <3>2. CASE ~OnSerial(meters[i])
      <4>1. meters'[i] = meters[i]
        BY <1>2, <3>2
      <4>2. QED
        BY <2>2, <4>1
    <3>3. QED
      BY <3>1, <3>2
  <2>4. meters' \in Seq(MeterSet)
    BY <1>2, <2>2, <2>3
  <2>5. TypeOK'
    BY <1>0, <1>2, <2>1, <2>4 DEF IInv, TypeOK
  <2>6. TypesKnown' /\ MeterSettings' /\ Counted(meter)' /\ PrefixKnown(type)'
    BY <2>1 DEF IInv, TypesKnown, MeterSettings, MostSpecific, Counted, registers, PrefixKnown
  <2>7. NameFree'
    BY <2>1, <2>2, <2>3 DEF IInv, NameFree
  <2>8. Stored'
    BY <1>0, <2>1, <2>2, <2>3 DEF Stored, Counted, registers
  <2>9. SettingsPrecedence'
    BY <1>0, <2>1, <2>2, <2>3 DEF SettingsPrecedence, MostSpecific
  <2>10. EnabledNamesUnique'
    BY <1>0, <2>2, <2>3 DEF EnabledNamesUnique
  <2>11. QED
    BY <2>5, <2>6, <2>7, <2>8, <2>9, <2>10 DEF IInv
<1>3. QED
  BY <1>1, <1>2 DEF SetHandles

\* A round, or no step at all, leaves the configuration as it is.
LEMMA RoundIInv ==
    ASSUME IInv, pc' \in {pc, "failed", "sent"},
           UNCHANGED <<section, parsed, serDevice, numLines>>
    PROVE  IInv'
<1>1. /\ type' = type /\ meter' = meter /\ defaults' = defaults /\ meterTypes' = meterTypes
      /\ meters' = meters /\ serDevice' = serDevice /\ numLines' = numLines
  BY DEF section, parsed
<1>2. TypeOK'
  BY <1>1 DEF IInv, TypeOK
<1>3. TypesKnown' /\ MeterSettings' /\ Counted(meter)' /\ NameFree' /\ PrefixKnown(type)'
  BY <1>1 DEF IInv, TypesKnown, MeterSettings, MostSpecific, Counted, registers, NameFree, PrefixKnown
<1>4. Stored' /\ SettingsPrecedence' /\ EnabledNamesUnique'
  BY <1>1 DEF IInv, Stored, Counted, registers, SettingsPrecedence, MostSpecific, EnabledNamesUnique
<1>5. QED
  BY <1>2, <1>3, <1>4 DEF IInv

LEMMA NextIInv == IInv /\ [Next]_vars => IInv'
<1> SUFFICES ASSUME IInv, [Next]_vars PROVE IInv'
  OBVIOUS
<1>1. CASE TypeLine
  BY <1>1, TypeLineIInv
<1>2. CASE MeterLine
  BY <1>2, MeterNameIInv, MeterTypeIInv, MeterSettingIInv, QuietMeterLinesIInv, FormulaIInv
     DEF MeterLine
<1>3. CASE Refused
  <2>1. exit /\ UNCHANGED serDevice /\ numLines' \in 0..MaxLines
    BY <1>3, LineType DEF IInv, Refused, Line
  <2>2. QED
    BY <2>1, ExitIInv
<1>4. CASE \E k \in Sinks, v \in {0, 1} : SectionDefault(k, v)
  BY <1>4, SectionDefaultIInv
<1>5. CASE \E next \in {"type", "meter", "read"} : NextSection(next)
  BY <1>5, NextSectionIInv
<1>6. CASE SetHandles
  BY <1>6, SetHandlesIInv
<1>7. ASSUME NEW S \in SUBSET {i \in DOMAIN meters : ~meters[i].disabled}, Round(S)
      PROVE  IInv'
  <2>1. pc' \in {"failed", "sent"} /\ UNCHANGED <<section, parsed, serDevice, numLines>>
    BY <1>7 DEF Round
  <2>2. QED
    BY <2>1, RoundIInv
<1>8. CASE UNCHANGED vars
  BY <1>8, RoundIInv DEF vars, configVars, section, parsed
<1>9. QED
  BY <1>1, <1>2, <1>3, <1>4, <1>5, <1>6, <1>7, <1>8 DEF Next, readMeterDefinitions

-----------------------------------------------------------------------------
(***************************************************************************)
(* Induction up to a number, and what a fold over a sequence comes to: a   *)
(* run of values from the base, one for every element.                     *)
(***************************************************************************)

\* What holds of 0 and is handed on from a number to the next one holds up to n.
LEMMA Upto ==
    ASSUME NEW n \in Nat, NEW T, 0 \in T,
           \A i \in 1..n : i - 1 \in T => i \in T
    PROVE  \A i \in 0..n : i \in T
<1> SUFFICES ASSUME NEW j \in 0..n, j \notin T PROVE FALSE
  OBVIOUS
<1> DEFINE R == {ss \in Nat \X Nat : ss[1] < ss[2]}
           U == {i \in 0..n : i \notin T}
<1>1. IsWellFoundedOn(R, Nat)
  BY NatLessThanWellFounded DEF OpToRel
<1>2. \A x, y \in Nat : y < x => <<y, x>> \in R
  OBVIOUS
<1>3. j \in U /\ U \in SUBSET Nat
  OBVIOUS
<1> HIDE DEF R
<1>4. PICK x \in U : \A y \in U : ~(<<y, x>> \in R)
  BY <1>1, <1>3, WFMin, Zenon
<1>5. x \in 1..n /\ x - 1 \in 0..n
  OBVIOUS
<1>6. x - 1 \in U
  BY <1>5
<1>7. <<x - 1, x>> \in R
  BY <1>2, <1>5
<1>8. QED
  BY <1>4, <1>6, <1>7

\* The greatest of the numbers up to k, and what is left without it.
LEMMA GreatestUpto ==
    ASSUME NEW k \in Nat, NEW S \in SUBSET (1..(k + 1)), k + 1 \in S
    PROVE  Max(S) = k + 1
<1>1. \A y \in S : y \in Int /\ k + 1 >= y
  OBVIOUS
<1>2. \A x \in S : (\A y \in S : x >= y) => x = k + 1
  BY <1>1
<1>3. QED
  BY <1>1, <1>2 DEF Max

\* Among some of the numbers up to n there is a greatest one.
LEMMA MaxUpto ==
    ASSUME NEW n \in Nat, NEW S \in SUBSET (1..n), S # {}
    PROVE  Max(S) \in 1..n
<1> DEFINE T == {k \in 0..n : \A U \in SUBSET (1..k) : U # {} => Max(U) \in 1..k}
<1>1. 0 \in T
  <2>1. 0 \in 0..n /\ 1..0 = {}
    OBVIOUS
  <2>2. QED
    BY <2>1
<1>2. ASSUME NEW i \in 1..n, i - 1 \in T PROVE i \in T
  <2> SUFFICES ASSUME NEW U \in SUBSET (1..i), U # {} PROVE Max(U) \in 1..i
    OBVIOUS
  <2>1. CASE i \in U
    <3>1. i - 1 \in Nat /\ (i - 1) + 1 = i
      OBVIOUS
    <3>2. QED
      BY <2>1, <3>1, GreatestUpto
  <2>2. CASE i \notin U
    <3>1. U \in SUBSET (1..(i - 1))
      BY <2>2
    <3>2. QED
      BY <1>2, <3>1
  <2>3. QED
    BY <2>1, <2>2
<1> HIDE DEF T
<1>3. n \in T
  BY <1>1, <1>2, Upto, n \in 0..n
<1>4. QED
  BY <1>3 DEF T

\* The function that a fold of the steps h over some of the numbers up to n
\* is defined with.
IsFold(g, C, n, c, h) ==
    /\ g \in [SUBSET (1..n) -> C]
    /\ \A S \in SUBSET (1..n) : g[S] = IF S = {} THEN c ELSE h[Max(S)][g[S \ {Max(S)}]]

\* The recursive function that a fold is defined with exists.
LEMMA FoldExists ==
    ASSUME NEW C, NEW n \in Nat, NEW c \in C, NEW h \in [1..n -> [C -> C]]
    PROVE  \E g : IsFold(g, C, n, c, h)
<1> DEFINE Is(k, g) == \A S \in SUBSET (1..k) :
                          g[S] = IF S = {} THEN c ELSE h[Max(S)][g[S \ {Max(S)}]]
           T == {k \in 0..n : \E g \in [SUBSET (1..k) -> C] : Is(k, g)}
<1>1. 0 \in T
  <2>1. [S \in SUBSET (1..0) |-> c] \in [SUBSET (1..0) -> C] /\ 0 \in 0..n /\ 1..0 = {}
    OBVIOUS
  <2>2. Is(0, [S \in SUBSET (1..0) |-> c])
    BY <2>1
  <2>3. QED
    BY <2>1, <2>2
<1>2. ASSUME NEW i \in 1..n, i - 1 \in T PROVE i \in T
  <2> DEFINE k == i - 1
  <2>1. k \in Nat /\ k + 1 = i /\ i \in 1..n /\ i \in 0..n
    OBVIOUS
  <2>2. PICK g \in [SUBSET (1..k) -> C] : Is(k, g)
    BY <1>2
  <2> HIDE DEF k
  <2> DEFINE f == [S \in SUBSET (1..i) |-> IF i \in S THEN h[i][g[S \ {i}]] ELSE g[S]]
  <2>3. \A S \in SUBSET (1..i) : /\ S \ {i} \in SUBSET (1..k)
                                 /\ i \notin S => S \in SUBSET (1..k)
    BY <2>1
  <2>4. f \in [SUBSET (1..i) -> C]
    <3>1. h[i] \in [C -> C]
      BY <2>1
    <3>2. QED
      BY <2>3, <3>1
  <2>5. \A S \in SUBSET (1..k) : S \in SUBSET (1..i) /\ f[S] = g[S]
    BY <2>1
  <2>6. ASSUME NEW S \in SUBSET (1..i)
        PROVE  f[S] = IF S = {} THEN c ELSE h[Max(S)][f[S \ {Max(S)}]]
    <3>1. CASE i \in S
      <4>1. Max(S) = i
        BY <2>1, <3>1, GreatestUpto
      <4>2. f[S] = h[i][g[S \ {i}]] /\ f[S \ {i}] = g[S \ {i}] /\ S # {}
        BY <2>3, <2>5, <3>1
      <4>3. QED
        BY <4>1, <4>2
    <3>2. CASE i \notin S
      <4>1. S \in SUBSET (1..k) /\ S \ {Max(S)} \in SUBSET (1..k)
        BY <2>3, <3>2
      <4>2. f[S] = g[S] /\ f[S \ {Max(S)}] = g[S \ {Max(S)}]
        BY <2>5, <4>1
      <4>3. g[S] = IF S = {} THEN c ELSE h[Max(S)][g[S \ {Max(S)}]]
        BY <2>2, <4>1
      <4>4. QED
        BY <4>2, <4>3
    <3>3. QED
      BY <3>1, <3>2
  <2> HIDE DEF f
  <2>7. Is(i, f)
    BY <2>6
  <2>8. QED
    BY <2>1, <2>4, <2>7
<1> HIDE DEF T
<1>3. n \in T
  BY <1>1, <1>2, Upto, n \in 0..n
<1>4. PICK g \in [SUBSET (1..n) -> C] : Is(n, g)
  BY <1>3 DEF T
<1>5. QED
  BY <1>4 DEF IsFold

\* The positions up to one of them.
LEMMA PositionsUpto ==
    ASSUME NEW n \in Nat, NEW i \in 1..n
    PROVE  /\ 1..i \in SUBSET (1..n)
           /\ 1..i # {}
           /\ Max(1..i) = i
           /\ (1..i) \ {i} = 1..(i - 1)
<1>1. i - 1 \in Nat /\ (i - 1) + 1 = i /\ i \in 1..i
  OBVIOUS
<1>2. Max(1..i) = i
  BY <1>1, GreatestUpto
<1>3. 1..i \in SUBSET (1..n) /\ 1..i # {}
  BY <1>1
<1>4. (1..i) \ {i} = 1..(i - 1)
  OBVIOUS
<1>5. QED
  BY <1>2, <1>3, <1>4

\* What is reached after the first i steps.
IsRun(r, C, n, c, h) ==
    r \in [0..n -> C] /\ r[0] = c /\ \A i \in 1..n : r[i] = h[i][r[i - 1]]

\* What a fold has of its defining equation.
Folds(it, C, n, c, h) ==
    /\ it[{}] = c
    /\ \A S \in SUBSET (1..n) : S # {} /\ it[S \ {Max(S)}] \in C
                                   => it[S] = h[Max(S)][it[S \ {Max(S)}]]

\* Its values for the positions up to each one are the run of the fold.
LEMMA FoldRun ==
    ASSUME NEW C, NEW n \in Nat, NEW c \in C, NEW h \in [1..n -> [C -> C]], NEW it,
           Folds(it, C, n, c, h)
    PROVE  \E r : IsRun(r, C, n, c, h) /\ r[n] = it[1..n]
<1> DEFINE r == [i \in 0..n |-> it[1..i]]
           T == {i \in 0..n : it[1..i] \in C}
<1>1. 1..0 = {} /\ 0 \in 0..n /\ n \in 0..n
  OBVIOUS
<1>2. ASSUME NEW i \in 1..n, i - 1 \in T PROVE i \in T /\ it[1..i] = h[i][it[1..(i - 1)]]
  <2>1. /\ 1..i \in SUBSET (1..n) /\ 1..i # {} /\ Max(1..i) = i
        /\ (1..i) \ {i} = 1..(i - 1)
    BY PositionsUpto
  <2>2. it[1..(i - 1)] \in C
    BY <1>2
  <2>3. it[1..i] = h[i][it[1..(i - 1)]]
    BY <2>1, <2>2 DEF Folds
  <2>4. i \in 0..n /\ h[i] \in [C -> C]
    OBVIOUS
  <2>5. QED
    BY <2>2, <2>3, <2>4
<1>3. 0 \in T
  BY <1>1 DEF Folds
<1>4. \A i \in 0..n : i \in T
  <2> HIDE DEF T
  <2>1. QED
    BY <1>2, <1>3, Upto
<1>5. r \in [0..n -> C] /\ r[0] = c /\ r[n] = it[1..n]
  BY <1>1, <1>4 DEF Folds
<1>6. ASSUME NEW i \in 1..n PROVE r[i] = h[i][r[i - 1]]
  <2>1. i \in 0..n /\ i - 1 \in 0..n
    OBVIOUS
  <2>2. QED
    BY <1>2, <1>4, <2>1
<1> HIDE DEF r
<1>7. QED
  BY <1>5, <1>6 DEF IsRun

-----------------------------------------------------------------------------
(***************************************************************************)
(* The buffers of the clients.                                             *)
(***************************************************************************)
\* What is in a buffer.
Labels == {"measurement", "now"} \cup {e.name : e \in Entries}
             \cup ((MeterNames \cup {NoName}) \X Nat)
Elements == [type : MEAS..TIMESTAMP, name : Labels]
Written == [type : MEAS..TIMESTAMP, name : Labels,
            after : {"none", "newline", "space", "comma"}]
Buffers == [text : Seq(Written), last : 0..TIMESTAMP, failed : BOOLEAN]

\* What format_line makes of a buffer is one.
LEMMA FormatType ==
    ASSUME NEW c \in Buffers, NEW e \in Elements
    PROVE  format_line(c, e) \in Buffers
<1>1. /\ c.text \in Seq(Written) /\ c.last \in 0..7 /\ c.failed \in BOOLEAN
      /\ e.type \in 1..7 /\ e.name \in Labels
  BY DEF Buffers, Elements, MEAS, TIMESTAMP
<1> DEFINE last == IF c.text = <<>> THEN 0 ELSE c.last
           more == [type |-> e.type, name |-> e.name, after |-> Separator(last, e.type)]
<1>2. last \in 0..7
  BY <1>1
<1>3. Append(c.text, more) \in Seq(Written)
  <2>1. Separator(last, e.type) \in {"none", "newline", "space", "comma"}
    BY DEF Separator
  <2>2. QED
    BY <1>1, <2>1 DEF Written, MEAS, TIMESTAMP
<1>4. [text |-> <<>>, last |-> last, failed |-> TRUE] \in Buffers
  BY <1>2 DEF Buffers, TIMESTAMP
<1>5. [text |-> Append(c.text, more), last |-> e.type, failed |-> FALSE] \in Buffers
  BY <1>1, <1>3 DEF Buffers, TIMESTAMP
<1> HIDE DEF more
<1>6. format_line(c, e) \in {c, [text |-> <<>>, last |-> last, failed |-> TRUE],
                             [text |-> Append(c.text, more), last |-> e.type, failed |-> FALSE]}
  BY DEF format_line, more
<1>7. QED
  BY <1>4, <1>5, <1>6

\* The fold of format_line is a run that appends one element after the other.
LEMMA FormatRun ==
    ASSUME NEW c \in Buffers, NEW es \in Seq(Elements)
    PROVE  \E r \in [0..Len(es) -> Buffers] :
              /\ r[0] = c
              /\ \A i \in 1..Len(es) : r[i] = format_line(r[i - 1], es[i])
              /\ r[Len(es)] = FoldLeft(format_line, c, es)
<1> DEFINE n == Len(es)
           h == [i \in 1..n |-> [b \in Buffers |-> format_line(b, es[i])]]
           F(f) == [S \in SUBSET DOMAIN es |->
                      IF S = {} THEN c ELSE format_line(f[S \ {Max(S)}], es[Max(S)])]
           it == CHOOSE f : f = F(f)
<1>1. n \in Nat /\ DOMAIN es = 1..n /\ \A i \in 1..n : es[i] \in Elements
  OBVIOUS
<1>2. h \in [1..n -> [Buffers -> Buffers]]
  BY <1>1, FormatType
<1>3. \A S \in SUBSET (1..n) :
         S # {} => Max(S) \in 1..n /\ \A b \in Buffers : h[Max(S)][b] = format_line(b, es[Max(S)])
  BY <1>1, MaxUpto
<1>4. FoldLeft(format_line, c, es) = it[DOMAIN es]
  BY DEF FoldLeft, MapThenFoldSet
<1> HIDE DEF h, n
<1>5. PICK g : IsFold(g, Buffers, n, c, h)
  BY <1>1, <1>2, FoldExists
<1>6. g = F(g)
  BY <1>1, <1>3, <1>5 DEF IsFold
<1> HIDE DEF F
<1>7. it = F(it)
  BY <1>6
<1> HIDE DEF it
<1>8. Folds(it, Buffers, n, c, h)
  BY <1>1, <1>3, <1>7 DEF F, Folds
<1>9. PICK r : IsRun(r, Buffers, n, c, h) /\ r[n] = it[1..n]
  BY <1>1, <1>2, <1>8, FoldRun
<1>10. ASSUME NEW i \in 1..n PROVE r[i] = format_line(r[i - 1], es[i])
  <2>1. i - 1 \in 0..n
    BY <1>1
  <2>2. QED
    BY <1>9, <2>1 DEF IsRun, h
<1>11. QED
  BY <1>1, <1>4, <1>9, <1>10 DEF IsRun, n

\* A text that is legal as far as it goes, and what its last element was.
Legal(c) ==
    /\ c \in Buffers /\ ~c.failed
    /\ c.text # <<>> => /\ c.text[1].type = MEAS /\ c.text[1].after = "none"
                        /\ c.last = c.text[Len(c.text)].type
                        /\ \A i \in 2..Len(c.text) : LegalAfter(c.text[i - 1], c.text[i])

\* The types that may follow one another in a line.
MayFollow(p, t) == \/ t = TAG /\ p \in {MEAS, TAG}
                   \/ t \in STRING_FIELD..BOOLEAN_FIELD /\ p \in {MEAS, TAG} \cup STRING_FIELD..BOOLEAN_FIELD
                   \/ t = TIMESTAMP /\ p \in STRING_FIELD..BOOLEAN_FIELD

Fits(c, e) == IF c.text = <<>> THEN e.type = MEAS
              ELSE \/ e.type = MEAS /\ c.last = TIMESTAMP
                   \/ MayFollow(c.last, e.type)

\* format_line refuses no element that fits, and the separator is the right one.
LEMMA Fitting ==
    ASSUME NEW c, Legal(c), NEW e \in Elements, Fits(c, e)
    PROVE  LET d == format_line(c, e)
           IN  /\ Legal(d) /\ d.last = e.type
               /\ Len(d.text) = Len(c.text) + 1
               /\ \A i \in 1..Len(c.text) : d.text[i] = c.text[i]
               /\ d.text[Len(d.text)].type = e.type /\ d.text[Len(d.text)].name = e.name
<1> DEFINE n == Len(c.text)
           last == IF c.text = <<>> THEN 0 ELSE c.last
           x == [type |-> e.type, name |-> e.name, after |-> Separator(last, e.type)]
           d == format_line(c, e)
<1>1. /\ c \in Buffers /\ ~c.failed /\ n \in Nat /\ c.last \in 0..7
      /\ c.text = <<>> <=> n = 0
      /\ e.type \in 1..7 /\ e.name \in Labels
      /\ \A i \in 1..n : c.text[i].type \in 1..7
  <2>1. c \in Buffers /\ ~c.failed /\ c.text \in Seq(Written) /\ c.last \in 0..7
    BY DEF Legal, Buffers, TIMESTAMP
  <2>2. e.type \in 1..7 /\ e.name \in Labels
    BY DEF Elements, MEAS, TIMESTAMP
  <2>3. /\ n \in Nat
        /\ c.text = <<>> <=> n = 0
        /\ \A i \in 1..n : c.text[i].type \in 1..7
    <3>1. n \in Nat /\ \A i \in 1..n : c.text[i] \in Written
      BY <2>1
    <3>2. c.text = <<>> <=> n = 0
      BY <2>1
    <3>3. QED
      BY <3>1, <3>2 DEF Written, MEAS, TIMESTAMP
  <2>4. QED
    BY <2>1, <2>2, <2>3
<1>2. ~Refuses(last, e.type)
  BY <1>1 DEF Fits, MayFollow, Refuses, MEAS, TAG, STRING_FIELD, BOOLEAN_FIELD, TIMESTAMP
<1>3. d = [text |-> Append(c.text, x), last |-> e.type, failed |-> FALSE]
  BY <1>1, <1>2 DEF format_line
<1>4. d \in Buffers
  BY <1>1, FormatType
<1>5. x.type = e.type /\ x.name = e.name /\ x.after = Separator(last, e.type)
  OBVIOUS
<1>6. n > 0 => LegalAfter(c.text[n], x)
  <2>1. n > 0 => c.last = c.text[n].type /\ last = c.last
    BY <1>1 DEF Legal
  <2>2. QED
    BY <1>1, <1>5, <2>1 DEF Fits, MayFollow, LegalAfter, IsField, Separator,
                            MEAS, TAG, STRING_FIELD, BOOLEAN_FIELD, TIMESTAMP
<1>7. n = 0 => x.type = MEAS /\ x.after = "none"
  BY <1>1, <1>5 DEF Fits, Separator, MEAS
<1> HIDE DEF x, last
<1>8. /\ Len(d.text) = n + 1 /\ d.last = e.type /\ ~d.failed
      /\ \A i \in 1..n : d.text[i] = c.text[i]
      /\ d.text[n + 1] = x
  <2>1. c.text \in Seq(Written)
    BY <1>1 DEF Buffers
  <2>2. d.text = Append(c.text, x)
    BY <1>3
  <2>3. QED
    BY <1>3, <2>1, <2>2
<1> HIDE DEF d
<1>9. d.text[1].type = MEAS /\ d.text[1].after = "none"
  BY <1>1, <1>7, <1>8 DEF Legal
<1>10. ASSUME NEW i \in 2..Len(d.text) PROVE LegalAfter(d.text[i - 1], d.text[i])
  <2>1. CASE i \in 2..n
    <3>1. i \in 1..n /\ i - 1 \in 1..n /\ c.text # <<>>
      BY <1>1, <2>1
    <3>2. QED
      BY <1>8, <2>1, <3>1 DEF Legal
  <2>2. CASE i = n + 1
    <3>1. n \in 1..n /\ n > 0 /\ i - 1 = n
      BY <1>1, <1>8, <2>2
    <3>2. QED
      BY <1>6, <1>8, <2>2, <3>1
  <2>3. QED
    BY <1>1, <1>8, <2>1, <2>2
<1>11. Legal(d)
  BY <1>4, <1>5, <1>8, <1>9, <1>10 DEF Legal
<1>12. QED
  BY <1>5, <1>8, <1>11 DEF d

\* A text that ends with the end of a line.
CompleteLines(c) == Legal(c) /\ (c.text # <<>> => c.last = TIMESTAMP)

\* The elements of one line.
IsLine(es) ==
    /\ es \in Seq(Elements) /\ Len(es) > 0
    /\ es[1].type = MEAS /\ es[Len(es)].type = TIMESTAMP
    /\ \A i \in 2..Len(es) : MayFollow(es[i - 1].type, es[i].type)

\* A buffer d that has the elements es more than the buffer c.
Extends(d, c, es) ==
    /\ Len(d.text) = Len(c.text) + Len(es)
    /\ \A i \in 1..Len(c.text) : d.text[i] = c.text[i]
    /\ \A j \in 1..Len(es) : /\ d.text[Len(c.text) + j].type = es[j].type
                             /\ d.text[Len(c.text) + j].name = es[j].name

\* A line more is appended to complete lines, without a refusal.
LEMMA LineAppended ==
    ASSUME NEW c, CompleteLines(c), NEW es, IsLine(es)
    PROVE  LET d == FoldLeft(format_line, c, es)
           IN  CompleteLines(d) /\ Extends(d, c, es)
<1> DEFINE n == Len(es)
           m == Len(c.text)
           d == FoldLeft(format_line, c, es)
<1>1. /\ es \in Seq(Elements) /\ n \in Nat /\ n > 0
      /\ \A i \in 1..n : es[i] \in Elements
      /\ c \in Buffers /\ Legal(c)
  BY DEF IsLine, CompleteLines, Legal
<1>2. m \in Nat /\ (c.text = <<>> <=> m = 0)
  BY <1>1 DEF Buffers
<1> HIDE DEF m
<1>3. PICK r \in [0..n -> Buffers] : /\ r[0] = c
                                     /\ \A i \in 1..n : r[i] = format_line(r[i - 1], es[i])
                                     /\ r[n] = d
  BY <1>1, FormatRun
<1> HIDE DEF d
<1> DEFINE So(i) == /\ Legal(r[i]) /\ Len(r[i].text) = m + i
                    /\ i > 0 => r[i].last = es[i].type
                    /\ \A j \in 1..m : r[i].text[j] = c.text[j]
                    /\ \A j \in 1..i : /\ r[i].text[m + j].type = es[j].type
                                       /\ r[i].text[m + j].name = es[j].name
           T == {i \in 0..n : So(i)}
<1>4. So(0)
  BY <1>1, <1>2, <1>3 DEF m
<1>5. ASSUME NEW i \in 1..n, So(i - 1) PROVE So(i)
  <2> DEFINE k == i - 1
             b == r[k]
  <2>1. k \in Nat /\ k \in 0..n /\ i = k + 1 /\ es[i] \in Elements
    BY <1>1
  <2>2. /\ Legal(b) /\ Len(b.text) = m + k
        /\ k > 0 => b.last = es[k].type
        /\ \A j \in 1..m : b.text[j] = c.text[j]
        /\ \A j \in 1..k : b.text[m + j].type = es[j].type /\ b.text[m + j].name = es[j].name
    BY <1>5
  <2>3. r[i] = format_line(b, es[i])
    BY <1>3
  <2> HIDE DEF k, b
  <2>4. Fits(b, es[i])
    <3>1. CASE k = 0
      <4>1. es[i].type = MEAS /\ b = c
        BY <1>3, <2>1, <3>1 DEF IsLine, b
      <4>2. QED
        BY <1>1, <4>1 DEF CompleteLines, Fits
    <3>2. CASE k > 0
      <4>1. MayFollow(es[k].type, es[i].type)
        BY <2>1, <3>2 DEF IsLine
      <4>2. b.text # <<>>
        BY <1>2, <2>1, <2>2, <3>2
      <4>3. QED
        BY <2>2, <3>2, <4>1, <4>2 DEF Fits
    <3>3. QED
      BY <2>1, <3>1, <3>2
  <2>5. /\ Legal(r[i]) /\ r[i].last = es[i].type
        /\ Len(r[i].text) = m + k + 1
        /\ \A j \in 1..(m + k) : r[i].text[j] = b.text[j]
        /\ r[i].text[m + k + 1].type = es[i].type /\ r[i].text[m + k + 1].name = es[i].name
    <3>1. Legal(b) /\ Len(b.text) = m + k
      BY <2>2
    <3> DEFINE e == es[i]
               more == format_line(b, e)
    <3>2. e \in Elements /\ Fits(b, e)
      BY <2>1, <2>4
    <3> HIDE DEF e
    <3>3. /\ Legal(more) /\ more.last = e.type
          /\ Len(more.text) = Len(b.text) + 1
          /\ \A j \in 1..Len(b.text) : more.text[j] = b.text[j]
          /\ more.text[Len(b.text) + 1].type = e.type /\ more.text[Len(b.text) + 1].name = e.name
      BY <3>1, <3>2, Fitting
    <3> HIDE DEF more
    <3>4. r[i] = more
      BY <2>3 DEF more, e
    <3>5. QED
      BY <3>1, <3>3, <3>4 DEF e
  <2>6. \A j \in 1..m : r[i].text[j] = c.text[j]
    BY <1>2, <2>1, <2>2, <2>5
  <2>7. ASSUME NEW j \in 1..i
        PROVE  r[i].text[m + j].type = es[j].type /\ r[i].text[m + j].name = es[j].name
    <3>1. CASE j \in 1..k
      <4>1. m + j \in 1..(m + k)
        BY <1>2, <2>1, <3>1
      <4>2. QED
        BY <2>2, <2>5, <3>1, <4>1
    <3>2. CASE j = k + 1
      <4>1. m + j = m + k + 1 /\ j = i
        BY <1>2, <2>1, <3>2
      <4>2. QED
        BY <2>5, <4>1
    <3>3. QED
      BY <2>1, <3>1, <3>2
  <2>8. Len(r[i].text) = m + i
    BY <1>2, <2>1, <2>5
  <2>9. QED
    BY <2>5, <2>6, <2>7, <2>8
<1> HIDE DEF So
<1>6. So(n)
  <2>1. 0 \in T /\ \A i \in 1..n : i - 1 \in T => i \in T
    BY <1>1, <1>4, <1>5
  <2>2. n \in 0..n
    BY <1>1
  <2> HIDE DEF T
  <2>3. n \in T
    BY <1>1, <2>1, <2>2, Upto
  <2>4. QED
    BY <2>3 DEF T
<1>7. /\ Legal(d) /\ Len(d.text) = m + n /\ d.last = TIMESTAMP
      /\ \A j \in 1..m : d.text[j] = c.text[j]
      /\ \A j \in 1..n : d.text[m + j].type = es[j].type /\ d.text[m + j].name = es[j].name
  BY <1>1, <1>3, <1>6 DEF So, IsLine
<1>8. QED
  BY <1>7 DEF CompleteLines, Extends, d, m

\* Complete lines are what the line protocol asks for.
LEMMA CompleteText == ASSUME NEW c, CompleteLines(c) PROVE LineProtocol(c.text)
  BY DEF CompleteLines, Legal, LineProtocol

-----------------------------------------------------------------------------
(***************************************************************************)
(* The fields that are enabled for a sink.                                 *)
(***************************************************************************)

\* The fields that are enabled, and the members of a sequence.
EnabledOf(fields, k) == {fields[i] : i \in {i \in DOMAIN fields : fields[i].enabled[k] = 1}}
Members(s) == {s[i] : i \in DOMAIN s}

\* A sequence with an element more has it as a member more.
LEMMA MembersAppend ==
    ASSUME NEW S, NEW s \in Seq(S), NEW x \in S
    PROVE  Members(Append(s, x)) = Members(s) \cup {x}
<1>1. /\ DOMAIN s = 1..Len(s) /\ Len(s) \in Nat
      /\ DOMAIN Append(s, x) = 1..(Len(s) + 1)
      /\ \A i \in 1..Len(s) : Append(s, x)[i] = s[i]
      /\ Append(s, x)[Len(s) + 1] = x
  OBVIOUS
<1>2. DOMAIN Append(s, x) = (DOMAIN s) \cup {Len(s) + 1}
  BY <1>1
<1> DEFINE more == Append(s, x)
<1> HIDE DEF more
<1>3. Members(more) = Members(s) \cup {x}
  BY <1>1, <1>2 DEF Members, more
<1>4. QED
  BY <1>3 DEF more

\* EnabledFor keeps the fields that are enabled for the sink, and no other.
LEMMA EnabledForFields ==
    ASSUME NEW fields \in Seq(FieldSet), NEW k
    PROVE  /\ EnabledFor(k, fields) \in Seq(FieldSet)
           /\ Members(EnabledFor(k, fields)) = EnabledOf(fields, k)
<1> DEFINE n == Len(fields)
           C == Seq(FieldSet)
           add(q, f) == IF f.enabled[k] = 1 THEN Append(q, f) ELSE q
           h == [i \in 1..n |-> [q \in C |-> add(q, fields[i])]]
           F(f) == [S \in SUBSET DOMAIN fields |->
                      IF S = {} THEN <<>> ELSE add(f[S \ {Max(S)}], fields[Max(S)])]
           it == CHOOSE f : f = F(f)
<1>1. n \in Nat /\ DOMAIN fields = 1..n /\ \A i \in 1..n : fields[i] \in FieldSet
  OBVIOUS
<1>2. \A q \in C, f \in FieldSet : add(q, f) \in C
  OBVIOUS
<1>3. EnabledFor(k, fields) = it[DOMAIN fields]
  BY DEF EnabledFor, FoldLeft, MapThenFoldSet
<1> HIDE DEF add
<1>4. h \in [1..n -> [C -> C]]
  BY <1>1, <1>2
<1>5. \A S \in SUBSET (1..n) :
         S # {} => Max(S) \in 1..n /\ \A q \in C : h[Max(S)][q] = add(q, fields[Max(S)])
  BY <1>1, MaxUpto
<1>6. <<>> \in C
  OBVIOUS
<1> HIDE DEF h, n, C
<1>7. PICK g : IsFold(g, C, n, <<>>, h)
  BY <1>1, <1>4, <1>6, FoldExists
<1>8. g = F(g)
  BY <1>1, <1>5, <1>7 DEF IsFold
<1> HIDE DEF F
<1>9. it = F(it)
  BY <1>8
<1> HIDE DEF it
<1>10. Folds(it, C, n, <<>>, h)
  BY <1>1, <1>5, <1>9 DEF F, Folds
<1>11. PICK r : IsRun(r, C, n, <<>>, h) /\ r[n] = it[1..n]
  BY <1>1, <1>4, <1>6, <1>10, FoldRun
<1> DEFINE Upper(i) == {fields[j] : j \in {j \in 1..i : fields[j].enabled[k] = 1}}
           T == {i \in 0..n : Members(r[i]) = Upper(i)}
<1>12. 0 \in T
  <2>1. r[0] = <<>> /\ 0 \in 0..n
    BY <1>1, <1>11 DEF IsRun
  <2>2. QED
    BY <2>1 DEF Members
<1>13. ASSUME NEW i \in 1..n, i - 1 \in T PROVE i \in T
  <2>1. i - 1 \in 0..n /\ i \in 0..n /\ fields[i] \in FieldSet /\ r[i - 1] \in C
    BY <1>1, <1>11 DEF IsRun
  <2>2. r[i] = add(r[i - 1], fields[i])
    BY <1>11, <2>1 DEF IsRun, h
  <2>3. Members(r[i - 1]) = Upper(i - 1)
    BY <1>13
  <2>4. 1..i = (1..(i - 1)) \cup {i}
    BY <1>1
  <2>5. Members(r[i]) = Upper(i)
    <3>1. CASE fields[i].enabled[k] = 1
      <4>1. Members(r[i]) = Members(r[i - 1]) \cup {fields[i]}
        BY <2>1, <2>2, <3>1, MembersAppend DEF add, C
      <4>2. QED
        BY <2>3, <2>4, <3>1, <4>1
    <3>2. CASE fields[i].enabled[k] # 1
      <4>1. Members(r[i]) = Members(r[i - 1])
        BY <2>2, <3>2 DEF add
      <4>2. QED
        BY <2>3, <2>4, <3>2, <4>1
    <3>3. QED
      BY <3>1, <3>2
  <2>6. QED
    BY <2>1, <2>5
<1>14. n \in T
  <2>1. n \in 0..n
    BY <1>1
  <2> HIDE DEF T
  <2>2. QED
    BY <1>1, <1>12, <1>13, <2>1, Upto
<1>15. Members(r[n]) = EnabledOf(fields, k)
  BY <1>1, <1>14 DEF EnabledOf
<1>16. QED
  <2>1. n \in 0..n
    BY <1>1
  <2>2. r[n] = EnabledFor(k, fields) /\ r[n] \in C
    BY <1>1, <1>3, <1>11, <2>1 DEF IsRun
  <2>3. QED
    BY <1>15, <2>2 DEF C

\* A sink counts a field exactly if there is one that is enabled for it.
LEMMA CountedFields ==
    ASSUME NEW fields \in Seq(FieldSet), NEW k
    PROVE  NumEnabled(fields, k) \in Nat /\ (NumEnabled(fields, k) = 0 <=> EnabledOf(fields, k) = {})
<1> DEFINE S == {i \in DOMAIN fields : fields[i].enabled[k] = 1}
<1>1. IsFiniteSet(S) /\ NumEnabled(fields, k) \in Nat
  BY NumEnabledType
<1>2. Cardinality(S) = 0 <=> S = {}
  BY <1>1, FS_EmptySet
<1>3. S = {} <=> EnabledOf(fields, k) = {}
  BY DEF EnabledOf
<1>4. QED
  BY <1>1, <1>2, <1>3 DEF NumEnabled

-----------------------------------------------------------------------------
(***************************************************************************)
(* The elements of the line of a meter.                                    *)
(***************************************************************************)

\* What two sequences make together.
LEMMA Concatenated ==
    ASSUME NEW S, NEW a \in Seq(S), NEW b \in Seq(S)
    PROVE  /\ a \o b \in Seq(S)
           /\ Len(a \o b) = Len(a) + Len(b)
           /\ \A i \in 1..Len(a) : (a \o b)[i] = a[i]
           /\ \A j \in 1..Len(b) : (a \o b)[Len(a) + j] = b[j]
<1>1. a \o b \in Seq(S) /\ Len(a \o b) = Len(a) + Len(b) /\ Len(a) \in Nat /\ Len(b) \in Nat
  OBVIOUS
<1>2. \A i \in 1..Len(a) : (a \o b)[i] = a[i]
  OBVIOUS
<1>3. ASSUME NEW j \in 1..Len(b) PROVE (a \o b)[Len(a) + j] = b[j]
  <2>1. Len(a) + j \in 1..(Len(a) + Len(b)) /\ Len(a) + j > Len(a) /\ (Len(a) + j) - Len(a) = j
    BY <1>1
  <2>2. QED
    BY <1>1, <2>1
<1>4. QED
  BY <1>1, <1>2, <1>3

\* The elements AppendLine puts into a buffer.
ElementsOf(head, fields) == head \o FieldElements(fields) \o <<Element(TIMESTAMP, "now")>>

\* They are those of a line, if there is a field.
LEMMA LineElements ==
    ASSUME NEW fields \in Seq(FieldSet), fields # <<>>,
           NEW head \in Seq(Elements), Len(head) \in 1..2, head[1].type = MEAS,
           Len(head) = 2 => head[2].type = TAG
    PROVE  LET es == ElementsOf(head, fields)
           IN  /\ IsLine(es) /\ Len(es) = Len(head) + Len(fields) + 1
               /\ \A i \in 1..Len(head) : es[i] = head[i]
               /\ \A j \in 1..Len(fields) : /\ es[Len(head) + j].type = INTEGER_FIELD
                                            /\ es[Len(head) + j].name = fields[j].name
<1> DEFINE n == Len(fields)
           m == Len(head)
           mid == FieldElements(fields)
           es == ElementsOf(head, fields)
           stamp == Element(TIMESTAMP, "now")
<1>1. /\ n \in Nat /\ n > 0 /\ m \in 1..2 /\ m \in Nat
      /\ DOMAIN fields = 1..n
  OBVIOUS
<1>2. stamp \in Elements /\ stamp.type = TIMESTAMP
  BY DEF Element, Elements, MEAS, TIMESTAMP, Labels
<1>3. ASSUME NEW j \in 1..n
      PROVE  /\ Element(INTEGER_FIELD, fields[j].name) \in Elements
             /\ Element(INTEGER_FIELD, fields[j].name).type = INTEGER_FIELD
             /\ Element(INTEGER_FIELD, fields[j].name).name = fields[j].name
  <2>1. fields[j] \in FieldSet
    BY <1>1
  <2>2. fields[j].name \in Labels
    BY <2>1 DEF FieldSet, Labels
  <2>3. QED
    BY <2>2 DEF Element, Elements, MEAS, TIMESTAMP, INTEGER_FIELD
<1>4. mid \in Seq(Elements) /\ Len(mid) = n /\ \A j \in 1..n : mid[j] = Element(INTEGER_FIELD, fields[j].name)
  BY <1>1, <1>3 DEF FieldElements
<1> HIDE DEF mid, stamp
<1>5. /\ head \o mid \in Seq(Elements) /\ Len(head \o mid) = m + n
      /\ \A i \in 1..m : (head \o mid)[i] = head[i]
      /\ \A j \in 1..n : (head \o mid)[m + j] = mid[j]
  <2>1. head \in Seq(Elements) /\ mid \in Seq(Elements) /\ Len(head) = m /\ Len(mid) = n
    BY <1>1, <1>4
  <2> HIDE DEF m, n
  <2>2. /\ head \o mid \in Seq(Elements) /\ Len(head \o mid) = Len(head) + Len(mid)
        /\ \A i \in 1..Len(head) : (head \o mid)[i] = head[i]
        /\ \A j \in 1..Len(mid) : (head \o mid)[Len(head) + j] = mid[j]
    BY <2>1, Concatenated
  <2>3. QED
    BY <2>1, <2>2
<1>6. es = (head \o mid) \o <<stamp>>
  BY DEF ElementsOf, mid, stamp
<1> DEFINE all == head \o mid
<1> HIDE DEF all, es
<1>7. /\ es \in Seq(Elements) /\ Len(es) = m + n + 1 /\ es[m + n + 1] = stamp
      /\ \A i \in 1..(m + n) : es[i] = all[i]
  <2>1. <<stamp>> \in Seq(Elements) /\ Len(<<stamp>>) = 1 /\ <<stamp>>[1] = stamp /\ 1 \in 1..1
    BY <1>2
  <2>2. all \in Seq(Elements) /\ Len(all) = m + n /\ es = all \o <<stamp>>
    BY <1>5, <1>6 DEF all
  <2>3. /\ es \in Seq(Elements) /\ Len(es) = Len(all) + 1
        /\ \A i \in 1..Len(all) : es[i] = all[i]
        /\ es[Len(all) + 1] = stamp
    <3> DEFINE last == <<stamp>>
    <3>1. last \in Seq(Elements) /\ Len(last) = 1 /\ last[1] = stamp /\ 1 \in 1..Len(last)
      BY <2>1
    <3>2. all \in Seq(Elements) /\ last \in Seq(Elements)
      BY <2>2, <3>1
    <3> HIDE DEF last
    <3>3. /\ all \o last \in Seq(Elements) /\ Len(all \o last) = Len(all) + Len(last)
          /\ \A i \in 1..Len(all) : (all \o last)[i] = all[i]
          /\ \A j \in 1..Len(last) : (all \o last)[Len(all) + j] = last[j]
      BY <3>2, Concatenated
    <3>4. es = all \o last
      BY <2>2 DEF last
    <3>5. QED
      BY <3>1, <3>3, <3>4
  <2>4. QED
    BY <2>2, <2>3
<1>8. \A i \in 1..m : es[i] = head[i]
  BY <1>1, <1>5, <1>7 DEF all
<1>9. ASSUME NEW j \in 1..n
      PROVE  es[m + j].type = INTEGER_FIELD /\ es[m + j].name = fields[j].name
  <2>1. m + j \in 1..(m + n)
    BY <1>1
  <2>2. es[m + j] = Element(INTEGER_FIELD, fields[j].name)
    BY <1>1, <1>4, <1>5, <1>7, <2>1 DEF all
  <2>3. QED
    BY <1>3, <2>2
<1>10. ASSUME NEW i \in 2..Len(es) PROVE MayFollow(es[i - 1].type, es[i].type)
  <2>1. CASE i = 2 /\ m = 2
    BY <1>1, <1>8, <2>1 DEF MayFollow
  <2>2. CASE i = m + 1
    <3>1. es[i].type = INTEGER_FIELD
      BY <1>1, <1>9, <2>2, 1 \in 1..n
    <3>2. es[i - 1].type \in {MEAS, TAG}
      BY <1>1, <1>8, <2>2
    <3>3. QED
      BY <3>1, <3>2 DEF MayFollow, MEAS, TAG, STRING_FIELD, INTEGER_FIELD, BOOLEAN_FIELD
  <2>3. ASSUME i > m + 1, i < m + n + 1 PROVE MayFollow(es[i - 1].type, es[i].type)
    <3>1. i - m \in 1..n /\ i - m - 1 \in 1..n /\ m + (i - m) = i /\ m + (i - m - 1) = i - 1
      BY <1>1, <2>3
    <3>2. es[i].type = INTEGER_FIELD /\ es[i - 1].type = INTEGER_FIELD
      BY <1>9, <3>1
    <3>3. QED
      BY <3>2 DEF MayFollow, MEAS, TAG, STRING_FIELD, INTEGER_FIELD, BOOLEAN_FIELD
  <2>4. CASE i = m + n + 1
    <3>1. n \in 1..n /\ i - 1 = m + n
      BY <1>1, <2>4
    <3>2. es[i - 1].type = INTEGER_FIELD /\ es[i].type = TIMESTAMP
      BY <1>2, <1>7, <1>9, <2>4, <3>1
    <3>3. QED
      BY <3>2 DEF MayFollow, STRING_FIELD, INTEGER_FIELD, BOOLEAN_FIELD
  <2>5. QED
    <3>1. i \in 2..(m + n + 1)
      BY <1>7
    <3>2. \/ i = 2 /\ m = 2
          \/ i = m + 1
          \/ i > m + 1 /\ i < m + n + 1
          \/ i = m + n + 1
      <4> HIDE DEF m, n
      <4>1. QED
        BY <1>1, <3>1
    <3>3. QED
      BY <2>1, <2>2, <2>3, <2>4, <3>2
<1>11. es[1].type = MEAS /\ es[Len(es)].type = TIMESTAMP /\ Len(es) > 0
  BY <1>1, <1>2, <1>7, <1>8
<1>12. IsLine(es)
  BY <1>7, <1>10, <1>11 DEF IsLine
<1>13. QED
  BY <1>7, <1>8, <1>9, <1>12 DEF es

\* The enabled fields of two sequences one after the other.
LEMMA EnabledConcat ==
    ASSUME NEW a \in Seq(FieldSet), NEW b \in Seq(FieldSet), NEW k
    PROVE  EnabledOf(a \o b, k) = EnabledOf(a, k) \cup EnabledOf(b, k)
<1> DEFINE n == Len(a)
           m == Len(b)
           ab == a \o b
<1>1. /\ n \in Nat /\ m \in Nat /\ DOMAIN a = 1..n /\ DOMAIN b = 1..m
      /\ DOMAIN ab = 1..(n + m)
  BY Concatenated
<1>2. (\A i \in 1..n : ab[i] = a[i]) /\ \A j \in 1..m : ab[n + j] = b[j]
  BY Concatenated
<1> HIDE DEF n, m, ab
<1>3. \A x \in EnabledOf(ab, k) : x \in EnabledOf(a, k) \cup EnabledOf(b, k)
  <2> SUFFICES ASSUME NEW i \in 1..(n + m), ab[i].enabled[k] = 1
               PROVE  ab[i] \in EnabledOf(a, k) \cup EnabledOf(b, k)
    BY <1>1 DEF EnabledOf
  <2>1. CASE i \in 1..n
    BY <1>1, <1>2, <2>1 DEF EnabledOf
  <2>2. CASE i \notin 1..n
    <3>1. i - n \in 1..m /\ n + (i - n) = i
      BY <1>1, <2>2
    <3>2. ab[i] = b[i - n]
      BY <1>2, <3>1
    <3>3. QED
      BY <1>1, <3>1, <3>2 DEF EnabledOf
  <2>3. QED
    BY <2>1, <2>2
<1>4. \A x \in EnabledOf(a, k) : x \in EnabledOf(ab, k)
  <2>1. \A i \in 1..n : i \in 1..(n + m)
    BY <1>1
  <2>2. QED
    BY <1>1, <1>2, <2>1 DEF EnabledOf
<1>5. \A x \in EnabledOf(b, k) : x \in EnabledOf(ab, k)
  <2>1. \A i \in 1..m : n + i \in 1..(n + m)
    BY <1>1
  <2>2. QED
    BY <1>1, <1>2, <2>1, ZenonT(30) DEF EnabledOf
<1>6. QED
  BY <1>3, <1>4, <1>5 DEF ab

\* What a round knows of a meter.
Reportable(m) ==
    /\ m.name \in (MeterNames \cup {NoName}) \X Nat
    /\ m.registers \in Seq(FieldSet) /\ m.formulas \in Seq(FieldSet)
    /\ \A k \in Sinks : m.numEnabled[k] = NumEnabled(m.registers, k) + NumEnabled(m.formulas, k)

\* The counter of a meter says whether it has a field that is enabled.
LEMMA CounterSays ==
    ASSUME NEW m, Reportable(m), NEW k \in Sinks
    PROVE  m.numEnabled[k] = 0 <=> EnabledOf(m.registers \o m.formulas, k) = {}
<1>1. m.registers \in Seq(FieldSet) /\ m.formulas \in Seq(FieldSet)
  BY DEF Reportable
<1>2. EnabledOf(m.registers \o m.formulas, k) = EnabledOf(m.registers, k) \cup EnabledOf(m.formulas, k)
  BY <1>1, EnabledConcat
<1>3. /\ NumEnabled(m.registers, k) \in Nat /\ NumEnabled(m.formulas, k) \in Nat
      /\ NumEnabled(m.registers, k) = 0 <=> EnabledOf(m.registers, k) = {}
      /\ NumEnabled(m.formulas, k) = 0 <=> EnabledOf(m.formulas, k) = {}
  BY <1>1, CountedFields
<1>4. m.numEnabled[k] = NumEnabled(m.registers, k) + NumEnabled(m.formulas, k)
  BY DEF Reportable
<1>5. QED
  BY <1>2, <1>3, <1>4

\* The first elements of a line.
LEMMA LineHeads ==
    ASSUME NEW x \in Labels, NEW y \in Labels
    PROVE  /\ <<Element(MEAS, x)>> \in Seq(Elements) /\ Len(<<Element(MEAS, x)>>) = 1
           /\ <<Element(MEAS, x)>>[1].type = MEAS /\ <<Element(MEAS, x)>>[1].name = x
           /\ <<Element(MEAS, x), Element(TAG, y)>> \in Seq(Elements)
           /\ Len(<<Element(MEAS, x), Element(TAG, y)>>) = 2
           /\ <<Element(MEAS, x), Element(TAG, y)>>[1].type = MEAS
           /\ <<Element(MEAS, x), Element(TAG, y)>>[2].type = TAG
<1>1. /\ Element(MEAS, x) \in Elements /\ Element(MEAS, x).type = MEAS /\ Element(MEAS, x).name = x
      /\ Element(TAG, y) \in Elements /\ Element(TAG, y).type = TAG
  BY DEF Element, Elements, MEAS, TAG, TIMESTAMP
<1>2. QED
  BY <1>1

\* influxAppendData appends a line or nothing.
LEMMA InfluxAppended ==
    ASSUME NEW c, CompleteLines(c), NEW m, Reportable(m)
    PROVE  CompleteLines(influxAppendData(c, m))
<1>1. CASE NothingToWrite("influx", m)
  BY <1>1 DEF influxAppendData
<1>2. CASE ~NothingToWrite("influx", m)
  <2> DEFINE chosen == EnabledFor("influx", m.registers)
             fields == chosen \o m.formulas
             head == <<Element(MEAS, "measurement"), Element(TAG, m.name)>>
  <2>1. m.registers \in Seq(FieldSet) /\ m.formulas \in Seq(FieldSet)
    BY DEF Reportable
  <2>2. "measurement" \in Labels /\ m.name \in Labels
    BY DEF Labels, Reportable
  <2>3. chosen \in Seq(FieldSet) /\ Members(chosen) = EnabledOf(m.registers, "influx")
    BY <2>1, EnabledForFields
  <2>4. "influx" \in Sinks
    OBVIOUS
  <2>5. EnabledOf(m.registers \o m.formulas, "influx") # {}
    BY <1>2, <2>4, CounterSays DEF NothingToWrite
  <2>6. Len(chosen) > 0 \/ Len(m.formulas) > 0
    <3>1. EnabledOf(m.registers, "influx") # {} \/ EnabledOf(m.formulas, "influx") # {}
      BY <2>1, <2>5, EnabledConcat
    <3>2. CASE EnabledOf(m.registers, "influx") # {}
      BY <2>3, <3>2 DEF Members
    <3>3. CASE EnabledOf(m.formulas, "influx") # {}
      BY <2>1, <3>3 DEF EnabledOf
    <3>4. QED
      BY <3>1, <3>2, <3>3
  <2> HIDE DEF chosen
  <2>7. fields \in Seq(FieldSet) /\ fields # <<>>
    <3>1. fields \in Seq(FieldSet) /\ Len(fields) = Len(chosen) + Len(m.formulas)
      BY <2>1, <2>3, Concatenated
    <3>2. Len(chosen) \in Nat /\ Len(m.formulas) \in Nat
      BY <2>1, <2>3
    <3>3. Len(fields) # 0
      BY <2>6, <3>1, <3>2
    <3>4. QED
      BY <3>1, <3>3
  <2>8. /\ head \in Seq(Elements) /\ Len(head) = 2
        /\ head[1].type = MEAS /\ head[2].type = TAG
    BY <2>2, LineHeads
  <2>9. influxAppendData(c, m) = FoldLeft(format_line, c, ElementsOf(head, fields))
    BY <1>2 DEF influxAppendData, AppendLine, ElementsOf, chosen
  <2> HIDE DEF fields, head
  <2>10. IsLine(ElementsOf(head, fields))
    BY <2>7, <2>8, LineElements
  <2>11. QED
    BY <2>9, <2>10, LineAppended
<1>3. QED
  BY <1>1, <1>2

-----------------------------------------------------------------------------
(***************************************************************************)
(* The line of a meter in the buffer of the Grafana client.                *)
(***************************************************************************)

\* The names of fields, and those of the fields of a line.
NamesOf(fields) == {f.name : f \in fields}
FieldNames(es) == {es[j].name : j \in {j \in DOMAIN es : IsField(es[j])}}

\* The line of a meter has its name, and its fields are those that are enabled.
LineOfMeter(es, m) ==
    /\ IsLine(es) /\ es[1].name = m.name
    /\ \A j \in 2..Len(es) : es[j].type # MEAS
    /\ FieldNames(es) = NamesOf(EnabledOf(m.registers \o m.formulas, "grafana"))

\* grafanaAppendData appends nothing or the line of the meter.
LEMMA GrafanaAppended ==
    ASSUME NEW c, CompleteLines(c), NEW m, Reportable(m)
    PROVE  LET d == grafanaAppendData(c, m)
           IN  /\ CompleteLines(d)
               /\ NothingToWrite("grafana", m) => d = c
               /\ ~NothingToWrite("grafana", m) => \E es : LineOfMeter(es, m) /\ Extends(d, c, es)
<1>1. CASE NothingToWrite("grafana", m)
  BY <1>1 DEF grafanaAppendData
<1>2. CASE ~NothingToWrite("grafana", m)
  <2> DEFINE both == m.registers \o m.formulas
             fields == EnabledFor("grafana", both)
             head == <<Element(MEAS, m.name)>>
             es == ElementsOf(head, fields)
             n == Len(fields)
  <2>1. both \in Seq(FieldSet)
    BY Concatenated DEF Reportable
  <2>2. m.name \in Labels
    BY DEF Labels, Reportable
  <2>3. fields \in Seq(FieldSet) /\ Members(fields) = EnabledOf(both, "grafana")
    BY <2>1, EnabledForFields
  <2>4. EnabledOf(both, "grafana") # {}
    BY <1>2, CounterSays DEF NothingToWrite
  <2>5. grafanaAppendData(c, m) = FoldLeft(format_line, c, es)
    BY <1>2 DEF grafanaAppendData, AppendLine, ElementsOf
  <2>6. head \in Seq(Elements) /\ Len(head) = 1 /\ head[1].type = MEAS /\ head[1].name = m.name
    BY <2>2, LineHeads
  <2> HIDE DEF both, fields, head
  <2>7. fields # <<>>
    BY <2>3, <2>4 DEF Members
  <2>8. /\ IsLine(es) /\ Len(es) = 1 + n + 1
        /\ \A i \in 1..1 : es[i] = head[i]
        /\ \A j \in 1..n : es[1 + j].type = INTEGER_FIELD /\ es[1 + j].name = fields[j].name
    <3>1. Len(head) \in 1..2 /\ Len(head) # 2
      BY <2>6
    <3>2. /\ IsLine(es) /\ Len(es) = Len(head) + n + 1
          /\ \A i \in 1..Len(head) : es[i] = head[i]
          /\ \A j \in 1..n : /\ es[Len(head) + j].type = INTEGER_FIELD
                             /\ es[Len(head) + j].name = fields[j].name
      BY <2>3, <2>6, <2>7, <3>1, LineElements
    <3>3. QED
      BY <2>6, <3>2
  <2>9. n \in Nat /\ DOMAIN fields = 1..n /\ es \in Seq(Elements) /\ es[n + 2].type = TIMESTAMP
        /\ DOMAIN es = 1..(n + 2)
    BY <2>3, <2>8 DEF IsLine
  <2> HIDE DEF es, n
  <2>10. es[1].type = MEAS /\ es[1].name = m.name
    BY <2>6, <2>8
  <2>11. ASSUME NEW j \in 2..(n + 2)
         PROVE  \/ /\ j - 1 \in 1..n /\ es[j].type = INTEGER_FIELD
                   /\ es[j].name = fields[j - 1].name
                \/ j = n + 2 /\ es[j].type = TIMESTAMP
    <3>1. CASE j = n + 2
      BY <2>9, <3>1
    <3>2. CASE j # n + 2
      <4>1. j - 1 \in 1..n /\ 1 + (j - 1) = j
        BY <2>9, <3>2
      <4>2. QED
        BY <2>8, <4>1
    <3>3. QED
      BY <3>1, <3>2
  <2>12. \A j \in 2..Len(es) : es[j].type # MEAS
    BY <2>8, <2>9, <2>11 DEF MEAS, INTEGER_FIELD, TIMESTAMP
  <2>13. FieldNames(es) = NamesOf(Members(fields))
    <3>1. ASSUME NEW j \in DOMAIN es, IsField(es[j]) PROVE es[j].name \in NamesOf(Members(fields))
      <4>1. j \in 1..(n + 2) /\ j # 1
        BY <2>9, <2>10, <3>1 DEF IsField, MEAS, STRING_FIELD, BOOLEAN_FIELD
      <4>2. j \in 2..(n + 2) /\ es[j].type # TIMESTAMP
        BY <2>9, <3>1, <4>1 DEF IsField, TIMESTAMP, STRING_FIELD, BOOLEAN_FIELD
      <4>3. j - 1 \in 1..n /\ es[j].name = fields[j - 1].name
        BY <2>11, <4>2
      <4>4. QED
        BY <2>9, <4>3 DEF NamesOf, Members
    <3>2. ASSUME NEW i \in 1..n PROVE fields[i].name \in FieldNames(es)
      <4>1. 1 + i \in 1..(n + 2)
        BY <2>9
      <4>2. IsField(es[1 + i])
        BY <2>8 DEF IsField, INTEGER_FIELD, STRING_FIELD, BOOLEAN_FIELD, n
      <4>3. QED
        BY <2>8, <2>9, <4>1, <4>2 DEF FieldNames
    <3>3. QED
      BY <2>9, <3>1, <3>2, SMTT(30) DEF FieldNames, NamesOf, Members
  <2>14. LineOfMeter(es, m)
    BY <2>3, <2>8, <2>10, <2>12, <2>13 DEF LineOfMeter, both
  <2>15. CompleteLines(FoldLeft(format_line, c, es)) /\ Extends(FoldLeft(format_line, c, es), c, es)
    BY <2>8, LineAppended
  <2>16. QED
    BY <1>2, <2>5, <2>14, <2>15
<1>3. QED
  BY <1>1, <1>2

\* The positions of the line that begins with x, and its fields.
LinesOf(text, x) == {e \in DOMAIN text :
                       \E b \in 1..e : /\ text[b].type = MEAS /\ text[b].name = x
                                       /\ \A j \in (b + 1)..e : text[j].type # MEAS}
FieldsIn(text, x) == {text[e].name : e \in {e \in LinesOf(text, x) : IsField(text[e])}}

\* Without a beginning there is no line.
LEMMA NoLine ==
    ASSUME NEW S, NEW text \in Seq(S), NEW x,
           \A e \in DOMAIN text : text[e].type = MEAS => text[e].name # x
    PROVE  FieldsIn(text, x) = {}
<1>1. DOMAIN text = 1..Len(text) /\ Len(text) \in Nat
  OBVIOUS
<1>2. \A e \in DOMAIN text : \A b \in 1..e : b \in DOMAIN text
  BY <1>1
<1>3. LinesOf(text, x) = {}
  BY <1>2 DEF LinesOf
<1>4. QED
  BY <1>3 DEF FieldsIn

\* A line more adds its fields to those under its name, and to no other.
LEMMA LinesExtended ==
    ASSUME NEW c, NEW d, CompleteLines(c), CompleteLines(d), NEW es, NEW m, LineOfMeter(es, m),
           Extends(d, c, es), NEW x
    PROVE  FieldsIn(d.text, x) = IF x = m.name THEN FieldsIn(c.text, x) \cup FieldNames(es)
                                 ELSE FieldsIn(c.text, x)
<1> DEFINE p == Len(c.text)
           q == Len(es)
<1>1. /\ p \in Nat /\ q \in Nat /\ q > 0
      /\ DOMAIN c.text = 1..p /\ DOMAIN d.text = 1..(p + q) /\ DOMAIN es = 1..q
  <2>1. c.text \in Seq(Written) /\ d.text \in Seq(Written) /\ es \in Seq(Elements) /\ q > 0
    BY DEF CompleteLines, Legal, Buffers, LineOfMeter, IsLine
  <2>2. Len(d.text) = p + q
    BY DEF Extends
  <2>3. QED
    BY <2>1, <2>2
<1>2. /\ \A i \in 1..p : d.text[i] = c.text[i]
      /\ \A j \in 1..q : d.text[p + j].type = es[j].type /\ d.text[p + j].name = es[j].name
      /\ es[1].type = MEAS /\ es[1].name = m.name
      /\ \A j \in 2..q : es[j].type # MEAS
  BY DEF Extends, LineOfMeter, IsLine
<1> HIDE DEF p, q
<1>3. \A e \in 1..p : e \in 1..(p + q)
  BY <1>1
<1>4. \A e \in 1..p : e \in LinesOf(d.text, x) <=> e \in LinesOf(c.text, x)
  <2> SUFFICES ASSUME NEW e \in 1..p PROVE e \in LinesOf(d.text, x) <=> e \in LinesOf(c.text, x)
    OBVIOUS
  <2> DEFINE Begins(text, b) == /\ text[b].type = MEAS /\ text[b].name = x
                               /\ \A j \in (b + 1)..e : text[j].type # MEAS
  <2>1. ASSUME NEW b \in 1..e PROVE Begins(d.text, b) <=> Begins(c.text, b)
    <3>1. b \in 1..p
      BY <1>1
    <3>2. \A j \in (b + 1)..e : j \in 1..p
      BY <1>1
    <3>3. d.text[b] = c.text[b] /\ \A j \in (b + 1)..e : d.text[j] = c.text[j]
      BY <1>2, <3>1, <3>2
    <3>4. QED
      BY <3>3
  <2>2. (e \in LinesOf(d.text, x)) <=> \E b \in 1..e : Begins(d.text, b)
    BY <1>1, <1>3 DEF LinesOf
  <2>3. (e \in LinesOf(c.text, x)) <=> \E b \in 1..e : Begins(c.text, b)
    BY <1>1 DEF LinesOf
  <2> HIDE DEF Begins
  <2>4. QED
    BY <2>1, <2>2, <2>3
<1>5. \A j \in 1..q : p + j \in LinesOf(d.text, x) <=> x = m.name
  <2> SUFFICES ASSUME NEW j \in 1..q PROVE p + j \in LinesOf(d.text, x) <=> x = m.name
    OBVIOUS
  <2>1. p + j \in 1..(p + q) /\ p + 1 \in 1..(p + j)
    BY <1>1
  <2>2. d.text[p + 1].type = MEAS /\ d.text[p + 1].name = m.name
    BY <1>1, <1>2, 1 \in 1..q
  <2>3. \A i \in (p + 2)..(p + j) : d.text[i].type # MEAS
    <3> SUFFICES ASSUME NEW i \in (p + 2)..(p + j) PROVE d.text[i].type # MEAS
      OBVIOUS
    <3>1. i - p \in 1..q /\ i - p \in 2..q /\ p + (i - p) = i
      BY <1>1
    <3>2. QED
      BY <1>2, <3>1
  <2>4. ASSUME x = m.name PROVE p + j \in LinesOf(d.text, x)
    <3>1. (p + 1) + 1 = p + 2
      BY <1>1
    <3>2. QED
      BY <1>1, <2>1, <2>2, <2>3, <2>4, <3>1 DEF LinesOf
  <2>5. ASSUME p + j \in LinesOf(d.text, x) PROVE x = m.name
    <3>1. PICK b \in 1..(p + j) : /\ d.text[b].type = MEAS /\ d.text[b].name = x
                                  /\ \A i \in (b + 1)..(p + j) : d.text[i].type # MEAS
      BY <2>5 DEF LinesOf
    <3>2. CASE b < p + 1
      <4>1. p + 1 \in (b + 1)..(p + j)
        BY <1>1, <3>2
      <4>2. QED
        BY <2>2, <3>1, <4>1
    <3>3. CASE b = p + 1
      BY <2>2, <3>1, <3>3
    <3>4. CASE b > p + 1
      <4>1. b \in (p + 2)..(p + j)
        BY <1>1, <3>4
      <4>2. QED
        BY <2>3, <3>1, <4>1
    <3>5. QED
      BY <1>1, <3>2, <3>3, <3>4
  <2>6. QED
    BY <2>4, <2>5
<1>6. \A e \in 1..(p + q) : e \in 1..p \/ (e - p \in 1..q /\ e = p + (e - p))
  BY <1>1
<1>7. \A j \in 1..q : p + j \in 1..(p + q)
  BY <1>1
<1>8. \A j \in 1..q : IsField(d.text[p + j]) <=> IsField(es[j])
  BY <1>2 DEF IsField
<1>9. \A y \in FieldsIn(d.text, x) :
         (y \in FieldsIn(c.text, x)) \/ (x = m.name /\ y \in FieldNames(es))
  <2> SUFFICES ASSUME NEW e \in LinesOf(d.text, x), IsField(d.text[e])
               PROVE  \/ d.text[e].name \in FieldsIn(c.text, x)
                      \/ x = m.name /\ d.text[e].name \in FieldNames(es)
    BY DEF FieldsIn
  <2>1. e \in 1..(p + q)
    BY <1>1 DEF LinesOf
  <2>2. CASE e \in 1..p
    BY <1>2, <1>4, <2>2 DEF FieldsIn
  <2>3. CASE e - p \in 1..q /\ e = p + (e - p)
    <3>1. x = m.name /\ IsField(es[e - p]) /\ d.text[e].name = es[e - p].name
      BY <1>2, <1>5, <1>8, <2>3
    <3>2. QED
      BY <1>1, <2>3, <3>1 DEF FieldNames
  <2>4. QED
    BY <1>6, <2>1, <2>2, <2>3
<1>10. \A y \in FieldsIn(c.text, x) : y \in FieldsIn(d.text, x)
  <2> SUFFICES ASSUME NEW e \in LinesOf(c.text, x), IsField(c.text[e])
               PROVE  c.text[e].name \in FieldsIn(d.text, x)
    BY DEF FieldsIn
  <2>1. e \in 1..p
    BY <1>1 DEF LinesOf
  <2>2. QED
    BY <1>2, <1>4, <2>1 DEF FieldsIn
<1>11. \A y \in FieldNames(es) : x = m.name => y \in FieldsIn(d.text, x)
  <2> SUFFICES ASSUME NEW j \in 1..q, IsField(es[j]), x = m.name
               PROVE  es[j].name \in FieldsIn(d.text, x)
    BY <1>1 DEF FieldNames
  <2>1. p + j \in LinesOf(d.text, x) /\ IsField(d.text[p + j]) /\ d.text[p + j].name = es[j].name
    BY <1>2, <1>5, <1>8
  <2>2. QED
    BY <2>1 DEF FieldsIn
<1>12. QED
  BY <1>9, <1>10, <1>11

-----------------------------------------------------------------------------
(***************************************************************************)
(* A round: what the buffers hold of the meters.                           *)
(***************************************************************************)

\* The buffers that hold complete lines.
CompleteBuffers == {c \in Buffers : CompleteLines(c)}

\* What a round knows of a meter that was stored.
LEMMA StoredReportable ==
    ASSUME IInv, NEW i \in DOMAIN meters
    PROVE  /\ Reportable(Reporting(i))
           /\ Reporting(i).name = <<meters[i].name, i>>
           /\ Reporting(i).disabled = meters[i].disabled
           /\ Reporting(i).registers \o Reporting(i).formulas = Fields(i)
           /\ Fields(i) \in Seq(FieldSet)
<1>1. /\ meterTypes \in Seq(StoredTypeSet) /\ meters \in Seq(MeterSet)
      /\ meters[i].type \in 0..Len(meterTypes) /\ Counted(meters[i])
  BY DEF IInv, TypeOK, Stored
<1>2. meters[i] \in MeterSet /\ i \in Nat
  BY <1>1
<1>3. meters[i].name \in MeterNames \cup {NoName} /\ meters[i].formulas \in Seq(FieldSet)
  BY <1>2 DEF MeterSet
<1>4. registers(meters[i]) \in Seq(FieldSet)
  BY <1>1, RegistersType
<1>5. /\ Reporting(i).name = <<meters[i].name, i>>
      /\ Reporting(i).disabled = meters[i].disabled
      /\ Reporting(i).registers = registers(meters[i])
      /\ Reporting(i).formulas = meters[i].formulas
      /\ Reporting(i).numEnabled = meters[i].numEnabled
  BY DEF Reporting
<1>6. Reportable(Reporting(i))
  BY <1>1, <1>2, <1>3, <1>4, <1>5 DEF Reportable, Counted
<1>7. registers(meters[i]) \o meters[i].formulas \in Seq(FieldSet)
  BY <1>3, <1>4, Concatenated
<1>8. QED
  BY <1>5, <1>6, <1>7 DEF Fields

\* The empty buffer holds no incomplete line.
LEMMA EmptyComplete == EmptyBuffer \in CompleteBuffers
<1>1. /\ EmptyBuffer.text = <<>> /\ <<>> \in Seq(Written) /\ EmptyBuffer.failed = FALSE
      /\ EmptyBuffer \in Buffers
  BY DEF EmptyBuffer, Buffers, TIMESTAMP
<1>2. QED
  BY <1>1 DEF CompleteBuffers, CompleteLines, Legal

\* After the round the buffer of the InfluxDB client holds complete lines.
LEMMA InfluxRound ==
    ASSUME IInv, NEW S0, Round(S0)
    PROVE  CompleteLines(influxBuf')
<1> DEFINE n == Len(meters)
           C == CompleteBuffers
           idx == [i \in DOMAIN meters |-> i]
           add(c, i) == IF i \in S0 THEN influxAppendData(c, Reporting(i)) ELSE c
           h == [i \in 1..n |-> [c \in C |-> add(c, i)]]
           F(f) == [S \in SUBSET DOMAIN idx |->
                      IF S = {} THEN EmptyBuffer ELSE add(f[S \ {Max(S)}], idx[Max(S)])]
           it == CHOOSE f : f = F(f)
<1>1. n \in Nat /\ DOMAIN meters = 1..n /\ DOMAIN idx = 1..n /\ \A i \in 1..n : idx[i] = i
  BY DEF IInv, TypeOK
<1>2. \A c \in C, i \in 1..n : add(c, i) \in C
  BY <1>1, StoredReportable, InfluxAppended DEF CompleteBuffers, CompleteLines, Legal
<1>3. influxBuf' = it[DOMAIN idx]
  BY DEF Round, FoldLeftDomain, FoldLeft, MapThenFoldSet
<1> HIDE DEF add
<1>4. h \in [1..n -> [C -> C]]
  BY <1>1, <1>2
<1>5. \A S \in SUBSET (1..n) :
         S # {} => Max(S) \in 1..n /\ \A c \in C : h[Max(S)][c] = add(c, idx[Max(S)])
  BY <1>1, MaxUpto
<1>6. EmptyBuffer \in C
  BY EmptyComplete
<1> HIDE DEF h, n, C, idx
<1>7. PICK g : IsFold(g, C, n, EmptyBuffer, h)
  BY <1>1, <1>4, <1>6, FoldExists
<1>8. g = F(g)
  BY <1>1, <1>5, <1>7 DEF IsFold
<1> HIDE DEF F
<1>9. it = F(it)
  BY <1>8
<1> HIDE DEF it
<1>10. Folds(it, C, n, EmptyBuffer, h)
  <2>1. \A S \in SUBSET (1..n) :
           it[S] = IF S = {} THEN EmptyBuffer ELSE add(it[S \ {Max(S)}], idx[Max(S)])
    BY <1>1, <1>9 DEF F
  <2>2. QED
    BY <1>5, <2>1 DEF Folds
<1>11. PICK r : IsRun(r, C, n, EmptyBuffer, h) /\ r[n] = it[1..n]
  BY <1>1, <1>4, <1>6, <1>10, FoldRun
<1>12. r[n] \in C
  BY <1>1, <1>11, n \in 0..n DEF IsRun
<1>13. QED
  BY <1>1, <1>3, <1>11, <1>12 DEF C, CompleteBuffers

\* The buffer of the Grafana client in the course of a round: what it got of a meter.
LEMMA GrafanaRun ==
    ASSUME IInv, NEW S0, Round(S0)
    PROVE  \E r \in [0..Len(meters) -> CompleteBuffers] :
              /\ r[0] = EmptyBuffer
              /\ \A i \in 1..Len(meters) : r[i] = grafanaAppendData(r[i - 1], Reporting(i))
              /\ r[Len(meters)] = grafanaBuf'
<1> DEFINE n == Len(meters)
           C == CompleteBuffers
           idx == [i \in DOMAIN meters |-> i]
           add(c, i) == grafanaAppendData(c, Reporting(i))
           h == [i \in 1..n |-> [c \in C |-> add(c, i)]]
           F(f) == [S \in SUBSET DOMAIN idx |->
                      IF S = {} THEN EmptyBuffer ELSE add(f[S \ {Max(S)}], idx[Max(S)])]
           it == CHOOSE f : f = F(f)
<1>1. n \in Nat /\ DOMAIN meters = 1..n /\ DOMAIN idx = 1..n /\ \A i \in 1..n : idx[i] = i
  BY DEF IInv, TypeOK
<1>2. \A c \in C, i \in 1..n : add(c, i) \in C
  BY <1>1, StoredReportable, GrafanaAppended DEF CompleteBuffers, CompleteLines, Legal
<1>3. grafanaBuf' = it[DOMAIN idx]
  BY DEF Round, FoldLeftDomain, FoldLeft, MapThenFoldSet
<1> HIDE DEF add
<1>4. h \in [1..n -> [C -> C]]
  BY <1>1, <1>2
<1>5. \A S \in SUBSET (1..n) :
         S # {} => Max(S) \in 1..n /\ \A c \in C : h[Max(S)][c] = add(c, idx[Max(S)])
  BY <1>1, MaxUpto
<1>6. EmptyBuffer \in C
  BY EmptyComplete
<1> HIDE DEF h, n, C, idx
<1>7. PICK g : IsFold(g, C, n, EmptyBuffer, h)
  BY <1>1, <1>4, <1>6, FoldExists
<1>8. g = F(g)
  BY <1>1, <1>5, <1>7 DEF IsFold
<1> HIDE DEF F
<1>9. it = F(it)
  BY <1>8
<1> HIDE DEF it
<1>10. Folds(it, C, n, EmptyBuffer, h)
  <2>1. \A S \in SUBSET (1..n) :
           it[S] = IF S = {} THEN EmptyBuffer ELSE add(it[S \ {Max(S)}], idx[Max(S)])
    BY <1>1, <1>9 DEF F
  <2>2. QED
    BY <1>5, <2>1 DEF Folds
<1>11. PICK r : IsRun(r, C, n, EmptyBuffer, h) /\ r[n] = it[1..n]
  BY <1>1, <1>4, <1>6, <1>10, FoldRun
<1>12. ASSUME NEW i \in 1..n PROVE r[i] = grafanaAppendData(r[i - 1], Reporting(i))
  <2>1. i - 1 \in 0..n
    BY <1>1
  <2>2. r[i] = add(r[i - 1], i)
    BY <1>11, <2>1 DEF IsRun, h
  <2>3. QED
    BY <2>2 DEF add
<1>13. QED
  BY <1>1, <1>3, <1>11, <1>12 DEF C, IsRun, n

\* After the round the buffer of the Grafana client holds complete lines, and of
\* an enabled meter the fields that are enabled.
LEMMA GrafanaRound ==
    ASSUME IInv, NEW S0, Round(S0)
    PROVE  /\ CompleteLines(grafanaBuf')
           /\ \A i \in DOMAIN meters :
                 ~meters[i].disabled => FieldsIn(grafanaBuf'.text, Reporting(i).name)
                                          = NamesOf(EnabledOf(Fields(i), "grafana"))
<1> DEFINE n == Len(meters)
<1>1. n \in Nat /\ DOMAIN meters = 1..n
  BY DEF IInv, TypeOK
<1>2. PICK r \in [0..n -> CompleteBuffers] :
              /\ r[0] = EmptyBuffer
              /\ \A i \in 1..n : r[i] = grafanaAppendData(r[i - 1], Reporting(i))
              /\ r[n] = grafanaBuf'
  BY GrafanaRun
<1> HIDE DEF n
<1>3. \A k \in 0..n : CompleteLines(r[k]) /\ r[k].text \in Seq(Written)
  BY <1>2 DEF CompleteBuffers, Buffers
<1> DEFINE Named(k) == \A e \in DOMAIN r[k].text :
                          r[k].text[e].type = MEAS =>
                            \E i \in 1..k : r[k].text[e].name = Reporting(i).name
           Sent(k) == \A i \in 1..k :
                         ~meters[i].disabled => FieldsIn(r[k].text, Reporting(i).name)
                                                  = NamesOf(EnabledOf(Fields(i), "grafana"))
           T == {k \in 0..n : Named(k) /\ Sent(k)}
<1>4. 0 \in T
  <2>1. r[0].text = <<>> /\ DOMAIN <<>> = {} /\ 1..0 = {} /\ 0 \in 0..n
    BY <1>1, <1>2 DEF EmptyBuffer
  <2>2. QED
    BY <2>1
<1>5. ASSUME NEW k \in 1..n, Named(k - 1), Sent(k - 1) PROVE Named(k) /\ Sent(k)
  <2> DEFINE m == Reporting(k)
             c == r[k - 1]
             d == r[k]
  <2>1. k - 1 \in 0..n /\ k \in 0..n /\ k \in Nat /\ k \in DOMAIN meters
    BY <1>1
  <2>2. /\ CompleteLines(c) /\ CompleteLines(d) /\ c.text \in Seq(Written) /\ d.text \in Seq(Written)
        /\ d = grafanaAppendData(c, m)
    BY <1>2, <1>3, <2>1
  <2>3. /\ Reportable(m) /\ m.name = <<meters[k].name, k>> /\ m.disabled = meters[k].disabled
        /\ m.registers \o m.formulas = Fields(k)
    BY <2>1, StoredReportable
  <2>4. \A i \in 1..(k - 1) : /\ i \in DOMAIN meters
                              /\ Reporting(i).name = <<meters[i].name, i>>
                              /\ Reporting(i).name # m.name
    <3> SUFFICES ASSUME NEW i \in 1..(k - 1)
                 PROVE  /\ i \in DOMAIN meters
                        /\ Reporting(i).name = <<meters[i].name, i>>
                        /\ Reporting(i).name # m.name
      OBVIOUS
    <3>1. i \in DOMAIN meters /\ i # k
      BY <1>1
    <3>2. Reporting(i).name = <<meters[i].name, i>>
      BY <3>1, StoredReportable
    <3>3. QED
      BY <2>3, <3>1, <3>2
  <2>5. FieldsIn(c.text, m.name) = {}
    <3>1. \A e \in DOMAIN c.text : c.text[e].type = MEAS => c.text[e].name # m.name
      BY <1>5, <2>4
    <3>2. QED
      BY <2>2, <3>1, NoLine
  <2>6. \A i \in 1..k : i \in 1..(k - 1) \/ i = k
    BY <2>1
  <2>7. \A i \in 1..(k - 1) : i \in 1..k
    BY <2>1
  <2>8. k \in 1..k
    BY <2>1
  <2>9. CASE NothingToWrite("grafana", m)
    <3>1. d = c
      BY <2>2, <2>3, <2>9, GrafanaAppended
    <3>2. Named(k)
      BY <1>5, <2>7, <3>1
    <3>3. ~meters[k].disabled => NamesOf(EnabledOf(Fields(k), "grafana")) = {}
      <4>1. ~meters[k].disabled => m.numEnabled["grafana"] = 0
        BY <2>3, <2>9 DEF NothingToWrite
      <4>2. m.numEnabled["grafana"] = 0 => EnabledOf(Fields(k), "grafana") = {}
        BY <2>3, CounterSays
      <4>3. QED
        BY <4>1, <4>2 DEF NamesOf
    <3>4. Sent(k)
      BY <1>5, <2>5, <2>6, <3>1, <3>3
    <3>5. QED
      BY <3>2, <3>4
  <2>10. CASE ~NothingToWrite("grafana", m)
    <3>1. PICK es : LineOfMeter(es, m) /\ Extends(d, c, es)
      BY <2>2, <2>3, <2>10, GrafanaAppended
    <3>2. \A x : FieldsIn(d.text, x) = IF x = m.name THEN FieldsIn(c.text, x) \cup FieldNames(es)
                                       ELSE FieldsIn(c.text, x)
      <4> HIDE DEF c, d, m
      <4>1. CompleteLines(c) /\ CompleteLines(d) /\ LineOfMeter(es, m) /\ Extends(d, c, es)
        BY <2>2, <3>1
      <4>2. ASSUME NEW x
            PROVE  FieldsIn(d.text, x) = IF x = m.name
                                         THEN FieldsIn(c.text, x) \cup FieldNames(es)
                                         ELSE FieldsIn(c.text, x)
        BY <4>1, LinesExtended
      <4>3. QED
        BY <4>2
    <3>3. FieldNames(es) = NamesOf(EnabledOf(Fields(k), "grafana"))
      BY <2>3, <3>1 DEF LineOfMeter
    <3>4. Sent(k)
      <4>1. \A i \in 1..(k - 1) : FieldsIn(d.text, Reporting(i).name) = FieldsIn(c.text, Reporting(i).name)
        BY <2>4, <3>2
      <4>2. FieldsIn(d.text, m.name) = NamesOf(EnabledOf(Fields(k), "grafana"))
        BY <2>5, <3>2, <3>3
      <4>3. QED
        BY <1>5, <2>6, <4>1, <4>2
    <3>5. Named(k)
      <4> SUFFICES ASSUME NEW e \in DOMAIN d.text, d.text[e].type = MEAS
                   PROVE  \E i \in 1..k : d.text[e].name = Reporting(i).name
        OBVIOUS
      <4>1. /\ DOMAIN d.text = 1..(Len(c.text) + Len(es)) /\ DOMAIN c.text = 1..Len(c.text)
            /\ Len(c.text) \in Nat /\ Len(es) \in Nat
        BY <2>2, <3>1 DEF Extends, LineOfMeter, IsLine
      <4>2. CASE e \in 1..Len(c.text)
        <5>1. d.text[e] = c.text[e]
          BY <3>1, <4>2 DEF Extends
        <5>2. PICK i \in 1..(k - 1) : c.text[e].name = Reporting(i).name
          BY <1>5, <4>1, <4>2, <5>1
        <5>3. QED
          BY <2>7, <5>1, <5>2
      <4>3. CASE e \notin 1..Len(c.text)
        <5>1. e - Len(c.text) \in 1..Len(es) /\ Len(c.text) + (e - Len(c.text)) = e
          <6> DEFINE p == Len(c.text)
                     q == Len(es)
          <6>1. p \in Nat /\ q \in Nat /\ e \in 1..(p + q) /\ e \notin 1..p
            BY <4>1, <4>3
          <6> HIDE DEF p, q
          <6>2. e - p \in 1..q /\ p + (e - p) = e
            BY <6>1
          <6>3. QED
            BY <6>2 DEF p, q
        <5>2. /\ es[e - Len(c.text)].type = MEAS
              /\ d.text[e].name = es[e - Len(c.text)].name
          BY <3>1, <5>1 DEF Extends
        <5>3. e - Len(c.text) = 1
          <6>1. \A j \in 2..Len(es) : es[j].type # MEAS
            BY <3>1 DEF LineOfMeter
          <6>2. \A j \in 1..Len(es) : j = 1 \/ j \in 2..Len(es)
            BY <4>1
          <6>3. QED
            BY <5>1, <5>2, <6>1, <6>2
        <5>4. d.text[e].name = m.name
          BY <3>1, <5>2, <5>3 DEF LineOfMeter
        <5>5. QED
          BY <2>8, <5>4
      <4>4. QED
        BY <4>2, <4>3
    <3>6. QED
      BY <3>4, <3>5
  <2>11. QED
    BY <2>9, <2>10
<1> HIDE DEF Named, Sent
<1>6. n \in T
  <2>1. \A k \in 1..n : k - 1 \in T => k \in T
    BY <1>1, <1>5
  <2>2. n \in 0..n
    BY <1>1
  <2> HIDE DEF T
  <2>3. QED
    BY <1>1, <1>4, <2>1, <2>2, Upto
<1>7. CompleteLines(grafanaBuf')
  BY <1>1, <1>2, <1>3, n \in 0..n
<1>8. Sent(n)
  BY <1>6
<1>9. QED
  BY <1>1, <1>2, <1>7, <1>8 DEF Sent

-----------------------------------------------------------------------------
(***************************************************************************)
(* The message of a meter: the beginning of an object, and how it goes on. *)
(***************************************************************************)

\* The tokens of a message.
Kinds == {"begin", "end", "open", "close", "comma", "member", "element"}
TokenNames == {e.name : e \in Entries} \cup {e.array : e \in Entries} \cup {NoArray}
Tokens == [kind : Kinds, name : TokenNames]

\* Whether the token at i is inside an array, and what may be there.
InsideAt(t, i) == \E a \in 1..(i - 1) : /\ t[a].kind = "open"
                                        /\ \A b \in (a + 1)..(i - 1) : t[b].kind # "close"
MayCome(k, inside, last) ==
    \/ k = "comma" /\ last \in {"member", "element", "close"}
    \/ k = "close" /\ inside /\ last = "element"
    \/ k \in {"open", "member"} /\ ~inside /\ last \in {"begin", "comma"}
    \/ k = "element" /\ inside /\ last \in {"open", "comma"}

\* The beginning of an object.
Begun(t) ==
    /\ t \in Seq(Tokens) /\ t # <<>> /\ t[1].kind = "begin"
    /\ \A i \in 2..Len(t) : MayCome(t[i].kind, InsideAt(t, i), t[i - 1].kind)
Inside(t) == InsideAt(t, Len(t) + 1)
LastKind(t) == t[Len(t)].kind
NamesIn(t) == {t[i].name : i \in {i \in DOMAIN t : t[i].kind \in {"member", "element"}}}

\* What a token more is to the ones before it.
LEMMA TokenMore ==
    ASSUME NEW t \in Seq(Tokens), NEW x \in Tokens
    PROVE  LET u == Append(t, x)
           IN  /\ u \in Seq(Tokens) /\ Len(u) = Len(t) + 1 /\ LastKind(u) = x.kind
               /\ \A i \in 1..Len(t) : u[i] = t[i]
               /\ u[Len(t) + 1] = x
               /\ \A i \in 1..(Len(t) + 1) : InsideAt(u, i) <=> InsideAt(t, i)
               /\ Inside(u) <=> (x.kind = "open" \/ (Inside(t) /\ x.kind # "close"))
               /\ NamesIn(u) = NamesIn(t) \cup (IF x.kind \in {"member", "element"} THEN {x.name}
                                                ELSE {})
<1> DEFINE n == Len(t)
           u == Append(t, x)
<1>1. /\ n \in Nat /\ u \in Seq(Tokens) /\ Len(u) = n + 1 /\ DOMAIN t = 1..n /\ DOMAIN u = 1..(n + 1)
      /\ \A i \in 1..n : u[i] = t[i]
      /\ u[n + 1] = x
  OBVIOUS
<1> HIDE DEF n, u
<1>2. ASSUME NEW i \in 1..(n + 1) PROVE InsideAt(u, i) <=> InsideAt(t, i)
  <2>1. \A a \in 1..(i - 1) : u[a] = t[a] /\ \A b \in (a + 1)..(i - 1) : u[b] = t[b]
    BY <1>1
  <2>2. QED
    BY <2>1 DEF InsideAt
<1>3. Inside(u) <=> (x.kind = "open" \/ (Inside(t) /\ x.kind # "close"))
  <2>1. Inside(u) <=> \E a \in 1..(n + 1) : /\ u[a].kind = "open"
                                           /\ \A b \in (a + 1)..(n + 1) : u[b].kind # "close"
    <3>1. (Len(u) + 1) - 1 = n + 1
      BY <1>1
    <3>2. QED
      BY <3>1 DEF Inside, InsideAt
  <2>2. Inside(t) <=> \E a \in 1..n : /\ t[a].kind = "open"
                                     /\ \A b \in (a + 1)..n : t[b].kind # "close"
    <3>1. (n + 1) - 1 = n
      BY <1>1
    <3>2. QED
      BY <3>1 DEF Inside, InsideAt, n
  <2>3. ASSUME Inside(u) PROVE x.kind = "open" \/ (Inside(t) /\ x.kind # "close")
    <3>1. PICK a \in 1..(n + 1) : u[a].kind = "open" /\ \A b \in (a + 1)..(n + 1) : u[b].kind # "close"
      BY <2>1, <2>3
    <3>2. CASE a = n + 1
      BY <1>1, <3>1, <3>2
    <3>3. CASE a # n + 1
      <4>1. a \in 1..n /\ n + 1 \in (a + 1)..(n + 1)
        BY <1>1, <3>3
      <4>2. \A b \in (a + 1)..n : b \in (a + 1)..(n + 1) /\ u[b] = t[b]
        BY <1>1, <4>1
      <4>3. QED
        BY <1>1, <2>2, <3>1, <4>1, <4>2
    <3>4. QED
      BY <3>2, <3>3
  <2>4. ASSUME x.kind = "open" PROVE Inside(u)
    <3>1. n + 1 \in 1..(n + 1) /\ ((n + 1) + 1)..(n + 1) = {}
      BY <1>1
    <3>2. QED
      BY <1>1, <2>1, <2>4, <3>1
  <2>5. ASSUME Inside(t), x.kind # "close" PROVE Inside(u)
    <3>1. PICK a \in 1..n : t[a].kind = "open" /\ \A b \in (a + 1)..n : t[b].kind # "close"
      BY <2>2, <2>5
    <3>2. \A b \in (a + 1)..(n + 1) : b = n + 1 \/ (b \in (a + 1)..n /\ b \in 1..n)
      BY <1>1
    <3>3. a \in 1..(n + 1)
      BY <1>1
    <3>4. \A b \in (a + 1)..(n + 1) : u[b].kind # "close"
      BY <1>1, <2>5, <3>1, <3>2
    <3>5. QED
      BY <1>1, <2>1, <3>1, <3>3, <3>4
  <2>6. QED
    BY <2>3, <2>4, <2>5
<1>4. NamesIn(u) = NamesIn(t) \cup (IF x.kind \in {"member", "element"} THEN {x.name} ELSE {})
  <2>1. DOMAIN u = (DOMAIN t) \cup {n + 1}
    BY <1>1
  <2>2. QED
    BY <1>1, <2>1 DEF NamesIn
<1>5. LastKind(u) = x.kind
  BY <1>1 DEF LastKind
<1>6. QED
  BY <1>1, <1>2, <1>3, <1>4, <1>5 DEF n, u

\* A beginning goes on with what may come.
LEMMA TokenAppended ==
    ASSUME NEW t, Begun(t), NEW x \in Tokens, MayCome(x.kind, Inside(t), LastKind(t))
    PROVE  /\ Begun(Append(t, x)) /\ LastKind(Append(t, x)) = x.kind
           /\ Inside(Append(t, x)) <=> (x.kind = "open" \/ (Inside(t) /\ x.kind # "close"))
           /\ x.kind \in {"member", "element"} => NamesIn(Append(t, x)) = NamesIn(t) \cup {x.name}
           /\ x.kind \notin {"member", "element"} => NamesIn(Append(t, x)) = NamesIn(t)
<1> DEFINE n == Len(t)
           u == Append(t, x)
<1>1. t \in Seq(Tokens) /\ n \in Nat /\ n > 0
  <2>1. t \in Seq(Tokens) /\ t # <<>>
    BY DEF Begun
  <2>2. QED
    BY <2>1
<1>2. /\ u \in Seq(Tokens) /\ Len(u) = n + 1 /\ LastKind(u) = x.kind
      /\ \A i \in 1..n : u[i] = t[i]
      /\ u[n + 1] = x
      /\ \A i \in 1..(n + 1) : InsideAt(u, i) <=> InsideAt(t, i)
      /\ Inside(u) <=> (x.kind = "open" \/ (Inside(t) /\ x.kind # "close"))
      /\ NamesIn(u) = NamesIn(t) \cup (IF x.kind \in {"member", "element"} THEN {x.name} ELSE {})
  BY <1>1, TokenMore
<1> HIDE DEF u
<1>3. ASSUME NEW i \in 2..(n + 1) PROVE MayCome(u[i].kind, InsideAt(u, i), u[i - 1].kind)
  <2>1. i - 1 \in 1..n /\ i \in 1..(n + 1)
    BY <1>1
  <2>2. CASE i = n + 1
    <3>1. u[i] = x /\ u[i - 1] = t[n]
      BY <1>1, <1>2, <2>1, <2>2
    <3>2. InsideAt(u, i) <=> Inside(t)
      BY <1>2, <2>1, <2>2 DEF Inside
    <3>3. QED
      BY <3>1, <3>2 DEF LastKind, MayCome
  <2>3. CASE i # n + 1
    <3>1. i \in 2..n /\ i \in 1..n
      BY <1>1, <2>3
    <3>2. u[i] = t[i] /\ u[i - 1] = t[i - 1] /\ (InsideAt(u, i) <=> InsideAt(t, i))
      BY <1>2, <2>1, <3>1
    <3>3. MayCome(t[i].kind, InsideAt(t, i), t[i - 1].kind)
      BY <3>1 DEF Begun
    <3>4. QED
      BY <3>2, <3>3 DEF MayCome
  <2>4. QED
    BY <2>2, <2>3
<1>4. u # <<>> /\ u[1].kind = "begin"
  <2>1. 1 \in 1..n
    BY <1>1
  <2>2. t[1].kind = "begin"
    BY DEF Begun
  <2>3. u[1] = t[1]
    BY <1>2, <2>1
  <2>4. Len(u) # 0
    BY <1>1, <1>2
  <2>5. u # <<>>
    BY <1>2, <2>4
  <2>6. QED
    BY <2>2, <2>3, <2>5
<1>5. Begun(u)
  BY <1>2, <1>3, <1>4 DEF Begun
<1>6. QED
  BY <1>2, <1>5 DEF u

\* What appendField works on.
Arrays == {e.array : e \in Entries} \cup {NoArray}
Writers == [text : Seq(Tokens), array : Arrays, first : BOOLEAN]

\* A message under construction: in an array exactly if its last array is open.
Writing(s) ==
    /\ s \in Writers /\ Begun(s.text)
    /\ s.array # NoArray => Inside(s.text) /\ LastKind(s.text) = "element" /\ ~s.first
    /\ s.array = NoArray => /\ ~Inside(s.text)
                            /\ LastKind(s.text) = IF s.first THEN "begin" ELSE "member"

\* Brackets, commas and names are tokens.
LEMMA Punctuation ==
    /\ \A a \in TokenNames, k \in Kinds : /\ Token(k, a) \in Tokens
                                          /\ Token(k, a).kind = k /\ Token(k, a).name = a
    /\ NoArray \in TokenNames /\ Arrays \subseteq TokenNames
    /\ \A f \in FieldSet : f.name \in TokenNames /\ f.array \in Arrays
  BY DEF Token, Tokens, TokenNames, Arrays, FieldSet

\* One or two tokens more, as they are appended.
LEMMA SequenceEnds ==
    ASSUME NEW t \in Seq(Tokens), NEW x \in Tokens, NEW y \in Tokens
    PROVE  /\ t \o <<>> = t
           /\ t \o <<x>> = Append(t, x)
           /\ t \o <<x, y>> = Append(Append(t, x), y)
  OBVIOUS

\* What the array that is still open is closed with.
LEMMA ArrayClosed ==
    ASSUME NEW s, Writing(s)
    PROVE  LET t == s.text \o CloseArray(s)
           IN  /\ Begun(t) /\ ~Inside(t) /\ NamesIn(t) = NamesIn(s.text)
               /\ LastKind(t) \in IF s.first THEN {"begin"} ELSE {"member", "close"}
<1>1. s.text \in Seq(Tokens) /\ s.array \in TokenNames /\ Begun(s.text)
  BY Punctuation DEF Writing, Writers
<1>2. CASE s.array = NoArray
  <2>1. s.text \o CloseArray(s) = s.text
    BY <1>1, <1>2 DEF CloseArray
  <2>2. QED
    BY <1>1, <1>2, <2>1 DEF Writing
<1>3. CASE s.array # NoArray
  <2> DEFINE x == Token("close", s.array)
  <2>1. x \in Tokens /\ x.kind = "close"
    BY <1>1, Punctuation DEF Kinds
  <2>2. s.text \o CloseArray(s) = Append(s.text, x)
    BY <1>1, <1>3, <2>1, SequenceEnds DEF CloseArray
  <2> HIDE DEF x
  <2>3. MayCome(x.kind, Inside(s.text), LastKind(s.text))
    BY <1>3, <2>1 DEF MayCome, Writing
  <2>4. /\ Begun(Append(s.text, x)) /\ LastKind(Append(s.text, x)) = "close"
        /\ ~Inside(Append(s.text, x)) /\ NamesIn(Append(s.text, x)) = NamesIn(s.text)
    BY <1>1, <2>1, <2>3, TokenAppended
  <2>5. QED
    BY <1>3, <2>2, <2>4 DEF Writing
<1>4. QED
  BY <1>2, <1>3

\* What stands before the next member.
LEMMA MemberAnnounced ==
    ASSUME NEW s, Writing(s)
    PROVE  LET t == s.text \o CloseArray(s) \o Comma(s)
           IN  /\ Begun(t) /\ ~Inside(t) /\ NamesIn(t) = NamesIn(s.text)
               /\ LastKind(t) \in {"begin", "comma"}
<1> DEFINE t == s.text \o CloseArray(s)
           x == Token("comma", NoArray)
<1>1. /\ Begun(t) /\ ~Inside(t) /\ NamesIn(t) = NamesIn(s.text)
      /\ LastKind(t) \in IF s.first THEN {"begin"} ELSE {"member", "close"}
      /\ t \in Seq(Tokens)
  BY ArrayClosed DEF Begun
<1>2. x \in Tokens /\ x.kind = "comma"
  BY Punctuation DEF Kinds
<1> HIDE DEF t
<1>3. CASE s.first
  <2>1. t \o Comma(s) = t
    <3>1. t \o <<>> = t
      BY <1>1, <1>2, SequenceEnds
    <3>2. QED
      BY <1>3, <3>1 DEF Comma
  <2>2. QED
    BY <1>1, <1>3, <2>1 DEF t
<1>4. CASE ~s.first
  <2>1. t \o Comma(s) = Append(t, x)
    BY <1>1, <1>2, <1>4, SequenceEnds DEF Comma
  <2> HIDE DEF x
  <2>2. MayCome(x.kind, Inside(t), LastKind(t))
    BY <1>1, <1>2, <1>4 DEF MayCome
  <2>3. /\ Begun(Append(t, x)) /\ LastKind(Append(t, x)) = "comma"
        /\ ~Inside(Append(t, x)) /\ NamesIn(Append(t, x)) = NamesIn(t)
    BY <1>1, <1>2, <2>2, TokenAppended
  <2>4. QED
    BY <1>1, <2>1, <2>3 DEF t
<1>5. QED
  BY <1>3, <1>4

\* One field: appendField leaves a message under construction that has it.
LEMMA FieldAppended ==
    ASSUME NEW s, Writing(s), NEW f \in FieldSet
    PROVE  /\ Writing(appendField(s, f))
           /\ NamesIn(appendField(s, f).text) = NamesIn(s.text) \cup {f.name}
<1>1. /\ s \in Writers /\ s.text \in Seq(Tokens) /\ Begun(s.text)
      /\ f.name \in TokenNames /\ f.array \in Arrays /\ f.array \in TokenNames
  BY Punctuation DEF Writing, Writers
<1> DEFINE comma == Token("comma", NoArray)
           begin == Token("open", f.array)
           element == Token("element", f.name)
           member == Token("member", f.name)
<1>2. /\ comma \in Tokens /\ comma.kind = "comma"
      /\ begin \in Tokens /\ begin.kind = "open"
      /\ element \in Tokens /\ element.kind = "element" /\ element.name = f.name
      /\ member \in Tokens /\ member.kind = "member" /\ member.name = f.name
  BY <1>1, Punctuation DEF Kinds
<1> DEFINE t == s.text \o CloseArray(s) \o Comma(s)
<1>3. /\ Begun(t) /\ ~Inside(t) /\ NamesIn(t) = NamesIn(s.text) /\ LastKind(t) \in {"begin", "comma"}
      /\ t \in Seq(Tokens)
  BY MemberAnnounced DEF Begun
<1>4. CASE f.array # NoArray /\ f.array = s.array
  <2>1. appendField(s, f) = [s EXCEPT !.text = @ \o <<comma, element>>]
    BY <1>4 DEF appendField
  <2> HIDE DEF comma, element
  <2>2. s.text \o <<comma, element>> = Append(Append(s.text, comma), element)
    BY <1>1, <1>2, SequenceEnds
  <2> DEFINE u == Append(s.text, comma)
  <2>3. Inside(s.text) /\ LastKind(s.text) = "element" /\ ~s.first
    BY <1>4 DEF Writing
  <2>4. MayCome(comma.kind, Inside(s.text), LastKind(s.text))
    BY <1>2, <2>3 DEF MayCome
  <2>5. Begun(u) /\ LastKind(u) = "comma" /\ Inside(u) /\ NamesIn(u) = NamesIn(s.text)
    BY <1>1, <1>2, <2>3, <2>4, TokenAppended
  <2> HIDE DEF u
  <2>6. MayCome(element.kind, Inside(u), LastKind(u))
    BY <1>2, <2>5 DEF MayCome
  <2>7. /\ Begun(Append(u, element)) /\ LastKind(Append(u, element)) = "element"
        /\ Inside(Append(u, element)) /\ NamesIn(Append(u, element)) = NamesIn(u) \cup {f.name}
    <3>1. element \in Tokens /\ element.kind = "element" /\ element.name = f.name /\ Begun(u)
          /\ Inside(u)
      BY <1>2, <2>5
    <3>2. /\ Begun(Append(u, element)) /\ LastKind(Append(u, element)) = element.kind
          /\ Inside(Append(u, element))
               <=> (element.kind = "open" \/ (Inside(u) /\ element.kind # "close"))
          /\ element.kind \in {"member", "element"} =>
               NamesIn(Append(u, element)) = NamesIn(u) \cup {element.name}
      BY <3>1, <2>6, TokenAppended
    <3>3. QED
      BY <3>1, <3>2
  <2>8. /\ appendField(s, f).text = Append(u, element)
        /\ appendField(s, f).array = s.array /\ appendField(s, f).first = s.first
        /\ appendField(s, f) \in Writers
    <3>1. Append(u, element) \in Seq(Tokens)
      BY <2>7 DEF Begun
    <3>2. QED
      BY <1>1, <2>1, <2>2, <3>1 DEF u, Writers
  <2>9. QED
    BY <1>4, <2>3, <2>5, <2>7, <2>8 DEF Writing
<1>5. CASE f.array # NoArray /\ f.array # s.array
  <2>1. appendField(s, f) = [text |-> t \o <<begin, element>>, array |-> f.array, first |-> FALSE]
    BY <1>5 DEF appendField
  <2> HIDE DEF t, begin, element
  <2>2. t \o <<begin, element>> = Append(Append(t, begin), element)
    BY <1>2, <1>3, SequenceEnds
  <2> DEFINE u == Append(t, begin)
  <2>3. MayCome(begin.kind, Inside(t), LastKind(t))
    BY <1>2, <1>3 DEF MayCome
  <2>4. Begun(u) /\ LastKind(u) = "open" /\ Inside(u) /\ NamesIn(u) = NamesIn(t)
    BY <1>2, <1>3, <2>3, TokenAppended
  <2> HIDE DEF u
  <2>5. MayCome(element.kind, Inside(u), LastKind(u))
    BY <1>2, <2>4 DEF MayCome
  <2>6. /\ Begun(Append(u, element)) /\ LastKind(Append(u, element)) = "element"
        /\ Inside(Append(u, element)) /\ NamesIn(Append(u, element)) = NamesIn(u) \cup {f.name}
    <3>1. element \in Tokens /\ element.kind = "element" /\ element.name = f.name /\ Begun(u)
          /\ Inside(u)
      BY <1>2, <2>4
    <3>2. /\ Begun(Append(u, element)) /\ LastKind(Append(u, element)) = element.kind
          /\ Inside(Append(u, element))
               <=> (element.kind = "open" \/ (Inside(u) /\ element.kind # "close"))
          /\ element.kind \in {"member", "element"} =>
               NamesIn(Append(u, element)) = NamesIn(u) \cup {element.name}
      BY <3>1, <2>5, TokenAppended
    <3>3. QED
      BY <3>1, <3>2
  <2>7. /\ appendField(s, f).text = Append(u, element)
        /\ appendField(s, f).array = f.array /\ appendField(s, f).first = FALSE
        /\ appendField(s, f) \in Writers
    <3>1. Append(u, element) \in Seq(Tokens)
      BY <2>6 DEF Begun
    <3>2. QED
      BY <1>1, <2>1, <2>2, <3>1 DEF u, Writers
  <2>8. QED
    BY <1>3, <1>5, <2>4, <2>6, <2>7 DEF Writing
<1>6. CASE f.array = NoArray
  <2>1. appendField(s, f) = [text |-> t \o <<member>>, array |-> NoArray, first |-> FALSE]
    BY <1>6 DEF appendField
  <2> HIDE DEF t, member
  <2>2. t \o <<member>> = Append(t, member)
    BY <1>2, <1>3, SequenceEnds
  <2>3. MayCome(member.kind, Inside(t), LastKind(t))
    BY <1>2, <1>3 DEF MayCome
  <2>4. /\ Begun(Append(t, member)) /\ LastKind(Append(t, member)) = "member"
        /\ ~Inside(Append(t, member)) /\ NamesIn(Append(t, member)) = NamesIn(t) \cup {f.name}
    BY <1>2, <1>3, <2>3, TokenAppended
  <2>5. /\ appendField(s, f).text = Append(t, member)
        /\ appendField(s, f).array = NoArray /\ appendField(s, f).first = FALSE
        /\ appendField(s, f) \in Writers
    <3>1. Append(t, member) \in Seq(Tokens) /\ NoArray \in Arrays
      BY <2>4 DEF Begun, Arrays
    <3>2. QED
      BY <2>1, <2>2, <3>1 DEF Writers
  <2>6. QED
    BY <1>3, <2>4, <2>5 DEF Writing
<1>7. QED
  BY <1>4, <1>5, <1>6

\* An object that is closed at its end is JSON.
LEMMA ObjectClosed ==
    ASSUME NEW t, Begun(t), ~Inside(t), LastKind(t) # "comma",
           NEW x \in Tokens, x.kind = "end"
    PROVE  Json(Append(t, x)) /\ NamesIn(Append(t, x)) = NamesIn(t)
<1> DEFINE n == Len(t)
           u == Append(t, x)
<1>1. t \in Seq(Tokens) /\ n \in Nat /\ n > 0
  <2>1. t \in Seq(Tokens) /\ t # <<>>
    BY DEF Begun
  <2>2. QED
    BY <2>1
<1>2. /\ Len(u) = n + 1
      /\ \A i \in 1..n : u[i] = t[i]
      /\ u[n + 1] = x
      /\ \A i \in 1..(n + 1) : InsideAt(u, i) <=> InsideAt(t, i)
      /\ NamesIn(u) = NamesIn(t) \cup (IF x.kind \in {"member", "element"} THEN {x.name} ELSE {})
  BY <1>1, TokenMore
<1>3. NamesIn(u) = NamesIn(t)
  BY <1>2
<1> HIDE DEF u, n
<1> DEFINE k(i) == u[i].kind
           In(i) == \E a \in 1..(i - 1) : k(a) = "open" /\ \A b \in (a + 1)..(i - 1) : k(b) # "close"
           Fine(i) == CASE k(i) = "begin" -> FALSE
                        [] k(i) = "end" -> i = Len(u) /\ ~In(i) /\ k(i - 1) # "comma"
                        [] k(i) = "comma" -> k(i - 1) \in {"member", "element", "close"}
                        [] k(i) = "close" -> In(i) /\ k(i - 1) = "element"
                        [] k(i) = "open" -> ~In(i) /\ k(i - 1) \in {"begin", "comma"}
                        [] k(i) = "member" -> ~In(i) /\ k(i - 1) \in {"begin", "comma"}
                        [] k(i) = "element" -> In(i) /\ k(i - 1) \in {"open", "comma"}
<1>4. \A i : In(i) <=> InsideAt(u, i)
  BY DEF InsideAt
<1> HIDE DEF In
<1>5. ASSUME NEW i \in 2..(n + 1) PROVE Fine(i)
  <2>1. i \in 1..(n + 1) /\ i - 1 \in 1..n
    BY <1>1
  <2>2. k(i - 1) = t[i - 1].kind /\ (In(i) <=> InsideAt(t, i))
    BY <1>2, <1>4, <2>1
  <2>3. CASE i = n + 1
    <3>1. k(i) = "end" /\ i = Len(u)
      BY <1>2, <2>3
    <3>2. InsideAt(t, i) <=> Inside(t)
      BY <2>3 DEF Inside, n
    <3>3. i - 1 = n
      BY <1>1, <2>3
    <3>4. t[i - 1].kind = LastKind(t)
      BY <3>3 DEF LastKind, n
    <3>5. ~In(i) /\ k(i - 1) # "comma"
      BY <2>2, <3>2, <3>4
    <3>6. QED
      BY <3>1, <3>5
  <2>4. CASE i # n + 1
    <3>1. i \in 2..n /\ i \in 1..n
      BY <1>1, <2>4
    <3>2. k(i) = t[i].kind
      BY <1>2, <3>1
    <3>3. MayCome(t[i].kind, InsideAt(t, i), t[i - 1].kind)
      BY <3>1 DEF Begun, n
    <3>4. MayCome(k(i), In(i), k(i - 1))
      BY <2>2, <3>2, <3>3 DEF MayCome
    <3> HIDE DEF k
    <3>5. QED
      BY <3>4 DEF MayCome
  <2>5. QED
    BY <2>3, <2>4
<1>6. k(1) = "begin" /\ k(Len(u)) = "end"
  <2>1. 1 \in 1..n
    BY <1>1
  <2>2. t[1].kind = "begin"
    BY DEF Begun
  <2>3. QED
    BY <1>2, <2>1, <2>2
<1>7. Json(u)
  BY <1>2, <1>5, <1>6 DEF Json, In
<1>8. QED
  BY <1>3, <1>7 DEF u

\* The message of a meter under construction: what it got of a field.
LEMMA MessageRun ==
    ASSUME NEW s0, Writing(s0), NEW fields \in Seq(FieldSet)
    PROVE  \E r \in [0..Len(fields) -> {s \in Writers : Writing(s)}] :
              /\ r[0] = s0
              /\ \A i \in 1..Len(fields) : r[i] = appendField(r[i - 1], fields[i])
              /\ r[Len(fields)] = FoldLeft(appendField, s0, fields)
<1> DEFINE n == Len(fields)
           C == {s \in Writers : Writing(s)}
           h == [i \in 1..n |-> [s \in C |-> appendField(s, fields[i])]]
           F(f) == [S \in SUBSET DOMAIN fields |->
                      IF S = {} THEN s0 ELSE appendField(f[S \ {Max(S)}], fields[Max(S)])]
           it == CHOOSE f : f = F(f)
<1>1. n \in Nat /\ DOMAIN fields = 1..n /\ \A i \in 1..n : fields[i] \in FieldSet
  OBVIOUS
<1>2. \A s \in C, f \in FieldSet : appendField(s, f) \in C
  BY FieldAppended DEF Writing
<1>3. FoldLeft(appendField, s0, fields) = it[DOMAIN fields]
  BY DEF FoldLeft, MapThenFoldSet
<1>4. h \in [1..n -> [C -> C]]
  BY <1>1, <1>2
<1>5. \A S \in SUBSET (1..n) :
         S # {} => Max(S) \in 1..n /\ \A s \in C : h[Max(S)][s] = appendField(s, fields[Max(S)])
  BY <1>1, MaxUpto
<1>6. s0 \in C
  BY DEF Writing
<1> HIDE DEF h, n, C
<1>7. PICK g : IsFold(g, C, n, s0, h)
  BY <1>1, <1>4, <1>6, FoldExists
<1>8. g = F(g)
  BY <1>1, <1>5, <1>7 DEF IsFold
<1> HIDE DEF F
<1>9. it = F(it)
  BY <1>8
<1> HIDE DEF it
<1>10. Folds(it, C, n, s0, h)
  <2>1. \A S \in SUBSET (1..n) :
           it[S] = IF S = {} THEN s0 ELSE appendField(it[S \ {Max(S)}], fields[Max(S)])
    BY <1>1, <1>9 DEF F
  <2>2. QED
    BY <1>5, <2>1 DEF Folds
<1>11. PICK r : IsRun(r, C, n, s0, h) /\ r[n] = it[1..n]
  BY <1>1, <1>4, <1>6, <1>10, FoldRun
<1>12. ASSUME NEW i \in 1..n PROVE r[i] = appendField(r[i - 1], fields[i])
  <2>1. i - 1 \in 0..n
    BY <1>1
  <2>2. QED
    BY <1>11, <2>1 DEF IsRun, h
<1>13. QED
  BY <1>1, <1>3, <1>11, <1>12 DEF C, IsRun, n

\* What is in the message when all fields were appended.
LEMMA MessageFields ==
    ASSUME NEW s0, Writing(s0), NEW fields \in Seq(FieldSet)
    PROVE  LET s == FoldLeft(appendField, s0, fields)
           IN  Writing(s) /\ NamesIn(s.text) = NamesIn(s0.text) \cup NamesOf(Members(fields))
<1> DEFINE n == Len(fields)
<1>1. n \in Nat /\ DOMAIN fields = 1..n /\ \A i \in 1..n : fields[i] \in FieldSet
  OBVIOUS
<1>2. PICK r \in [0..n -> {s \in Writers : Writing(s)}] :
              /\ r[0] = s0
              /\ \A i \in 1..n : r[i] = appendField(r[i - 1], fields[i])
              /\ r[n] = FoldLeft(appendField, s0, fields)
  BY MessageRun
<1> HIDE DEF n
<1> DEFINE Upper(i) == {fields[j].name : j \in 1..i}
           T == {i \in 0..n : NamesIn(r[i].text) = NamesIn(s0.text) \cup Upper(i)}
<1>3. 0 \in T
  <2>1. 0 \in 0..n /\ 1..0 = {}
    BY <1>1
  <2>2. QED
    BY <1>2, <2>1
<1>4. ASSUME NEW i \in 1..n, i - 1 \in T PROVE i \in T
  <2>1. i - 1 \in 0..n /\ i \in 0..n /\ fields[i] \in FieldSet
    BY <1>1
  <2>2. Writing(r[i - 1]) /\ r[i] = appendField(r[i - 1], fields[i])
    BY <1>2, <2>1
  <2>3. NamesIn(r[i].text) = NamesIn(r[i - 1].text) \cup {fields[i].name}
    BY <2>1, <2>2, FieldAppended
  <2>4. 1..i = (1..(i - 1)) \cup {i}
    BY <1>1
  <2>5. Upper(i) = Upper(i - 1) \cup {fields[i].name}
    BY <2>4
  <2>6. QED
    BY <1>4, <2>1, <2>3, <2>5
<1>5. n \in T
  <2>1. n \in 0..n
    BY <1>1
  <2> HIDE DEF T
  <2>2. QED
    BY <1>1, <1>3, <1>4, <2>1, Upto
<1>6. Writing(r[n])
  BY <1>1, <1>2, n \in 0..n
<1>7. Upper(n) = NamesOf(Members(fields))
  BY <1>1 DEF NamesOf, Members
<1>8. QED
  BY <1>2, <1>5, <1>6, <1>7

\* mqttSendData builds an object with the fields that are enabled, or nothing.
LEMMA MessageBuilt ==
    ASSUME NEW m, Reportable(m)
    PROVE  /\ Json(mqttSendData(m))
           /\ ~m.disabled => NamesIn(mqttSendData(m))
                               = NamesOf(EnabledOf(m.registers \o m.formulas, "mqtt"))
<1>1. CASE NothingToWrite("mqtt", m)
  <2>1. mqttSendData(m) = <<>>
    BY <1>1 DEF mqttSendData
  <2>2. Json(<<>>) /\ NamesIn(<<>>) = {}
    BY DEF Json, NamesIn
  <2>3. ~m.disabled => EnabledOf(m.registers \o m.formulas, "mqtt") = {}
    BY <1>1, CounterSays DEF NothingToWrite
  <2>4. QED
    BY <2>1, <2>2, <2>3 DEF NamesOf
<1>2. CASE ~NothingToWrite("mqtt", m)
  <2> DEFINE both == m.registers \o m.formulas
             fields == EnabledFor("mqtt", both)
             open == Token("begin", NoArray)
             close == Token("end", NoArray)
             s0 == [text |-> <<open>>, array |-> NoArray, first |-> TRUE]
             s == FoldLeft(appendField, s0, fields)
             t == s.text \o CloseArray(s)
  <2>1. both \in Seq(FieldSet)
    BY Concatenated DEF Reportable
  <2>2. mqttSendData(m) = t \o <<close>>
    BY <1>2 DEF mqttSendData
  <2> HIDE DEF both
  <2>3. fields \in Seq(FieldSet) /\ Members(fields) = EnabledOf(both, "mqtt")
    BY <2>1, EnabledForFields
  <2> HIDE DEF fields
  <2>4. /\ open \in Tokens /\ open.kind = "begin" /\ close \in Tokens /\ close.kind = "end"
        /\ NoArray \in Arrays
    BY Punctuation DEF Kinds, Arrays
  <2>5. Writing(s0) /\ NamesIn(s0.text) = {}
    <3> HIDE DEF open
    <3> DEFINE o == <<open>>
    <3>1. o \in Seq(Tokens) /\ Len(o) = 1 /\ o[1] = open
      BY <2>4
    <3>2. DOMAIN o = 1..1 /\ o # <<>>
      BY <3>1
    <3> HIDE DEF o
    <3>3. 2..Len(o) = {} /\ 1..1 = {1} /\ 1..((Len(o) + 1) - 1) = {1}
      BY <3>1
    <3>4. Begun(o)
      BY <2>4, <3>1, <3>2, <3>3 DEF Begun
    <3>5. LastKind(o) = "begin"
      BY <2>4, <3>1 DEF LastKind
    <3>6. ~Inside(o)
      <4>1. o[1].kind # "open"
        BY <2>4, <3>1
      <4>2. QED
        BY <3>3, <4>1 DEF Inside, InsideAt
    <3>7. NamesIn(o) = {}
      <4>1. o[1].kind \notin {"member", "element"}
        BY <2>4, <3>1
      <4>2. \A i \in DOMAIN o : o[i].kind \notin {"member", "element"}
        BY <3>2, <3>3, <4>1
      <4>3. QED
        BY <4>2 DEF NamesIn
    <3>8. /\ s0 = [text |-> o, array |-> NoArray, first |-> TRUE]
          /\ s0 \in Writers /\ s0.text = o /\ s0.array = NoArray /\ s0.first
      BY <2>4, <3>1 DEF Writers, o
    <3> HIDE DEF s0
    <3>9. QED
      BY <3>4, <3>5, <3>6, <3>7, <3>8 DEF Writing
  <2> HIDE DEF s0
  <2>6. Writing(s) /\ NamesIn(s.text) = NamesOf(Members(fields))
    <3>1. Writing(s) /\ NamesIn(s.text) = NamesIn(s0.text) \cup NamesOf(Members(fields))
      BY <2>3, <2>5, MessageFields
    <3> HIDE DEF s
    <3>2. QED
      BY <2>5, <3>1
  <2> HIDE DEF s, close
  <2>7. /\ Begun(t) /\ ~Inside(t) /\ NamesIn(t) = NamesIn(s.text)
        /\ LastKind(t) \in IF s.first THEN {"begin"} ELSE {"member", "close"}
    BY <2>6, ArrayClosed
  <2> HIDE DEF t
  <2>8. LastKind(t) # "comma"
    BY <2>7
  <2>9. t \o <<close>> = Append(t, close)
    BY <2>4, <2>7, SequenceEnds DEF Begun
  <2>10. Json(Append(t, close)) /\ NamesIn(Append(t, close)) = NamesIn(t)
    BY <2>4, <2>7, <2>8, ObjectClosed
  <2>11. QED
    BY <2>2, <2>3, <2>6, <2>7, <2>9, <2>10 DEF both
<1>3. QED
  BY <1>1, <1>2

-----------------------------------------------------------------------------
(***************************************************************************)
(* What a round sends, and the parser does not.                            *)
(***************************************************************************)

\* A round puts complete lines and messages together, and of every enabled
\* meter the fields that are enabled.
LEMMA RoundTexts ==
    ASSUME IInv, NEW S0, Round(S0)
    PROVE  TextsWellFormed' /\ EnabledFieldsSent'
<1>1. /\ meters' = meters /\ meterTypes' = meterTypes
      /\ messages' = [i \in DOMAIN meters |-> mqttSendData(Reporting(i))]
      /\ pc' = IF influxBuf'.failed \/ grafanaBuf'.failed THEN "failed" ELSE "sent"
  BY DEF Round, parsed
<1>2. CompleteLines(influxBuf')
  BY InfluxRound
<1>3. /\ CompleteLines(grafanaBuf')
      /\ \A i \in DOMAIN meters :
            ~meters[i].disabled => FieldsIn(grafanaBuf'.text, Reporting(i).name)
                                     = NamesOf(EnabledOf(Fields(i), "grafana"))
  BY GrafanaRound
<1>4. LineProtocol(influxBuf'.text) /\ LineProtocol(grafanaBuf'.text)
  BY <1>2, <1>3, CompleteText
<1>5. pc' = "sent"
  BY <1>1, <1>2, <1>3 DEF CompleteLines, Legal
<1>6. ASSUME NEW i \in DOMAIN meters
      PROVE  /\ Json(messages'[i])
             /\ ~meters[i].disabled => NamesIn(messages'[i]) = NamesOf(EnabledOf(Fields(i), "mqtt"))
  <2> DEFINE m == Reporting(i)
  <2>1. messages'[i] = mqttSendData(m)
    BY <1>1
  <2>2. Reportable(m) /\ m.disabled = meters[i].disabled /\ m.registers \o m.formulas = Fields(i)
    BY StoredReportable
  <2> HIDE DEF m
  <2>3. /\ Json(mqttSendData(m))
        /\ ~m.disabled => NamesIn(mqttSendData(m))
                            = NamesOf(EnabledOf(m.registers \o m.formulas, "mqtt"))
    BY <2>2, MessageBuilt
  <2>4. QED
    BY <2>1, <2>2, <2>3
<1>7. DOMAIN messages' = DOMAIN meters
  BY <1>1
<1>8. TextsWellFormed'
  <2>1. \A i \in DOMAIN messages' : Json(messages'[i])
    BY <1>6, <1>7
  <2>2. QED
    BY <1>4, <1>5, <2>1 DEF TextsWellFormed, LineProtocol, Json, LegalAfter, IsField
<1>9. ASSUME NEW i \in DOMAIN meters, ~meters[i].disabled
      PROVE  /\ InGrafana(i)' = EnabledNames(i, "grafana")'
             /\ InMessage(i)' = EnabledNames(i, "mqtt")'
  <2>1. Fields(i)' = Fields(i)
    BY <1>1 DEF Fields, registers
  <2>2. EnabledNames(i, "grafana")' = NamesOf(EnabledOf(Fields(i), "grafana"))
    BY <2>1 DEF EnabledNames, NamesOf, EnabledOf
  <2>3. EnabledNames(i, "mqtt")' = NamesOf(EnabledOf(Fields(i), "mqtt"))
    BY <2>1 DEF EnabledNames, NamesOf, EnabledOf
  <2>4. Reporting(i).name = <<meters[i].name, i>>
    BY StoredReportable
  <2>5. InGrafana(i)' = FieldsIn(grafanaBuf'.text, <<meters[i].name, i>>)
    BY <1>1 DEF InGrafana, LineOf, FieldsIn, LinesOf, IsField
  <2>6. InMessage(i)' = NamesIn(messages'[i])
    BY DEF InMessage, NamesIn
  <2>7. QED
    BY <1>3, <1>6, <1>9, <2>2, <2>3, <2>4, <2>5, <2>6
<1>10. EnabledFieldsSent'
  BY <1>1, <1>9 DEF EnabledFieldsSent
<1>11. QED
  BY <1>8, <1>10

\* The parser sends nothing.
LEMMA ParserSendsNothing ==
    ASSUME readMeterDefinitions
    PROVE  pc' \in {"begin", "type", "meter", "read", "loaded", "exit"}
<1>1. CASE TypeLine
  BY <1>1 DEF TypeLine, TypeName, TypeSetting, Register, InType, StayInType, exit
<1>2. CASE MeterLine
  <2>1. pc = "meter" /\ (pc' = pc \/ pc' = "exit")
    BY <1>2 DEF MeterLine, MeterName, MeterType, MeterSetting, Disable, Hostname, Address, Id,
                Formula, InMeter, StayInMeter, exit
  <2>2. QED
    BY <2>1
<1>3. CASE Refused
  BY <1>3 DEF Refused, exit
<1>4. CASE \E k \in Sinks, v \in {0, 1} : SectionDefault(k, v)
  BY <1>4 DEF SectionDefault
<1>5. CASE \E next \in {"type", "meter", "read"} : NextSection(next)
  BY <1>5 DEF NextSection, exit
<1>6. CASE SetHandles
  BY <1>6 DEF SetHandles, exit
<1>7. QED
  BY <1>1, <1>2, <1>3, <1>4, <1>5, <1>6 DEF readMeterDefinitions

\* What the texts hold is inductive with the configuration.
TextsInv == IInv /\ TextsWellFormed /\ EnabledFieldsSent

\* Before the file is read nothing was sent.
LEMMA InitTexts == ConfigInit => TextsInv
<1> SUFFICES ASSUME ConfigInit PROVE TextsInv
  OBVIOUS
<1>1. /\ pc = "begin" /\ influxBuf.text = <<>> /\ grafanaBuf.text = <<>> /\ DOMAIN messages = {}
  BY DEF ConfigInit, Init, EmptyBuffer
<1>2. TextsWellFormed /\ EnabledFieldsSent
  BY <1>1 DEF TextsWellFormed, EnabledFieldsSent, LineProtocol
<1>3. QED
  BY <1>2, InitIInv DEF TextsInv

\* A round writes all texts anew, no other step touches them.
LEMMA NextTexts == TextsInv /\ [Next]_vars => TextsInv'
<1> SUFFICES ASSUME TextsInv, [Next]_vars PROVE TextsInv'
  OBVIOUS
<1>0. IInv /\ TextsWellFormed /\ EnabledFieldsSent /\ IInv'
  BY NextIInv DEF TextsInv
<1>1. CASE readMeterDefinitions /\ UNCHANGED texts
  <2>1. pc' \notin {"sent", "failed"}
    BY <1>1, ParserSendsNothing
  <2>2. influxBuf' = influxBuf /\ grafanaBuf' = grafanaBuf /\ messages' = messages
    BY <1>1 DEF texts
  <2>3. TextsWellFormed'
    BY <1>0, <2>1, <2>2 DEF TextsWellFormed
  <2>4. EnabledFieldsSent'
    BY <2>1 DEF EnabledFieldsSent
  <2>5. QED
    BY <1>0, <2>3, <2>4 DEF TextsInv
<1>2. CASE \E S \in SUBSET {i \in DOMAIN meters : ~meters[i].disabled} : Round(S)
  BY <1>0, <1>2, RoundTexts DEF TextsInv
<1>3. CASE UNCHANGED vars
  <2>1. /\ pc' = pc /\ influxBuf' = influxBuf /\ grafanaBuf' = grafanaBuf /\ messages' = messages
        /\ meters' = meters /\ meterTypes' = meterTypes
    BY <1>3 DEF vars, texts, configVars, parsed
  <2>2. TextsWellFormed'
    BY <1>0, <2>1 DEF TextsWellFormed
  <2>3. EnabledFieldsSent'
    <3>1. \A i : Fields(i)' = Fields(i)
      BY <2>1 DEF Fields, registers
    <3>2. \A i, k : EnabledNames(i, k)' = EnabledNames(i, k)
      BY <3>1 DEF EnabledNames
    <3>3. \A i : InGrafana(i)' = InGrafana(i) /\ InMessage(i)' = InMessage(i)
      BY <2>1 DEF InGrafana, LineOf, InMessage
    <3>4. QED
      BY <1>0, <2>1, <3>2, <3>3 DEF EnabledFieldsSent
  <2>4. QED
    BY <1>0, <2>2, <2>3 DEF TextsInv
<1>4. QED
  BY <1>1, <1>2, <1>3 DEF Next

-----------------------------------------------------------------------------
\* The inductive invariant: what a section has said so far, what is stored of
\* the sections before it, and which names are taken.
THEOREM Invariance == Spec => []IInv
  BY InitIInv, NextIInv, PTL DEF Spec

\* What the parser stores always has its type.
THEOREM TypeCorrect == Spec => []TypeOK
<1>1. IInv => TypeOK
  BY DEF IInv
<1>2. QED
  BY <1>1, Invariance, PTL

\* In a file of any length and order, what holds for a meter is what its own
\* section says, else its type, else the command line.
THEOREM MostSpecificHolds == Spec => []SettingsPrecedence
<1>1. IInv => SettingsPrecedence
  BY DEF IInv
<1>2. QED
  BY <1>1, Invariance, PTL

\* No two meters that are queried have the same name, though findMeter is
\* asked where name= stands and not at the end of the section.
THEOREM NamesAreUnique == Spec => []EnabledNamesUnique
<1>1. IInv => EnabledNamesUnique
  BY DEF IInv
<1>2. QED
  BY <1>1, Invariance, PTL

\* However many meters the file has, and whichever of them have fields, tags and
\* arrays: what influxAppendData and grafanaAppendData leave in the buffers is
\* line protocol, no call of influxdb_format_line is refused, and what
\* mqttSendData builds is JSON.
THEOREM TextsAreWellFormed == Spec => []TextsWellFormed
<1>1. TextsInv => TextsWellFormed
  BY DEF TextsInv
<1>2. QED
  BY <1>1, InitTexts, NextTexts, PTL DEF Spec

\* Of every meter that is queried Grafana and the broker get exactly the fields
\* that are enabled for them: the counters of the parser hide none.
THEOREM EnabledFieldsAreSent == Spec => []EnabledFieldsSent
<1>1. TextsInv => EnabledFieldsSent
  BY DEF TextsInv
<1>2. QED
  BY <1>1, InitTexts, NextTexts, PTL DEF Spec
=============================================================================
