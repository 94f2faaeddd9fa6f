---------------------------- MODULE MCConfigLines ----------------------------
(***************************************************************************)
(* Instances of ConfigLines: files of a few lines with one type and two    *)
(* meter names, registers and formulas with and without an array, an       *)
(* option of their own, and a formula of the same name and array as a      *)
(* register, so that an array published over MQTT has two elements.        *)
(***************************************************************************)
EXTENDS ConfigLines

Field3 == {"influx", "grafana", "mqtt"}
NoOptions == [k \in Field3 |-> Unset]
Off(k) == [NoOptions EXCEPT ![k] = 0]
On(k) == [NoOptions EXCEPT ![k] = 1]
Registered(n, a, o) == [name |-> n, formulaOnly |-> FALSE, array |-> a, options |-> o]
Computed(n, a, o) == [name |-> n, formulaOnly |-> TRUE, array |-> a, options |-> o]

FileRegisters == {Registered("volt", "phases", NoOptions), Registered("kwh", NoArray, Off("mqtt"))}
FileFormulas == {Computed("volt", "phases", Off("grafana")), Computed("sum", NoArray, On("mqtt"))}
=============================================================================
