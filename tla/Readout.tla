------------------------------ MODULE Readout -------------------------------
(***************************************************************************)
(* The telegrams that come over a FrameLink and their two readers: what    *)
(* the records say in the end.                                             *)
(***************************************************************************)
EXTENDS FrameLink, Records

CONSTANTS Registers      \* the record numbers of the registers of the meter

ASSUME RegistersAssumption == Registers \in Seq(Nat)

Accepted == IF pc = "done" /\ retval = 0 THEN frames ELSE <<>>
ParsedOf(f) == mbus_frame_data_parse(f, 0)
VariableFrames == {f \in Range(Accepted) : mbus_frame_data_type(f) = "variable" /\ ParsedOf(f).code = 0}
FixedFrames == {f \in Range(Accepted) : mbus_frame_data_type(f) = "fixed"}
RecordsOf(f) == ParsedOf(f).records

(***************************************************************************)
(* mbus_data_variable_parse reads beyond the data of a frame before it     *)
(* checks its position.  What it accepts does not depend on what is there, *)
(* at any place the data may end.  (A length field of FB and above is none *)
(* of the standard's; the parser skips it.)                                *)
(***************************************************************************)
StaleBytesUnused ==
    pc = "process" /\ mbus_frame_data_type(frame) = "variable" =>
        \A d \in Prefixes(frame.data), tail \in StaleBytes :
            tail < 251 => mbus_data_variable_parse(d, tail) = mbus_data_variable_parse(d, 0)

(***************************************************************************)
(* The numbers in the registers are those the bytes stand for, by the      *)
(* definition of two's complement and of decimal digits, and the other     *)
(* reader of the library has the same ones, although one goes over a text  *)
(* in hexadecimal.  A negative BCD number is a zero to the daemon, which   *)
(* logs an error then.                                                     *)
(***************************************************************************)
Power256(n) == LET power[k \in 0..n] == IF k = 0 THEN 1 ELSE 256 * power[k - 1]
               IN  power[n]
TwosComplement(b) ==
    IF Last(b) < 128 THEN Times256(b) ELSE Times256(b) - Power256(Len(b))
IsNumber(r) == mbus_variable_value_decode(r).kind = "integer" /\ Len(r.data) <= 3
IsDecimal(r) == \A i \in 1..(2 * Len(r.data)) : Nibbles(r.data)[i] <= 9
Meant(r) == IF DataField(r) \in BcdFields THEN Decimal(Nibbles(r.data)) ELSE TwosComplement(r.data)

\* The registers that are the first ones of their record number.
Named(k, records) ==
    /\ Registers[k] < Len(records)
    /\ \A j \in 1..(k - 1) : Registers[j] # Registers[k]

NumbersExact ==
    \A f \in VariableFrames :
        LET records == RecordsOf(f)
            values == process_mbus_data_variable(Registers, records)
        IN  \A k \in DOMAIN Registers :
                Named(k, records) =>
                    LET r == records[Registers[k] + 1] IN
                    IsNumber(r) =>
                        IF DataField(r) \in BcdFields /\ ~IsDecimal(r)
                        THEN Nibbles(r.data)[1] = 15 => strtod(values[k]) = Number(0, FALSE)
                        ELSE /\ strtod(values[k]) = Number(Meant(r), TRUE)
                             /\ mbus_parse_variable_record(r).value = Integer(Meant(r))

(***************************************************************************)
(* How the texts of the units are read: a prefix is a power of ten, a unit *)
(* may be a multiple of another one, a difference of temperatures is the   *)
(* same in K.                                                              *)
(***************************************************************************)
Symbols == [s \in {"", "m", "my", "k", "M", "G"} |->
               CASE s = "" -> 0 [] s = "m" -> -3 [] s = "my" -> -6
                 [] s = "k" -> 3 [] s = "M" -> 6 [] s = "G" -> 9]
Derived(unit) ==
    CASE unit = "t" -> [unit |-> "kg", exponent |-> 3]
      [] unit = "l" -> [unit |-> "m^3", exponent |-> -3]
      [] unit = "l/h" -> [unit |-> "m^3/h", exponent |-> -3]
      [] OTHER -> [unit |-> unit, exponent |-> 0]

Meaning(text) ==
    LET base == Derived(text.unit)
    IN  [unit |-> base.unit,
         exponent |-> base.exponent + text.prefix.digits + Symbols[text.prefix.symbol]]

(***************************************************************************)
(* The two tables of the library give every code the same unit and power   *)
(* of ten, apart from the codes listed here.                               *)
(***************************************************************************)
\* Known to one of the tables only.
OneTable == {<<\h79>>, <<\h7E>>, <<\hFB, \h50>>, <<\hFB, \h51>>, <<\hFD, \h30>>}
\* Energy of FB 08 and power of FB 30: "reserved" and J for GJ and GJ/h; the
\* exponent of FB 79 is that of FB 78.
Misprints == {<<\hFB, \h8>>, <<\hFB, \h9>>, <<\hFB, \h30>>, <<\hFB, \h31>>, <<\hFB, \h79>>}
\* Fixed data: 0D and 0E are swapped in the text; the powers 15 to 1C have no
\* exponent, 2F has the one of 30 and 30 is missing in the table; no times.
FixedMisprints == {0, 1, \hD, \hE} \cup (\h15..\h1C) \cup {\h2F, \h30}

Kelvin(u) == IF u.unit = "K" THEN Unit("deg C", u.exponent) ELSE u
SameUnit(table, text) ==
    IF table = NoUnit THEN text = Unknown ELSE Kelvin(table) = Meaning(text)

\* The correction extensions are in one of the tables only, except for the
\* prefixes 70 to 77 of a unit in text form.
Corrected(r) == /\ r.vife # <<>>
                /\ \/ r.vif \notin {\hFB, \hFC, \hFD}
                   \/ r.vif = \hFC /\ r.vife[1] % 128 = \h7D
VifCode(r) == IF r.vif \in {\hFB, \hFD} /\ r.vife # <<>> THEN <<r.vif, r.vife[1] % 128>>
              ELSE <<r.vif % 128>>

\* The unit and the power of ten of every record's value are the same in the
\* table for numbers as in the texts, for uncorrected codes not listed above.
UnitsAgree ==
    /\ \A f \in VariableFrames : \A r \in Range(RecordsOf(f)) :
         Corrected(r) \/ VifCode(r) \in OneTable \cup Misprints
         \/ SameUnit(mbus_vib_unit_normalize(r.vif, r.vife), mbus_vib_unit_lookup(r.vif, r.vife))
    /\ \A f \in FixedFrames :
         LET d == ParsedOf(f) IN
         \A byte \in {d.cnt1_type, d.cnt2_type} :
             byte % 64 \in FixedMisprints
             \/ SameUnit(mbus_fixed_normalize(byte), mbus_data_fixed_unit(byte))
=============================================================================
