------------------------------ MODULE Records -------------------------------
(***************************************************************************)
(* What the records of a telegram are worth, to its two readers: the       *)
(* daemon takes the text of mbus_data_record_decode, reads the number in   *)
(* front of it with strtod and leaves the unit to its configuration;       *)
(* mbus_parse_variable_record takes the number itself and the unit from    *)
(* the tables.  Data comes with its low byte first.  A float is opaque.    *)
(***************************************************************************)
EXTENDS MbusData, UnitTables, UnitTexts

Times256(bytes) ==
    LET value[n \in 0..Len(bytes)] ==
            IF n = 0 THEN 0 ELSE bytes[Len(bytes) + 1 - n] + 256 * value[n - 1]
    IN  value[Len(bytes)]

Inverted(bytes) == [i \in DOMAIN bytes |-> 255 - bytes[i]]
mbus_data_int_decode_unsigned(bytes) == Times256(bytes)
mbus_data_int_decode(bytes) ==
    IF Last(bytes) >= 128 THEN -Times256(Inverted(bytes)) - 1 ELSE Times256(bytes)

\* The digits of BCD data, the most significant one first, as in its "%X".
Nibbles(bytes) ==
    [i \in 1..(2 * Len(bytes)) |->
        LET b == bytes[Len(bytes) - ((i - 1) \div 2)]
        IN  IF i % 2 = 1 THEN b \div 16 ELSE b % 16]

Decimal(digits) ==
    LET value[n \in 0..Len(digits)] == IF n = 0 THEN 0 ELSE 10 * value[n - 1] + digits[n]
    IN  value[Len(digits)]

\* The F of a negative number counts as a zero; other digits above 9 count.
mbus_data_bcd_decode(bytes) ==
    LET digits == Nibbles(bytes)
        high == [i \in DOMAIN digits |->
                    IF i % 2 = 1 /\ digits[i] >= 10 THEN 0 ELSE digits[i]]
    IN  IF digits[1] = 15 THEN -Decimal(high) ELSE Decimal(high)

mbus_data_tm_decode(b) ==
    LET date(low, high) == [year |-> 2000 + (low \div 32) + 8 * (high \div 16),
                            month |-> high % 16, day |-> low % 32]
        never == [year |-> 1900, month |-> 1, day |-> 0]
    IN  CASE Len(b) = 6 -> IF b[2] >= 128 THEN never ELSE date(b[4], b[5])
          [] Len(b) = 4 -> IF b[1] >= 128 THEN never ELSE date(b[3], b[4])
          [] Len(b) = 2 -> date(b[1], b[2])
-----------------------------------------------------------------------------
Integer(n) == [kind |-> "integer", number |-> n]
Digits(ds) == [kind |-> "digits", digits |-> ds]
Characters(cs) == [kind |-> "characters", characters |-> cs]
Date(d) == [kind |-> "date", date |-> d]
Opaque(bytes) == [kind |-> "opaque", bytes |-> bytes]

DataField(r) == r.dif % 16
IsTimePoint(r) ==
    \/ r.vif % 128 = \h6D
    \/ r.vif = \hFD /\ r.vife[1] % 128 \in {\h30, \h70}

UnknownDif == Opaque(<<>>)

\* What both decoders tell apart, the BCD data excepted.
Decoded(r) ==
    CASE DataField(r) = 0 -> Characters(<<>>)
      [] DataField(r) = 2 /\ r.vif % 128 = \h6C -> Date(mbus_data_tm_decode(r.data))
      [] DataField(r) \in {4, 6} /\ IsTimePoint(r) -> Date(mbus_data_tm_decode(r.data))
      [] DataField(r) \in {5, 15} -> Opaque(r.data)
      [] DataField(r) = 8 -> UnknownDif
      [] DataField(r) = 13 -> Characters(Reverse(r.data))
      [] OTHER -> Integer(mbus_data_int_decode(r.data))

BcdFields == {9, 10, 11, 12, 14}

mbus_data_record_decode(r) ==
    IF DataField(r) \in BcdFields THEN Digits(Nibbles(r.data)) ELSE Decoded(r)

\* Data of type 8 is an error, and the record is dropped.
mbus_variable_value_decode(r) ==
    IF DataField(r) \in BcdFields THEN Integer(mbus_data_bcd_decode(r.data)) ELSE Decoded(r)

mbus_parse_variable_record(r) ==
    LET unit == IF r.dif \in {DIF_MANUFACTURER_SPECIFIC, DIF_MORE_RECORDS_FOLLOW} THEN Unit("", 0)
                ELSE mbus_vib_unit_normalize(r.vif, r.vife)
    IN  [value |-> mbus_variable_value_decode(r), unit |-> unit,
         dropped |-> DataField(r) = 8 \/ unit = NoUnit]
-----------------------------------------------------------------------------
(***************************************************************************)
(* strtod: the digits in front, and an exponent behind them; nothing is a  *)
(* zero.  whole says that the text ended there, else an error is logged.   *)
(***************************************************************************)
Number(n, whole) == [number |-> n, whole |-> whole]

FirstOther(ds, from) ==
    LET others == {i \in from..Len(ds) : ds[i] > 9}
    IN  IF others = {} THEN Len(ds) + 1 ELSE CHOOSE i \in others : \A j \in others : i <= j

\* The leading zeros are not printed: they cannot come before an exponent.
Printed(ds) == SubSeq(ds, FirstOther([i \in DOMAIN ds |-> IF ds[i] = 0 THEN 0 ELSE 10], 1), Len(ds))

StrtodDigits(text) ==
    LET ds == Printed(text)
        end == FirstOther(ds, 1)
        mantissa == Decimal(SubSeq(ds, 1, end - 1))
        second == IF end < Len(ds) THEN FirstOther(ds, end + 1) ELSE 0
    IN  IF end > 1 /\ end < Len(ds) /\ ds[end] = 14 /\ second > end + 1
        THEN Number(mantissa * 10 ^ Decimal(SubSeq(ds, end + 1, second - 1)), second = Len(ds) + 1)
        ELSE Number(mantissa, end = Len(ds) + 1)

strtod(text) ==
    CASE text.kind = "integer" -> Number(text.number, TRUE)
      [] text.kind = "digits" -> StrtodDigits(text.digits)
      [] text.kind = "characters" ->
            StrtodDigits([i \in DOMAIN text.characters |->
                             IF text.characters[i] \in 48..57 THEN text.characters[i] - 48 ELSE 10])
      [] text.kind = "date" -> Number(text.date.year, FALSE)

\* setRegisterValue sets the first register with the number of the record only.
SetRegister(registers, number) ==
    {k \in DOMAIN registers : registers[k] = number /\ \A j \in 1..(k - 1) : registers[j] # number}

\* registers[k] is the record number of register k; a register no record is for
\* keeps the zero it was reset to.
process_mbus_data_variable(registers, records) ==
    [k \in DOMAIN registers |->
        IF \E n \in DOMAIN records : k \in SetRegister(registers, n - 1)
        THEN mbus_data_record_decode(records[registers[k] + 1])
        ELSE Integer(0)]
=============================================================================
