----------------------------- MODULE UnitTexts ------------------------------
(***************************************************************************)
(* The texts mbus-protocol.c gives the units of a telegram.  A text is its *)
(* prefix and the unit that follows it.                                    *)
(***************************************************************************)
EXTENDS Integers

Prefix(digits, symbol) == [digits |-> digits, symbol |-> symbol]
Plain == Prefix(0, "")
\* "10 k": the number is given by its power of ten.
mbus_unit_prefix(exp) ==
    CASE exp \in {0, 1, 2} -> Prefix(exp, "")
      [] exp \in {3, 4, 5} -> Prefix(exp - 3, "k")
      [] exp = -3 -> Prefix(0, "m")
      [] exp = -6 -> Prefix(0, "my")
      [] exp = 6 -> Prefix(0, "M")
      [] exp = 9 -> Prefix(0, "G")
      [] OTHER -> Prefix(exp, "")

Text(prefix, unit) == [prefix |-> prefix, unit |-> unit]
Word(unit) == Text(Plain, unit)
TextReserved == Word("reserved")
Unknown == Word("unknown")

mbus_unit_duration_nn(nn) == Word(<<"second", "minute", "hour", "day">>[nn + 1])
mbus_unit_duration_pp(pp) == Word(<<"hour", "day", "month", "year">>[pp + 1])
-----------------------------------------------------------------------------
EnergyText(v, n) ==
    CASE v \in \h0..\h7 -> Text(mbus_unit_prefix(n - 3), "Wh")
      [] v \in \h8..\hF -> Text(mbus_unit_prefix(n), "J")
      [] v \in \h10..\h17 -> Text(mbus_unit_prefix(n - 6), "m^3")
      [] v \in \h18..\h1F -> Text(mbus_unit_prefix(n - 3), "kg")
      [] v \in \h28..\h2F -> Text(mbus_unit_prefix(n - 3), "W")
      [] v \in \h30..\h37 -> Text(mbus_unit_prefix(n), "J/h")

FlowText(v, n) ==
    CASE v \in \h38..\h3F -> Text(mbus_unit_prefix(n - 6), "m^3/h")
      [] v \in \h40..\h47 -> Text(mbus_unit_prefix(n - 7), "m^3/min")
      [] v \in \h48..\h4F -> Text(mbus_unit_prefix(n - 9), "m^3/s")
      [] v \in \h50..\h57 -> Text(mbus_unit_prefix(n - 3), "kg/h")

TemperatureText(v, n) ==
    CASE v \in \h58..\h5F \cup \h60..\h67 -> Text(mbus_unit_prefix(n - 3), "deg C")
      [] v \in \h68..\h6B -> Text(mbus_unit_prefix(n - 3), "bar")

OtherText(v) ==
    CASE v \in {\h6C, \h6D} -> Word("time point")
      [] v = \h6E -> Word("H.C.A.")
      [] v = \h6F -> TextReserved
      [] v = \h7C -> Word("custom")
      [] v \in {\h78, \h7A, \h7F} -> Word("")
      [] OTHER -> Unknown

mbus_vif_unit_lookup(vif) ==
    LET v == vif % 128
    IN  CASE v \in \h0..\h1F \cup \h28..\h37 -> EnergyText(v, v % 8)
          [] v \in \h38..\h57 -> FlowText(v, v % 8)
          [] v \in \h58..\h6B -> TemperatureText(v, v % 4)
          [] v \in \h20..\h27 \cup \h70..\h77 -> mbus_unit_duration_nn(v % 4)
          [] OTHER -> OtherText(v)

\* The energy, volume and power of VIFE 0 and 1, and so on, differ by "0.1".
Tenth(v) == IF v % 2 = 0 THEN -1 ELSE 0
FbScaledText(v) ==
    CASE v \in {\h0, \h1} -> Text(Prefix(Tenth(v), "M"), "Wh")
      [] v \in {\h8, \h9} -> Text(Prefix(Tenth(v), "G"), "J")
      [] v \in {\h10, \h11} -> Text(mbus_unit_prefix((v % 2) + 2), "m^3")
      [] v \in {\h18, \h19} -> Text(mbus_unit_prefix((v % 2) + 2), "t")
      [] v = \h21 -> Text(Prefix(-1, ""), "feet^3")
      [] v \in {\h22, \h23} -> Text(Prefix(Tenth(v), ""), "gallon")
      [] v = \h24 -> Text(Prefix(-3, ""), "gallon/min")
      [] v = \h25 -> Word("gallon/min")
      [] v = \h26 -> Word("gallon/h")
      [] v \in {\h28, \h29} -> Text(Prefix(Tenth(v), "M"), "W")
      [] v \in {\h30, \h31} -> Text(Prefix(Tenth(v), "G"), "J/h")
      [] v \in {\h50, \h51} -> Unknown
      [] OTHER -> TextReserved

mbus_vib_unit_lookup_fb(vife) ==
    LET v == vife % 128
    IN  CASE v <= \h57 \/ v \in \h68..\h6F -> FbScaledText(v)
          [] v \in \h58..\h67 \cup \h70..\h73 -> Text(mbus_unit_prefix((v % 4) - 3), "deg F")
          [] v \in \h74..\h77 -> Text(mbus_unit_prefix((v % 4) - 3), "deg C")
          [] v >= \h78 -> Text(mbus_unit_prefix((v % 8) - 3), "W")

FdCounterText(v) ==
    CASE v <= \h7 -> Text(mbus_unit_prefix((v % 4) - 3), "currency")
      [] v \in {\h19, \h1F, \h23} -> TextReserved
      [] OTHER -> Word("")

FdDurationText(v) ==
    CASE v \in \h24..\h27 \cup \h2C..\h2F \cup \h31..\h37 -> mbus_unit_duration_nn(v % 4)
      [] v \in {\h28, \h38} -> Word("month")
      [] v \in {\h29, \h39} -> Word("year")
      [] v = \h30 -> Word("time point")
      [] v = \h3A -> Word("")
      [] v \in {\h2A, \h2B} \cup \h3B..\h3F -> TextReserved

FdElectricalText(v) ==
    IF v <= \h4F THEN Text(mbus_unit_prefix((v % 16) - 9), "V")
    ELSE Text(mbus_unit_prefix((v % 16) - 12), "A")

mbus_vib_unit_lookup_fd(vife) ==
    LET v == vife % 128
    IN  CASE v <= \h23 -> FdCounterText(v)
          [] v \in \h24..\h3F -> FdDurationText(v)
          [] v \in \h40..\h5F -> FdElectricalText(v)
          [] v \in \h60..\h67 \cup {\h70} -> Word("")
          [] v \in \h68..\h6F -> mbus_unit_duration_pp(v % 4)
          [] v > \h70 -> TextReserved

mbus_vib_unit_lookup(vif, vife) ==
    CASE vif \in {\hFB, \hFD} /\ vife = <<>> -> Unknown
      [] vif = \hFB /\ vife # <<>> -> mbus_vib_unit_lookup_fb(vife[1])
      [] vif = \hFD /\ vife # <<>> -> mbus_vib_unit_lookup_fd(vife[1])
      [] vif = \hFC /\ vife # <<>> /\ vife[1] % 128 \in \h70..\h77 ->
            Text(mbus_unit_prefix((vife[1] % 8) - 6), "custom")
      [] OTHER -> mbus_vif_unit_lookup(vif)
-----------------------------------------------------------------------------
\* "10 kWh": three codes to a letter.
Series(v, first, symbols, unit) ==
    Text(Prefix((v - first) % 3, symbols[((v - first) \div 3) + 1]), unit)

FixedEnergyText(v) ==
    CASE v \in \h2..\hA -> Series(v, \h2, <<"", "k", "M">>, "Wh")
      [] v = \hD -> Text(Prefix(0, "M"), "J")
      [] v = \hE -> Text(Prefix(2, "k"), "J")
      [] v \in {\hB, \hC} \cup \hF..\h13 -> Series(v, \hB, <<"k", "M", "G">>, "J")
      [] v \in \h14..\h1C -> Series(v, \h14, <<"", "k", "M">>, "W")

FixedFlowText(v) ==
    CASE v \in \h1D..\h25 -> Series(v, \h1D, <<"k", "M", "G">>, "J/h")
      [] v \in \h26..\h2B -> Series(v, \h26, <<"m", "">>, "l")
      [] v \in \h2C..\h2E -> Series(v, \h2C, <<"">>, "m^3")
      [] v \in \h2F..\h34 -> Series(v, \h2F, <<"m", "">>, "l/h")
      [] v \in \h35..\h37 -> Series(v, \h35, <<"">>, "m^3/h")

mbus_data_fixed_unit(medium_unit_byte) ==
    LET v == medium_unit_byte % 64
    IN  CASE v \in {0, 1} -> Word("time")
          [] v \in \h2..\h1C -> FixedEnergyText(v)
          [] v \in \h1D..\h37 -> FixedFlowText(v)
          [] v = \h38 -> Text(Prefix(-3, ""), "deg C")
          [] v = \h39 -> Word("H.C.A.")
          [] v \in \h3A..\h3D -> TextReserved
          [] v \in {\h3E, \h3F} -> Word("")
=============================================================================
