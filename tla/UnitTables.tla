----------------------------- MODULE UnitTables -----------------------------
(***************************************************************************)
(* vif_table and fixed_table of mbus-protocol-aux.c and the functions that *)
(* bring a value to its unit with them.  A unit is its name and the power  *)
(* of ten a value is multiplied by; a duration is the name of the time     *)
(* span the value counts.  The quantity ("Energy", "Power") is left out.   *)
(***************************************************************************)
EXTENDS Integers, TLC

Unit(name, exponent) == [unit |-> name, exponent |-> exponent]

\* Consecutive codes whose exponents rise by one, from the first one's.
Scaled(codes, name, first) ==
    [c \in codes |-> Unit(name, first + c - (CHOOSE least \in codes : \A d \in codes : least <= d))]
Constant(codes, name) == [c \in codes |-> Unit(name, 0)]
Reserved(codes) == Constant(codes, "reserved")
\* Consecutive codes for consecutive time spans.
Spans == <<"second", "minute", "hour", "day", "month", "year">>
Times(first, n, from) == [c \in first..(first + n - 1) |-> Unit(Spans[from + c - first], 0)]
-----------------------------------------------------------------------------
\* Primary VIFs.  7B to 7D are not in the table.
EnergyVifs ==
    Scaled(\h0..\h7, "Wh", -3) @@ Scaled(\h8..\hF, "J", 0)
    @@ Scaled(\h10..\h17, "m^3", -6) @@ Scaled(\h18..\h1F, "kg", -3)
    @@ Times(\h20, 4, 1) @@ Times(\h24, 4, 1)
    @@ Scaled(\h28..\h2F, "W", -3) @@ Scaled(\h30..\h37, "J/h", 0)

FlowVifs ==
    Scaled(\h38..\h3F, "m^3/h", -6) @@ Scaled(\h40..\h47, "m^3/min", -7)
    @@ Scaled(\h48..\h4F, "m^3/s", -9) @@ Scaled(\h50..\h57, "kg/h", -3)

TemperatureVifs ==
    Scaled(\h58..\h5B, "deg C", -3) @@ Scaled(\h5C..\h5F, "deg C", -3)
    @@ Scaled(\h60..\h63, "K", -3) @@ Scaled(\h64..\h67, "deg C", -3)
    @@ Scaled(\h68..\h6B, "bar", -3)

OtherVifs ==
    Constant({\h6C, \h6D}, "time point") @@ Constant({\h6E}, "H.C.A.") @@ Reserved({\h6F})
    @@ Times(\h70, 4, 1) @@ Times(\h74, 4, 1)
    @@ Constant({\h78, \h79, \h7A, \h7E, \h7F}, "")

\* VIFE after FD, at 100 and above.
FdCounterVifs ==
    Scaled(\h100..\h103, "currency", -3) @@ Scaled(\h104..\h107, "currency", -3)
    @@ Constant(\h108..\h118, "") @@ Reserved({\h119, \h11F, \h123})
    @@ Constant({\h11A, \h11B, \h11C, \h11D, \h11E, \h120, \h121, \h122}, "")

FdDurationVifs ==
    Times(\h124, 6, 1) @@ Reserved({\h12A, \h12B}) @@ Times(\h12C, 4, 1)
    @@ Reserved({\h130}) @@ Times(\h131, 3, 2) @@ Times(\h134, 6, 1)
    @@ Constant({\h13A}, "") @@ Reserved(\h13B..\h13F)

FdElectricalVifs == Scaled(\h140..\h14F, "V", -9) @@ Scaled(\h150..\h15F, "A", -12)

FdOtherVifs ==
    Constant(\h160..\h167, "") @@ Times(\h168, 4, 3) @@ Times(\h16C, 4, 3)
    @@ Constant({\h170}, "") @@ Reserved(\h171..\h17F)

\* VIFE after FB, at 200 and above.
FbScaledVifs ==
    Scaled(\h200..\h201, "Wh", 5) @@ Reserved(\h202..\h207)
    @@ Scaled(\h208..\h209, "reserved", 8) @@ Reserved(\h20A..\h20F)
    @@ Scaled(\h210..\h211, "m^3", 2) @@ Reserved(\h212..\h217)
    @@ Scaled(\h218..\h219, "kg", 5) @@ Reserved(\h21A..\h220)
    @@ Scaled(\h221..\h221, "feet^3", -1) @@ Scaled(\h222..\h223, "gallon", -1)
    @@ Scaled(\h224..\h224, "gallon/min", -3) @@ Scaled(\h225..\h225, "gallon/min", 0)
    @@ Constant({\h226}, "gallon/h") @@ Reserved({\h227})
    @@ Scaled(\h228..\h229, "W", 5) @@ Reserved(\h22A..\h22F)
    @@ Scaled(\h230..\h231, "J", 8)

FbReservedVifs == Reserved(\h232..\h257) @@ Reserved(\h268..\h26F)

FbTemperatureVifs ==
    Scaled(\h258..\h25B, "deg F", -3) @@ Scaled(\h25C..\h25F, "deg F", -3)
    @@ Scaled(\h260..\h263, "deg F", -3) @@ Scaled(\h264..\h267, "deg F", -3)
    @@ Scaled(\h270..\h273, "deg F", -3) @@ Scaled(\h274..\h277, "deg C", -3)

\* The exponent of 279 is that of 278.
FbPowerVifs == Scaled(\h278..\h278, "W", -3) @@ Scaled(\h279..\h279, "W", -3)
               @@ Scaled(\h27A..\h27F, "W", -1)

vif_table == EnergyVifs @@ FlowVifs @@ TemperatureVifs @@ OtherVifs
             @@ FdCounterVifs @@ FdDurationVifs @@ FdElectricalVifs @@ FdOtherVifs
             @@ FbScaledVifs @@ FbReservedVifs @@ FbTemperatureVifs @@ FbPowerVifs

\* Data in the fixed format.  30 is not in the table.
fixed_table ==
    Scaled(\h2..\hA, "Wh", 0) @@ Scaled(\hB..\h13, "J", 3) @@ Constant(\h14..\h1C, "W")
    @@ Scaled(\h1D..\h25, "J/h", 3) @@ Scaled(\h26..\h2E, "m^3", -6)
    @@ Scaled(\h2F..\h2F, "m^3/h", -5) @@ Scaled(\h31..\h37, "m^3/h", -4)
    @@ Scaled(\h38..\h38, "deg C", -3) @@ Constant({\h39}, "H.C.A.")
    @@ Reserved(\h3A..\h3D) @@ Constant({\h3E, \h3F}, "")
-----------------------------------------------------------------------------
NoUnit == Unit("none", 0)      \* an error is returned instead of a value

mbus_vif_unit_normalize(code) == IF code \in DOMAIN vif_table THEN vif_table[code] ELSE NoUnit

\* The clock time and the date of the fixed format are not converted.
mbus_fixed_normalize(medium_unit) ==
    LET code == medium_unit % 64
    IN  IF code \in DOMAIN fixed_table THEN fixed_table[code] ELSE NoUnit

(***************************************************************************)
(* The factor a VIFE after any other VIF stands for, as a power of ten.    *)
(* The constants that 78 to 7B add are left out: they leave the unit.      *)
(***************************************************************************)
CorrectionFactor(vife) ==
    CASE vife % 128 \in \h70..\h77 -> (vife % 8) - 6
      [] vife % 128 = \h7D -> 3
      [] OTHER -> 0

Code_extended(byte) == byte
Code(byte) == byte % 128

mbus_vib_unit_normalize(vif, vife) ==
    CASE vif \in {\hFB, \hFD} /\ vife = <<>> -> NoUnit
      [] vif = \hFD /\ vife # <<>> -> mbus_vif_unit_normalize(Code(vife[1]) + \h100)
      [] vif = \hFB /\ vife # <<>> -> mbus_vif_unit_normalize(Code(vife[1]) + \h200)
      [] OTHER ->
            LET plain == IF vif % 128 = \h7C THEN Unit("custom", 0)
                         ELSE mbus_vif_unit_normalize(Code(vif))
            IN  IF vife = <<>> \/ plain = NoUnit THEN plain
                ELSE Unit(plain.unit, plain.exponent + CorrectionFactor(vife[1]))
=============================================================================
