---------------------------- MODULE MCMeterCycle ----------------------------
(***************************************************************************)
(* Instances of MeterCycle.  The values are multiples of 8, so that the    *)
(* repeated halving of iavg is exact in a window of three readings.        *)
(***************************************************************************)
EXTENDS MeterCycle

\* A meter behind a gateway, a serial one, a virtual one derived from the first.
\* The gateway meter is in both schedules.
House == {"gas", "heat", "total"}
HouseFormula(m, v) == 8 - v["gas"]
HouseMembers == [s \in {"often", "rarely"} |->
                   IF s = "often" THEN {"gas", "total"} ELSE {"gas", "heat"}]
HouseMult == [m \in House |-> IF m = "heat" THEN 3 ELSE 2]
HouseProc == [m \in House |-> IF m = "gas" THEN "min" ELSE IF m = "heat" THEN "avg" ELSE "max"]
MixedMult == [m \in House |-> IF m = "gas" THEN 2 ELSE IF m = "heat" THEN 1 ELSE 0]
LastOnly == [m \in House |-> "last"]
TwoValues == {-8, 16}
OneValue == {8}
=============================================================================
