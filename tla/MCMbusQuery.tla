---------------------------- MODULE MCMbusQuery ----------------------------
(***************************************************************************)
(* Instances of MbusQuery: two meters share a gateway, others the serial   *)
(* port.                                                                   *)
(***************************************************************************)
EXTENDS MbusQuery

HouseLines == [m \in Meters |-> IF m \in {"gas", "water"} THEN "gateway" ELSE SerialPort]
GatewayLines == [m \in Meters |-> "gateway"]
=============================================================================
