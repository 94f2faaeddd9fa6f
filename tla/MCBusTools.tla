----------------------------- MODULE MCBusTools -----------------------------
(***************************************************************************)
(* Five slaves on a bus, with addresses of two digits and one byte: two    *)
(* that share the first digit, one with a letter after it, two of the same *)
(* identification number, two at the primary address 1 and three at the    *)
(* factory's, 0.                                                           *)
(***************************************************************************)
EXTENDS BusTools, TLC

Text(a, b, c, d) == (0 :> a) @@ (1 :> b) @@ (2 :> c) @@ (3 :> d)
House == {"gas", "heat", "letter", "water", "twin"}
HouseAddress == [s \in House |-> CASE s = "gas"    -> Text(1, 1, 0, 7)
                                   [] s = "heat"   -> Text(1, 9, 0, 4)
                                   [] s = "letter" -> Text(1, 12, 0, 4)
                                   [] s = "water"  -> Text(9, 3, 0, 7)
                                   [] s = "twin"   -> Text(9, 3, 0, 6)]
HouseFactory == [s \in House |-> CASE s = "gas" -> 1 [] s = "heat" -> 1
                                   [] OTHER -> 0]
HouseMasks == {Text(15, 15, 15, 15), Text(1, 15, 15, 15), Text(15, 9, 15, 15),
               Text(1, 12, 0, 4), Text(1, 1, 15, 15)}
=============================================================================
