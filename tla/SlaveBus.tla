------------------------------ MODULE SlaveBus ------------------------------
(***************************************************************************)
(* The M-Bus slaves and the two wires they share, seen from the master:    *)
(* which slaves a frame of the master is for, and what the answers of all  *)
(* of them look like at its receive function.  A secondary address is a    *)
(* function from positions to nibbles: the identification number, a digit  *)
(* a position, then bytes of two positions (manufacturer, version, medium).*)
(***************************************************************************)
EXTENDS Integers, FiniteSets

CONSTANTS Slaves,
          Address,       \* the secondary address of each
          Factory,       \* the primary address of each at first
          LastPosition,  \* of an address: 15
          IdLength,      \* positions of the identification number: 8
          MaxFaults

WILD == 15
Positions == 0..LastPosition

ASSUME SlaveAssumption ==
    /\ IsFiniteSet(Slaves)
    /\ LastPosition \in Nat /\ IdLength \in Positions /\ (LastPosition - IdLength) % 2 = 1
    /\ Address \in [Slaves -> [Positions -> 0..14]]
    /\ Factory \in [Slaves -> 0..250]
    /\ MaxFaults \in Nat

VARIABLES selected,   \* the slaves that answer at the network layer address
          primary,
          faults

busVars == <<selected, primary, faults>>

BusInit == /\ selected = {}
           /\ primary = Factory
           /\ faults = 0

\* A digit is wild by itself, a byte only as a whole.
Matches(data, s) ==
    \A p \in Positions :
        \/ data[p] = Address[s][p]
        \/ data[p] = WILD /\ p < IdLength
        \/ LET low == IF (p - IdLength) % 2 = 0 THEN p ELSE p - 1
           IN  p >= IdLength /\ data[low] = WILD /\ data[low + 1] = WILD

Selected(data) == {s \in Slaves : Matches(data, s)}
At(a) == {s \in Slaves : primary[s] = a}

(***************************************************************************)
(* What the slaves in S, answering at once, look like.  Acknowledgements   *)
(* are one byte, all alike: two of them may look like one, or leave        *)
(* something for mbus_purge_frames; telegrams of two slaves differ.        *)
(***************************************************************************)
Answers(S, kind) ==
    CASE S = {} -> {"timeout"}
      [] Cardinality(S) = 1 -> {kind}
      [] OTHER -> IF kind = "ack" THEN {"ack", "more", "invalid"} ELSE {"more", "invalid"}

(***************************************************************************)
(* The slaves in S are sent a frame they answer in the way of kind, those  *)
(* in deaf do not hear it (nor may one that is to forget its selection); r *)
(* is what the master gets.  Every slave that is deaf and every answer     *)
(* that is lost or damaged is a fault.                                     *)
(***************************************************************************)
Received(kind) == {kind, "more", "invalid", "timeout", "error", "unsent"}
Deaf(S) == {D \in SUBSET (S \cup selected) : faults + Cardinality(D) <= MaxFaults}
Exchange(S, kind, deaf, r) ==
    LET expected == Answers(S \ deaf, kind) IN
    /\ r \in expected \cup {"timeout", "invalid", "error", "unsent"}
    /\ r = "unsent" => deaf = {}
    /\ faults' = faults + Cardinality(deaf) + IF r \in expected THEN 0 ELSE 1
    /\ faults' <= MaxFaults

\* Who is selected after a selection that the slaves in deaf did not hear.
SelectedBy(data, deaf, r) ==
    IF r = "unsent" THEN selected ELSE (Selected(data) \ deaf) \cup (selected \cap deaf)
=============================================================================
