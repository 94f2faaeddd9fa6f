------------------------------ MODULE BusTools ------------------------------
(***************************************************************************)
(* The master's tools for the slaves of a bus: the scan of the secondary   *)
(* addresses (emmbus2influx --scan2 and mbus-serial-scan-secondary), the   *)
(* scan of the primary ones (--scan) and mbus-serial-set-address.          *)
(*                                                                         *)
(* The recursion of mbus_scan_2nd_address_range is the walk of one mask:   *)
(* the positions up to pos hold the digits its calls are at, those after   *)
(* it are as the user gave them in asked.  All slaves answer with variable *)
(* data.  What a tool has selected stays selected for the next one, unless *)
(* that one begins with init_slaves, which only some do.                   *)
(***************************************************************************)
EXTENDS SlaveBus, FiniteSetsExt

CONSTANTS Masks,           \* what a scan may be asked for
          MaxSearchRetry,  \* max_search_retry: 1
          MaxPrimary,      \* MBUS_MAX_PRIMARY_SLAVES: 250
          MaxTools         \* the tools that are run, one after the other

ASSUME ToolsAssumption ==
    /\ Masks \subseteq [Positions -> 0..WILD]
    /\ MaxSearchRetry \in Nat /\ MaxPrimary \in 1..250 /\ MaxTools \in Nat

VARIABLES pc,
          tools,              \* the number of tools started
          tries,              \* repetitions left
          asked,              \* the mask the user gave
          mask, pos,          \* of the secondary scan
          reports,            \* how often it has reported each slave: 0, 1, 2 or more
          address,            \* of the primary scan, or the new one to set
          answered,           \* where the primary scan has reported something
          old,                \* the primary address to change
          spoilt              \* a fault the tool cannot make good

scan2 == <<asked, mask, pos, reports>>
scan1 == <<address, answered>>
vars == <<busVars, pc, tools, tries, scan2, scan1, old, spoilt>>

NETWORK_LAYER == 253
AnyMask == [p \in Positions |-> WILD]

Init == /\ BusInit
        /\ pc = "idle" /\ tools = 0 /\ tries = 0
        /\ asked = AnyMask /\ mask = AnyMask /\ pos = 0
        /\ reports = [s \in Slaves |-> 0]
        /\ address = 0 /\ answered = {}
        /\ old = 0 /\ spoilt = FALSE

Start == /\ pc \in {"idle", "scanned", "pinged", "set"} /\ tools < MaxTools
         /\ tools' = tools + 1
         /\ spoilt' = FALSE

\* Two SND_NKE to the selected slaves, of which those in deaf hear neither.
init_slaves(deaf) ==
    /\ deaf \subseteq selected /\ selected' = deaf
    /\ faults' = faults + 2 * Cardinality(deaf) /\ faults' <= MaxFaults
    /\ UNCHANGED primary

\* One of them cannot be sent: the tool ends.
InitFails ==
    /\ Start
    /\ pc' = "idle"
    /\ faults < MaxFaults /\ faults' = faults + 1
    /\ selected' \in {selected, {}}
    /\ UNCHANGED <<primary, tries, scan2, scan1, old>>
-----------------------------------------------------------------------------
(***************************************************************************)
(* mbus_frame_select_secondary_pack takes the low half of the character    *)
(* minus '0': right for a digit, but a letter becomes another digit.       *)
(***************************************************************************)
mbus_frame_select_secondary_pack(m) ==
    [p \in Positions |-> IF p < IdLength /\ m[p] \in 10..14 THEN m[p] - 9 ELSE m[p]]

mbus_select_secondary_address(r) ==
    CASE r = "unsent"               -> "ERROR"
      [] r \in {"invalid", "more"}  -> "COLLISION"
      [] r = "ack"                  -> "SINGLE"
      [] r \in {"timeout", "error"} -> "NOTHING"

\* The answer to the data request of mbus_probe_secondary_address.
Identified(r) ==
    CASE r = "unsent"               -> "ERROR"
      [] r \in {"invalid", "more"}  -> "COLLISION"
      [] r = "data"                 -> "SINGLE"
      [] r \in {"timeout", "error"} -> "NOTHING"

\* The call for position p, with m as its mask so far: it probes at the first
\* wildcard from there, or at the last position.
Descend(p, m) ==
    LET q == Min({i \in p..LastPosition : m[i] = WILD \/ i = LastPosition})
    IN  /\ pos' = q
        /\ mask' = [m EXCEPT ![q] = IF @ = WILD THEN 0 ELSE @]
        /\ tries' = MaxSearchRetry
        /\ pc' = "select"

\* Go on with the next digit of the innermost call in P that has one left.
LastDigit_early == 8
LastDigit == 9
NextDigit_again(P) ==
    LET open == {p \in P : asked[p] = WILD /\ mask[p] < LastDigit}
        p == Max(open)
    IN  IF open = {}
        THEN pc' = "scanned" /\ UNCHANGED <<mask, pos, tries>>
        ELSE /\ pos' = p
             /\ mask' = [q \in Positions |->
                           IF q < p THEN mask[q] ELSE IF q = p /\ p = pos THEN mask[p] + 1
                           ELSE IF q = p THEN mask[p] ELSE asked[q]]
             /\ tries' = MaxSearchRetry
             /\ pc' = "select"
NextDigit(P) ==
    LET open == {p \in P : asked[p] = WILD /\ mask[p] < LastDigit}
        p == Max(open)
    IN  IF open = {}
        THEN pc' = "scanned" /\ UNCHANGED <<mask, pos, tries>>
        ELSE /\ pos' = p
             /\ mask' = [q \in Positions |->
                           IF q < p THEN mask[q] ELSE IF q = p THEN mask[p] + 1 ELSE asked[q]]
             /\ tries' = MaxSearchRetry
             /\ pc' = "select"

(***************************************************************************)
(* The outcome of a probe: several slaves are told apart by the next       *)
(* position, if there is one; an error ends the call for this position,    *)
(* and the call before it goes on.                                         *)
(***************************************************************************)
mbus_scan_2nd_address_range(ret) ==
    CASE ret = "COLLISION" /\ pos < LastPosition -> Descend(pos + 1, mask)
      [] ret = "ERROR" -> NextDigit(0..(pos - 1))
      [] OTHER -> NextDigit(0..pos)

\* mbus-serial-scan-secondary calls init_slaves, --scan2 does not.
StartScan2(m) ==
    /\ Start
    /\ asked' = m
    /\ Descend(0, m)
    /\ reports' = [s \in Slaves |-> 0]
    /\ (\E deaf \in SUBSET selected : init_slaves(deaf)) \/ UNCHANGED busVars
    /\ UNCHANGED <<scan1, old>>

\* The digits of the identification number that the user left open.
OpenDigits == {p \in 0..(IdLength - 1) : asked[p] = WILD}

\* A fault is made good by the retry, and one that looks like a collision by
\* the next digit of the identification number that is open.
MadeGood(ret) ==
    \/ ret = "NOTHING" /\ pc = "select" /\ tries > 0
    \/ ret = "COLLISION" /\ \E p \in OpenDigits : p > pos
Spoilt(ret) == spoilt' = (spoilt \/ (faults' > faults /\ ~MadeGood(ret)))

Retried(ret) == ret = "NOTHING" /\ tries > 0

\* The first half of mbus_probe_secondary_address.
Select ==
    /\ pc = "select"
    /\ \E r \in Received("ack"), deaf \in Deaf(Selected(mbus_frame_select_secondary_pack(mask))) :
        LET data == mbus_frame_select_secondary_pack(mask)
            ret == mbus_select_secondary_address(r)
        IN  /\ Exchange(Selected(data), "ack", deaf, r)
            /\ selected' = SelectedBy(data, deaf, r)
            /\ Spoilt(ret)
            /\ CASE ret = "SINGLE" -> pc' = "request" /\ UNCHANGED <<mask, pos, tries>>
                 [] Retried(ret) -> tries' = tries - 1 /\ UNCHANGED <<pc, mask, pos>>
                 [] OTHER -> mbus_scan_2nd_address_range(ret)
    /\ UNCHANGED <<primary, tools, asked, reports, scan1, old>>

\* The second half: the request shows the address, or that more are selected.
Request ==
    /\ pc = "request"
    /\ \E r \in Received("data"), deaf \in Deaf(selected) :
        LET ret == Identified(r) IN
        /\ Exchange(selected, "data", deaf, r)
        /\ reports' = [s \in Slaves |->
                         IF ret = "SINGLE" /\ s \in selected \ deaf /\ reports[s] < 2
                         THEN reports[s] + 1 ELSE reports[s]]
        /\ Spoilt(ret)
        /\ mbus_scan_2nd_address_range(ret)
    /\ UNCHANGED <<selected, primary, tools, asked, scan1, old>>
-----------------------------------------------------------------------------
(***************************************************************************)
(* emmbus2influx --scan: each primary address is pinged, again if nothing  *)
(* comes; an acknowledgement, or what looks like several, is reported.     *)
(* (The registers shown of a slave that was found are left out.)           *)
(***************************************************************************)
StartScan1 ==
    /\ Start
    /\ address' = 1 /\ answered' = {}
    /\ tries' = MaxSearchRetry
    /\ pc' = "ping"
    /\ UNCHANGED <<busVars, scan2, old>>

mbus_ping_address ==
    /\ pc = "ping"
    /\ \E r \in Received("ack"), deaf \in Deaf(At(address)) :
        /\ Exchange(At(address), "ack", deaf, r)
        /\ IF r = "timeout" /\ tries > 0
           THEN /\ tries' = tries - 1
                /\ UNCHANGED <<pc, address, answered, spoilt>>
           ELSE /\ tries' = MaxSearchRetry
                /\ answered' = IF r \in {"ack", "more", "invalid"}
                               THEN answered \cup {address} ELSE answered
                /\ spoilt' = (spoilt \/ faults' > faults)
                /\ IF address < MaxPrimary
                   THEN address' = address + 1 /\ UNCHANGED pc
                   ELSE pc' = "pinged" /\ UNCHANGED address
    /\ UNCHANGED <<selected, primary, tools, scan2, old>>
-----------------------------------------------------------------------------
(***************************************************************************)
(* mbus-serial-set-address: after init_slaves the new address is pinged,   *)
(* and only silence lets the tool go on, select the slave if it was given  *)
(* by its secondary address, and send it the new one.                      *)
(***************************************************************************)
\* A slave given by its secondary address is the one that is selected.
StartSet(o, m, a) ==
    /\ Start
    /\ old' = o /\ asked' = m /\ address' = a
    /\ pc' = "verify"
    /\ \E deaf \in SUBSET selected : init_slaves(deaf)
    /\ UNCHANGED <<tries, mask, pos, reports, answered>>

Verified_unless(r) == r \notin {"ack", "unsent"}
Verified(r) == r = "timeout"

Verify ==
    /\ pc = "verify"
    /\ \E r \in Received("ack"), deaf \in Deaf(At(address)) :
        /\ Exchange(At(address), "ack", deaf, r)
        /\ spoilt' = (faults' > faults)
        /\ pc' = IF ~Verified(r) THEN "set" ELSE IF old = NETWORK_LAYER THEN "choose" ELSE "change"
    /\ UNCHANGED <<selected, primary, tools, tries, scan2, scan1, old>>

Choose ==
    /\ pc = "choose"
    /\ \E r \in Received("ack"), deaf \in Deaf(Selected(mbus_frame_select_secondary_pack(asked))) :
        LET data == mbus_frame_select_secondary_pack(asked) IN
        /\ Exchange(Selected(data), "ack", deaf, r)
        /\ selected' = SelectedBy(data, deaf, r)
        /\ pc' = IF mbus_select_secondary_address(r) = "SINGLE" THEN "change" ELSE "set"
    /\ UNCHANGED <<primary, tools, tries, scan2, scan1, old, spoilt>>

\* Whatever the answer, the slaves that heard the frame have changed.
mbus_set_primary_address ==
    /\ pc = "change"
    /\ LET to == IF old = NETWORK_LAYER THEN selected ELSE At(old) IN
       \E r \in Received("ack"), deaf \in Deaf(to) :
        /\ Exchange(to, "ack", deaf, r)
        /\ primary' = [s \in Slaves |->
                         IF s \in to \ deaf /\ r # "unsent" THEN address ELSE primary[s]]
    /\ pc' = "set"
    /\ UNCHANGED <<selected, tools, tries, scan2, scan1, old, spoilt>>
-----------------------------------------------------------------------------
Scan2 == Select \/ Request
SetAddress == Verify \/ Choose \/ mbus_set_primary_address

Next == \/ InitFails
        \/ \E m \in Masks : StartScan2(m)
        \/ Select
        \/ Request
        \/ StartScan1
        \/ mbus_ping_address
        \/ \E o, a \in 0..MaxPrimary : StartSet(o, AnyMask, a)
        \/ \E m \in Masks, a \in 0..MaxPrimary : StartSet(NETWORK_LAYER, m, a)
        \/ Verify
        \/ Choose
        \/ mbus_set_primary_address

Spec == Init /\ [][Next]_vars

\* A tool runs until it ends: every receive returns, with a frame or without.
FairSpec == Spec /\ WF_vars(Scan2 \/ mbus_ping_address \/ SetAddress)
-----------------------------------------------------------------------------
TypeOK == /\ pc \in {"idle", "select", "request", "scanned", "ping", "pinged",
                     "verify", "choose", "change", "set"}
          /\ selected \subseteq Slaves
          /\ primary \in [Slaves -> 0..250]
          /\ faults \in 0..MaxFaults
          /\ tools \in 0..MaxTools
          /\ tries \in 0..MaxSearchRetry
          /\ asked \in [Positions -> 0..WILD] /\ mask \in [Positions -> 0..WILD]
          /\ pos \in Positions
          /\ reports \in [Slaves -> 0..2]
          /\ address \in 0..MaxPrimary
          /\ answered \subseteq 1..MaxPrimary
          /\ old \in 0..MaxPrimary \cup {NETWORK_LAYER}
          /\ spoilt \in BOOLEAN

(***************************************************************************)
(* A scan finds every slave: by its secondary address exactly once if it   *)
(* is one the scan was asked for, has decimal digits and an identification *)
(* number of its own, however acknowledgements overlap; by its primary     *)
(* address if that is scanned.  One lost answer per probe or a damaged one *)
(* above the last open digit does not change that.  (A mask that leaves    *)
(* open only bytes behind the identification number finds nothing: the     *)
(* scan tries each of their nibbles, and no slave knows a byte half wild.) *)
(***************************************************************************)
Decimal(s) == \A p \in 0..(IdLength - 1) : Address[s][p] <= 9
SameId(s, t) == \A p \in 0..(IdLength - 1) : Address[s][p] = Address[t][p]
Searched == OpenDigits # {} \/ \A p \in Positions : asked[p] # WILD
ToBeFound == {s \in Slaves : /\ Searched /\ Decimal(s) /\ Matches(asked, s)
                             /\ \A t \in Slaves \ {s} : ~SameId(s, t)}
EveryDeviceFound ==
    /\ pc = "scanned" /\ ~spoilt => \A s \in ToBeFound : reports[s] = 1
    /\ pc = "pinged" /\ ~spoilt =>
          answered = {a \in 1..MaxPrimary : At(a) # {}}

(***************************************************************************)
(* Setting an address does not bring two slaves together that had their    *)
(* own: a slave gets no address another one keeps, unless the answer to    *)
(* the ping of the new address was lost.                                   *)
(***************************************************************************)
NewAddressWasFree ==
    [][pc = "change" /\ ~spoilt =>
         \A s, t \in Slaves : primary'[s] # primary[s] /\ primary'[t] = primary[t]
                              => primary'[s] # primary'[t]]_vars

\* Every tool ends, a scan of colliding slaves too.
ToolEnds == []<>(pc \in {"idle", "scanned", "pinged", "set"})
-----------------------------------------------------------------------------
(***************************************************************************)
(* The inductive invariant.  The masks of a scan are in the order of their *)
(* open digits: a slave whose digits come before those of the mask has     *)
(* been reported, one whose digits come after them is still ahead.         *)
(***************************************************************************)
Walking == pc \in {"select", "request"}

MaskOfWalk ==
    Walking => \A p \in Positions : IF asked[p] = WILD /\ p <= pos THEN mask[p] \in 0..LastDigit
                                    ELSE mask[p] = asked[p]

Passed(s) == \E q \in OpenDigits : /\ q <= pos /\ Address[s][q] < mask[q]
                                   /\ \A p \in OpenDigits : p < q => Address[s][p] = mask[p]
Current(s) == \A p \in OpenDigits : p <= pos => Address[s][p] = mask[p]

\* Behind its identification number there is nothing left to tell a slave by.
ReportedIfPassed ==
    Walking /\ ~spoilt =>
        \A s \in ToBeFound :
            /\ reports[s] = IF Passed(s) THEN 1 ELSE 0
            /\ Current(s) => IF OpenDigits = {} THEN pos = LastPosition ELSE pos < IdLength

SelectedIsMasked ==
    pc = "request" /\ ~spoilt =>
        selected # {} /\ selected = Selected(mbus_frame_select_secondary_pack(mask))

PingedSoFar ==
    pc = "ping" => /\ address >= 1
                   /\ ~spoilt => answered = {a \in 1..(address - 1) : At(a) # {}}

NewAddressIsFree == pc \in {"choose", "change"} /\ ~spoilt => At(address) = {}

IInv == /\ TypeOK /\ MaskOfWalk /\ ReportedIfPassed /\ SelectedIsMasked
        /\ PingedSoFar /\ NewAddressIsFree /\ EveryDeviceFound
=============================================================================
