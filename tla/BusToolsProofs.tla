--------------------------- MODULE BusToolsProofs ---------------------------
(***************************************************************************)
(* Theorems about the scans and the setting of an address, for every set   *)
(* of slaves, every length of an address and every mask: the inductive     *)
(* invariant of BusTools and what it implies.                              *)
(***************************************************************************)
EXTENDS BusTools, FiniteSetTheorems, TLAPS

USE SlaveAssumption, ToolsAssumption

-----------------------------------------------------------------------------
(***************************************************************************)
(* Every set of naturals has a least element, so that Min and Max choose   *)
(* something.                                                              *)
(***************************************************************************)

\* The order of the naturals is well founded.
LEMMA LeastNatural ==
    ASSUME NEW T \in SUBSET Nat, T # {}
    PROVE  \E x \in T : \A y \in T : x <= y
<1> DEFINE R == {ss \in Nat \X Nat : ss[1] < ss[2]}
<1>1. IsWellFoundedOn(R, Nat)
  BY NatLessThanWellFounded DEF OpToRel
<1>2. \A x, y \in Nat : y < x => <<y, x>> \in R
  OBVIOUS
<1> HIDE DEF R
<1>3. PICK x \in T : \A y \in T : ~(<<y, x>> \in R)
  BY <1>1, WFMin, Zenon
<1>4. \A y \in T : ~(y < x)
  BY <1>2, <1>3
<1>5. QED
  BY <1>4

\* The least element of a set of positions.
LEMMA MinOf ==
    ASSUME NEW T \in SUBSET Nat, T # {}
    PROVE  Min(T) \in T /\ \A y \in T : Min(T) <= y
<1>1. \E x \in T : \A y \in T : x <= y
  BY LeastNatural
<1>2. QED
  BY <1>1 DEF Min

\* The greatest element of a set of positions: the least bound is in the set.
LEMMA MaxOf ==
    ASSUME NEW n \in Nat, NEW T \in SUBSET (0..n), T # {}
    PROVE  Max(T) \in T /\ \A y \in T : Max(T) >= y
<1> DEFINE B == {k \in 0..n : \A y \in T : y <= k}
<1>1. n \in B /\ B \in SUBSET Nat
  OBVIOUS
<1>2. PICK k \in B : \A j \in B : k <= j
  BY <1>1, LeastNatural
<1>3. k \in T
  <2> SUFFICES ASSUME k \notin T PROVE FALSE
    OBVIOUS
  <2>1. k \in 0..n /\ \A y \in T : y \in 0..n /\ y <= k /\ y # k
    BY <1>2
  <2>2. \A y \in T : y <= k - 1
    BY <2>1
  <2>3. PICK y : y \in 0..n /\ y <= k - 1
    <3>1. PICK y : y \in T
      OBVIOUS
    <3>2. y \in 0..n /\ y <= k - 1
      BY <2>1, <2>2, <3>1, Zenon
    <3>3. QED
      BY <3>2, Zenon
  <2>4. k - 1 \in 0..n
    BY <2>1, <2>3
  <2>5. k - 1 \in B
    BY <2>2, <2>4
  <2>6. k <= k - 1
    BY <1>2, <2>5
  <2>7. QED
    BY <2>1, <2>6
<1>4. \E x \in T : \A y \in T : x >= y
  BY <1>2, <1>3
<1>5. QED
  BY <1>4 DEF Max

-----------------------------------------------------------------------------
(***************************************************************************)
(* What the master hears.                                                  *)
(***************************************************************************)

\* Faults are counted and never taken back.
LEMMA FaultsType ==
    ASSUME TypeOK, NEW S \in SUBSET Slaves, NEW kind, NEW deaf \in Deaf(S), NEW r,
           Exchange(S, kind, deaf, r)
    PROVE  /\ deaf \subseteq Slaves /\ IsFiniteSet(deaf) /\ Cardinality(deaf) \in Nat
           /\ faults' \in 0..MaxFaults /\ faults' >= faults
<1>1. deaf \subseteq Slaves
  BY DEF Deaf, TypeOK
<1>2. IsFiniteSet(deaf) /\ Cardinality(deaf) \in Nat
  BY <1>1, FS_Subset, FS_CardinalityType
<1>3. faults \in 0..MaxFaults
  BY DEF TypeOK
<1>4. QED
  BY <1>1, <1>2, <1>3 DEF Exchange

\* init_slaves deselects the slaves that hear it.
LEMMA InitSlavesType ==
    ASSUME TypeOK, NEW deaf \in SUBSET selected, init_slaves(deaf)
    PROVE  selected' \subseteq Slaves /\ primary' = primary /\ faults' \in 0..MaxFaults
<1>1. deaf \subseteq Slaves
  BY DEF TypeOK
<1>2. Cardinality(deaf) \in Nat
  BY <1>1, FS_Subset, FS_CardinalityType
<1>3. faults \in 0..MaxFaults
  BY DEF TypeOK
<1>4. QED
  BY <1>1, <1>2, <1>3 DEF init_slaves

\* Without a new fault every slave has heard the frame and every answer arrived.
LEMMA Faultless ==
    ASSUME TypeOK, NEW S \in SUBSET Slaves, NEW kind, NEW deaf \in Deaf(S), NEW r,
           Exchange(S, kind, deaf, r), ~(faults' > faults)
    PROVE  deaf = {} /\ r \in Answers(S, kind)
<1>1. faults \in 0..MaxFaults
  BY DEF TypeOK
<1>2. IsFiniteSet(deaf) /\ Cardinality(deaf) \in Nat
  BY FaultsType
<1>3. Cardinality(deaf) = 0 /\ r \in Answers(S \ deaf, kind)
  BY <1>1, <1>2 DEF Exchange
<1>4. deaf = {}
  BY <1>2, <1>3, FS_EmptySet
<1>5. S \ deaf = S
  BY <1>4
<1>6. QED
  BY <1>3, <1>4, <1>5

\* Silence is nobody, a telegram is one, and one is never a collision.
LEMMA AnswersOf ==
    ASSUME NEW S \in SUBSET Slaves, NEW kind \in {"ack", "data"}, NEW r \in Answers(S, kind)
    PROVE  /\ r = "timeout" <=> S = {}
           /\ r \in {"timeout", "ack", "data", "more", "invalid"}
           /\ r = "data" => \E s : S = {s}
           /\ \A s \in S : r \in {"more", "invalid"} => \E t \in S : t # s
<1>1. IsFiniteSet(S)
  BY FS_Subset
<1>2. CASE S = {}
  <2>1. Cardinality(S) # 1
    BY <1>2, FS_EmptySet
  <2>2. r = "timeout"
    BY <1>2, <2>1 DEF Answers
  <2>3. QED
    BY <1>2, <2>2
<1>3. CASE S # {} /\ Cardinality(S) = 1
  <2>1. PICK s : S = {s}
    BY <1>1, <1>3, FS_Singleton
  <2>2. r = kind
    BY <1>3 DEF Answers
  <2>3. QED
    BY <2>1, <2>2
<1>4. CASE S # {} /\ Cardinality(S) # 1
  <2>1. r \in {"ack", "more", "invalid"}
    BY <1>4 DEF Answers
  <2>2. ASSUME NEW s \in S PROVE \E t \in S : t # s
    <3>1. S # {s}
      BY <1>1, <1>4, FS_Singleton
    <3>2. QED
      BY <3>1
  <2>3. r # "timeout" /\ r # "data"
    BY <2>1
  <2>4. QED
    BY <1>4, <2>1, <2>2, <2>3
<1>5. QED
  BY <1>2, <1>3, <1>4

-----------------------------------------------------------------------------
(***************************************************************************)
(* What a mask selects.                                                    *)
(***************************************************************************)
Ahead(s) == \E q \in OpenDigits : /\ q <= pos /\ Address[s][q] > mask[q]
                                  /\ \A p \in OpenDigits : p < q => Address[s][p] = mask[p]

\* An open digit is a position, and a slave to be found has one of 0..9 there.
LEMMA Digits ==
    ASSUME TypeOK
    PROVE  /\ OpenDigits \in SUBSET Nat
           /\ \A p \in OpenDigits : /\ p \in Positions /\ p < IdLength /\ asked[p] = WILD
                                    /\ \A s \in ToBeFound : Address[s][p] \in 0..9
<1>1. IdLength \in Nat /\ IdLength <= LastPosition /\ LastPosition \in Nat
  BY DEF Positions
<1>2. \A p \in OpenDigits : p \in Nat /\ p < IdLength /\ p \in Positions /\ asked[p] = WILD
  BY <1>1 DEF OpenDigits, Positions
<1>3. ASSUME NEW p \in OpenDigits, NEW s \in ToBeFound PROVE Address[s][p] \in 0..9
  <2>1. s \in Slaves /\ Address[s][p] <= 9
    BY <1>2, <1>3 DEF ToBeFound, Decimal, OpenDigits
  <2>2. Address[s][p] \in 0..14
    BY <1>2, <2>1
  <2>3. QED
    BY <2>1, <2>2
<1>4. QED
  BY <1>2, <1>3

\* A slave is before the mask, at it or after it.
LEMMA Trichotomy ==
    ASSUME TypeOK, MaskOfWalk, Walking, NEW s \in ToBeFound
    PROVE  /\ Passed(s) \/ Current(s) \/ Ahead(s)
           /\ ~(Passed(s) /\ Current(s))
<1> DEFINE D == {p \in OpenDigits : p <= pos /\ Address[s][p] # mask[p]}
<1>0. pos \in Nat /\ \A p \in OpenDigits : p <= pos => mask[p] \in 0..LastDigit
  <2>1. pos \in Nat
    BY DEF TypeOK, Positions
  <2>2. \A p \in OpenDigits : p \in Positions /\ asked[p] = WILD
    BY Digits, Zenon
  <2>3. \A p \in OpenDigits : p <= pos => mask[p] \in 0..LastDigit
    BY <2>2, Zenon DEF MaskOfWalk
  <2>4. QED
    BY <2>1, <2>3
<1>1. CASE D = {}
  <2>1. Current(s)
    BY <1>1 DEF Current
  <2>2. \A q \in OpenDigits : q <= pos => Address[s][q] = mask[q] /\ Address[s][q] \in 0..9
    BY <1>1, Digits
  <2>3. ~Passed(s)
    BY <2>2 DEF Passed
  <2>4. QED
    BY <2>1, <2>3
<1>2. CASE D # {}
  <2>1. D \in SUBSET Nat
    BY Digits
  <2>2. PICK q \in D : \A p \in D : q <= p
    BY <1>2, <2>1, LeastNatural
  <2>3. q \in OpenDigits /\ q \in Nat /\ q <= pos /\ Address[s][q] # mask[q]
    BY <2>1, <2>2
  <2>4. \A p \in OpenDigits : p < q => Address[s][p] = mask[p]
    <3> SUFFICES ASSUME NEW p \in OpenDigits, p < q, Address[s][p] # mask[p] PROVE FALSE
      OBVIOUS
    <3>1. p \in Nat /\ p <= pos
      BY <1>0, <2>3, Digits
    <3>2. QED
      BY <2>2, <2>3, <3>1
  <2>5. Address[s][q] \in 0..9 /\ mask[q] \in 0..LastDigit
    BY <1>0, <2>3, Digits
  <2>6. Address[s][q] < mask[q] \/ Address[s][q] > mask[q]
    BY <2>3, <2>5 DEF LastDigit
  <2>7. Passed(s) \/ Ahead(s)
    BY <2>3, <2>4, <2>6 DEF Passed, Ahead
  <2>8. ~Current(s)
    BY <2>3 DEF Current
  <2>9. QED
    BY <2>7, <2>8
<1>3. QED
  BY <1>1, <1>2

\* The mask a slave is at selects it, as long as there are digits to come.
LEMMA CurrentIsSelected ==
    ASSUME TypeOK, MaskOfWalk, Walking, NEW s \in ToBeFound, Current(s),
           IF OpenDigits = {} THEN pos = LastPosition ELSE pos < IdLength
    PROVE  s \in Selected(mbus_frame_select_secondary_pack(mask))
<1> DEFINE data == mbus_frame_select_secondary_pack(mask)
<1>0. /\ s \in Slaves /\ Matches(asked, s) /\ Decimal(s) /\ Searched
      /\ pos \in Positions /\ mask \in [Positions -> 0..WILD] /\ asked \in [Positions -> 0..WILD]
      /\ IdLength \in Nat /\ IdLength <= LastPosition /\ LastPosition \in Nat
  BY DEF ToBeFound, TypeOK, Positions
<1>1. \A p \in Positions : p < IdLength => data[p] = Address[s][p] \/ data[p] = WILD
  <2> SUFFICES ASSUME NEW p \in Positions, p < IdLength
               PROVE  data[p] = Address[s][p] \/ data[p] = WILD
    OBVIOUS
  <2>1. p \in 0..(IdLength - 1) /\ p \in Nat /\ Address[s][p] \in 0..9
    <3>1. p \in 0..(IdLength - 1) /\ p \in Nat
      BY <1>0 DEF Positions
    <3>2. Address[s][p] \in 0..14 /\ Address[s][p] <= 9
      BY <1>0, <3>1 DEF Decimal
    <3>3. QED
      BY <3>1, <3>2
  <2>2. mask[p] = Address[s][p] \/ mask[p] = WILD
    <3>1. CASE asked[p] = WILD /\ p <= pos
      BY <2>1, <3>1 DEF Current, OpenDigits
    <3>2. CASE asked[p] = WILD /\ ~(p <= pos)
      BY <3>2 DEF MaskOfWalk
    <3>3. CASE asked[p] # WILD
      <4>1. asked[p] = Address[s][p]
        BY <1>0, <2>1, <3>3 DEF Matches
      <4>2. mask[p] = asked[p]
        BY <3>3 DEF MaskOfWalk
      <4>3. QED
        BY <4>1, <4>2
    <3>4. QED
      BY <3>1, <3>2, <3>3
  <2>3. mask[p] \notin 10..14
    BY <2>1, <2>2 DEF WILD
  <2>4. data[p] = mask[p]
    BY <2>3 DEF mbus_frame_select_secondary_pack
  <2>5. QED
    BY <2>2, <2>4
<1>2. \A p \in Positions : p >= IdLength => data[p] = asked[p]
  <2> SUFFICES ASSUME NEW p \in Positions, p >= IdLength PROVE data[p] = asked[p]
    OBVIOUS
  <2>1. data[p] = mask[p]
    BY <1>0 DEF mbus_frame_select_secondary_pack, Positions
  <2>2. asked[p] # WILD \/ ~(p <= pos)
    <3>1. CASE OpenDigits = {}
      BY <1>0, <3>1 DEF Searched
    <3>2. CASE OpenDigits # {}
      <4>1. pos < IdLength
        BY <3>2
      <4>2. QED
        BY <1>0, <4>1 DEF Positions
    <3>3. QED
      BY <3>1, <3>2
  <2>3. QED
    BY <2>1, <2>2 DEF MaskOfWalk
<1> HIDE DEF data
<1>3. \A p \in Positions :
        \/ data[p] = Address[s][p]
        \/ data[p] = WILD /\ p < IdLength
        \/ LET low == IF (p - IdLength) % 2 = 0 THEN p ELSE p - 1
           IN  p >= IdLength /\ data[low] = WILD /\ data[low + 1] = WILD
  <2> SUFFICES ASSUME NEW p \in Positions
               PROVE  \/ data[p] = Address[s][p]
                      \/ data[p] = WILD /\ p < IdLength
                      \/ LET low == IF (p - IdLength) % 2 = 0 THEN p ELSE p - 1
                         IN  p >= IdLength /\ data[low] = WILD /\ data[low + 1] = WILD
    OBVIOUS
  <2>1. CASE p < IdLength
    BY <1>1, <2>1
  <2>2. CASE ~(p < IdLength)
    <3> DEFINE low == IF (p - IdLength) % 2 = 0 THEN p ELSE p - 1
    <3>1. p >= IdLength /\ data[p] = asked[p]
      BY <1>0, <1>2, <2>2 DEF Positions
    <3>2. low \in Positions /\ low + 1 \in Positions /\ low >= IdLength
      <4>1. p \in Int /\ p <= LastPosition /\ p - IdLength \in Nat
        BY <1>0, <3>1 DEF Positions
      <4>2. CASE (p - IdLength) % 2 = 0
        <5>1. p # LastPosition
          BY <4>2
        <5>2. QED
          BY <1>0, <3>1, <4>1, <4>2, <5>1 DEF Positions
      <4>3. CASE (p - IdLength) % 2 # 0
        <5>1. p # IdLength
          BY <1>0, <4>3
        <5>2. QED
          BY <1>0, <3>1, <4>1, <4>3, <5>1 DEF Positions
      <4>4. QED
        BY <4>2, <4>3
    <3>3. low + 1 >= IdLength
      BY <1>0, <3>2 DEF Positions
    <3>4. data[low] = asked[low] /\ data[low + 1] = asked[low + 1]
      BY <1>2, <3>2, <3>3
    <3>5. asked[p] = Address[s][p] \/ (asked[low] = WILD /\ asked[low + 1] = WILD)
      BY <1>0, <2>2 DEF Matches
    <3>6. QED
      BY <3>1, <3>4, <3>5
  <2>3. QED
    BY <2>1, <2>2
<1>4. QED
  BY <1>0, <1>3 DEF Selected, Matches, data

\* A mask that a slave is not at does not select it.
LEMMA OnlyCurrentIsSelected ==
    ASSUME TypeOK, MaskOfWalk, Walking, NEW s \in ToBeFound,
           s \in Selected(mbus_frame_select_secondary_pack(mask))
    PROVE  Current(s)
<1> DEFINE data == mbus_frame_select_secondary_pack(mask)
<1> SUFFICES ASSUME NEW p \in OpenDigits, p <= pos PROVE Address[s][p] = mask[p]
  BY DEF Current
<1>1. p \in Positions /\ p < IdLength /\ asked[p] = WILD
  BY Digits
<1>2. mask[p] \in 0..9
  BY <1>1 DEF MaskOfWalk, LastDigit
<1>3. data[p] = mask[p]
  BY <1>1, <1>2 DEF mbus_frame_select_secondary_pack
<1>4. data[p] # WILD
  BY <1>2, <1>3 DEF WILD
<1>5. /\ p \in Int /\ IdLength \in Int
      /\ \/ data[p] = Address[s][p]
         \/ data[p] = WILD /\ p < IdLength
         \/ p >= IdLength
  BY <1>1 DEF Selected, Matches, Positions
<1>6. QED
  BY <1>1, <1>3, <1>4, <1>5

\* Slaves that a mask does not tell apart have an open digit to come that does.
LEMMA TwoSelected ==
    ASSUME TypeOK, MaskOfWalk, Walking, NEW s \in ToBeFound, NEW t \in Slaves, t # s,
           s \in Selected(mbus_frame_select_secondary_pack(mask)),
           t \in Selected(mbus_frame_select_secondary_pack(mask))
    PROVE  \E p \in OpenDigits : p > pos
<1> DEFINE data == mbus_frame_select_secondary_pack(mask)
<1>0. /\ pos \in Positions /\ mask \in [Positions -> 0..WILD]
      /\ IdLength \in Nat /\ IdLength <= LastPosition /\ LastPosition \in Nat
  BY DEF TypeOK, Positions
<1>1. PICK p \in 0..(IdLength - 1) : Address[s][p] # Address[t][p]
  BY DEF ToBeFound, SameId
<1>2. p \in Positions /\ p \in Nat /\ p < IdLength
  BY <1>0, <1>1 DEF Positions
<1>3. /\ data[p] = Address[s][p] \/ data[p] = WILD
      /\ data[p] = Address[t][p] \/ data[p] = WILD
  <2>1. ~(p >= IdLength)
    BY <1>0, <1>2
  <2>2. QED
    BY <1>2, <2>1 DEF Selected, Matches
<1>4. data[p] = WILD
  BY <1>1, <1>3
<1>5. mask[p] = WILD
  <2>1. mask[p] \in 0..WILD
    BY <1>0, <1>2
  <2>2. data[p] = IF p < IdLength /\ mask[p] \in 10..14 THEN mask[p] - 9 ELSE mask[p]
    BY <1>2 DEF mbus_frame_select_secondary_pack
  <2>3. QED
    BY <1>4, <2>1, <2>2 DEF WILD
<1>6. ~(asked[p] = WILD /\ p <= pos)
  <2> SUFFICES ASSUME asked[p] = WILD, p <= pos PROVE FALSE
    OBVIOUS
  <2>1. mask[p] \in 0..9
    BY <1>2 DEF MaskOfWalk, LastDigit
  <2>2. QED
    BY <1>5, <2>1 DEF WILD
<1>7. asked[p] = WILD
  BY <1>2, <1>5, <1>6 DEF MaskOfWalk
<1>8. p > pos
  BY <1>0, <1>2, <1>6, <1>7 DEF Positions
<1>9. QED
  BY <1>1, <1>7, <1>8 DEF OpenDigits

-----------------------------------------------------------------------------
(***************************************************************************)
(* The recursion.                                                          *)
(***************************************************************************)

\* Where a call goes down to: the next open position, or the last one.
LEMMA DescendTo ==
    ASSUME NEW p \in Positions, NEW m \in [Positions -> 0..WILD], Descend(p, m)
    PROVE  /\ pos' \in Positions /\ pos' >= p
           /\ \A i \in Positions : p <= i /\ i < pos' => m[i] # WILD
           /\ m[pos'] # WILD => pos' = LastPosition
           /\ \A i \in Positions : mask'[i] = IF i = pos' /\ m[i] = WILD THEN 0 ELSE m[i]
           /\ mask' \in [Positions -> 0..WILD]
           /\ tries' = MaxSearchRetry /\ pc' = "select"
<1> DEFINE C == {i \in p..LastPosition : m[i] = WILD \/ i = LastPosition}
           q == Min(C)
<1>0. p \in Nat /\ p <= LastPosition /\ LastPosition \in Nat
  BY DEF Positions
<1>1. C \in SUBSET Nat /\ LastPosition \in C
  BY <1>0
<1>2. q \in C /\ \A i \in C : q <= i
  BY <1>1, MinOf, ZenonT(60)
<1>3. q \in Positions /\ q >= p /\ (m[q] # WILD => q = LastPosition)
  BY <1>0, <1>2 DEF Positions
<1>4. \A i \in Positions : p <= i /\ i < q => m[i] # WILD
  <2> SUFFICES ASSUME NEW i \in Positions, p <= i, i < q, m[i] = WILD PROVE FALSE
    OBVIOUS
  <2>1. i \in C
    BY <1>0 DEF Positions
  <2>2. QED
    BY <1>2, <1>3, <2>1 DEF Positions
<1>5. /\ pos' = q /\ tries' = MaxSearchRetry /\ pc' = "select"
      /\ mask' = [m EXCEPT ![q] = IF @ = WILD THEN 0 ELSE @]
  BY DEF Descend
<1> HIDE DEF q, C
<1>6. \A i \in Positions : mask'[i] = IF i = q /\ m[i] = WILD THEN 0 ELSE m[i]
  BY <1>3, <1>5
<1>7. mask' \in [Positions -> 0..WILD]
  BY <1>3, <1>5 DEF WILD
<1>8. QED
  BY <1>3, <1>4, <1>5, <1>6, <1>7

\* Which digit comes next: of the last open position that has one left.
LEMMA NextDigitAt ==
    ASSUME TypeOK, NEW n \in 0..(LastPosition + 1), NextDigit(0..(n - 1))
    PROVE  \/ /\ pc' = "scanned" /\ mask' = mask /\ pos' = pos /\ tries' = tries
              /\ \A i \in Positions : i < n /\ asked[i] = WILD => ~(mask[i] < LastDigit)
           \/ /\ pc' = "select" /\ tries' = MaxSearchRetry
              /\ pos' \in Positions /\ pos' < n /\ asked[pos'] = WILD /\ mask[pos'] < LastDigit
              /\ \A i \in Positions : i < n /\ asked[i] = WILD /\ mask[i] < LastDigit => i <= pos'
              /\ \A i \in Positions : mask'[i] = IF i < pos' THEN mask[i]
                                                ELSE IF i = pos' THEN mask[i] + 1 ELSE asked[i]
              /\ mask' \in [Positions -> 0..WILD]
<1> DEFINE open == {i \in 0..(n - 1) : asked[i] = WILD /\ mask[i] < LastDigit}
           q == Max(open)
<1>0. /\ LastPosition \in Nat /\ n \in Nat /\ n <= LastPosition + 1
      /\ mask \in [Positions -> 0..WILD] /\ asked \in [Positions -> 0..WILD]
  BY DEF TypeOK
<1>1. CASE open = {}
  <2>1. pc' = "scanned" /\ UNCHANGED <<mask, pos, tries>>
    BY <1>1 DEF NextDigit
  <2>2. \A i \in Positions : i < n => i \in 0..(n - 1)
    BY <1>0 DEF Positions
  <2>3. QED
    BY <1>1, <2>1, <2>2
<1>2. CASE open # {}
  <2>1. open \in SUBSET (0..LastPosition)
    BY <1>0
  <2>2. q \in open /\ \A i \in open : q >= i
    BY <1>0, <1>2, <2>1, MaxOf
  <2>3. /\ pos' = q /\ tries' = MaxSearchRetry /\ pc' = "select"
        /\ mask' = [i \in Positions |->
                      IF i < q THEN mask[i] ELSE IF i = q THEN mask[q] + 1 ELSE asked[i]]
    BY <1>2 DEF NextDigit
  <2>4. q \in Positions /\ q < n /\ asked[q] = WILD /\ mask[q] < LastDigit
    BY <1>0, <2>2 DEF Positions
  <2>5. \A i \in Positions : i < n /\ asked[i] = WILD /\ mask[i] < LastDigit => i \in open
    BY <1>0 DEF Positions
  <2>6. \A i \in Positions : i < n /\ asked[i] = WILD /\ mask[i] < LastDigit => i <= q
    BY <2>2, <2>4, <2>5 DEF Positions
  <2> HIDE DEF q, open
  <2>7. \A i \in Positions : mask'[i] = IF i < q THEN mask[i]
                                       ELSE IF i = q THEN mask[i] + 1 ELSE asked[i]
    BY <2>3
  <2>8. mask' \in [Positions -> 0..WILD]
    <3>1. mask[q] + 1 \in 0..WILD
      <4>1. mask[q] \in 0..15 /\ mask[q] < 9
        BY <1>0, <2>4 DEF WILD, LastDigit
      <4>2. QED
        BY <4>1 DEF WILD
    <3>2. QED
      BY <1>0, <2>3, <3>1
  <2>9. QED
    BY <2>3, <2>4, <2>6, <2>7, <2>8
<1>3. QED
  BY <1>1, <1>2

\* The mask of the next probe has a digit at every open position up to it.
LEMMA DescendType ==
    ASSUME TypeOK, Walking, MaskOfWalk, UNCHANGED asked, pos < LastPosition,
           Descend(pos + 1, mask)
    PROVE  /\ pc' = "select" /\ mask' \in [Positions -> 0..WILD] /\ pos' \in Positions
           /\ tries' = MaxSearchRetry /\ MaskOfWalk'
<1>0. pos \in Nat /\ pos + 1 \in Positions /\ mask \in [Positions -> 0..WILD] /\ LastPosition \in Nat
  BY DEF TypeOK, Positions
<1>1. /\ pos' \in Positions /\ pos' >= pos + 1
      /\ \A i \in Positions : pos + 1 <= i /\ i < pos' => mask[i] # WILD
      /\ \A i \in Positions : mask'[i] = IF i = pos' /\ mask[i] = WILD THEN 0 ELSE mask[i]
      /\ mask' \in [Positions -> 0..WILD]
      /\ tries' = MaxSearchRetry /\ pc' = "select"
  BY <1>0, DescendTo
<1>2. ASSUME NEW i \in Positions
      PROVE  IF asked[i] = WILD /\ i <= pos' THEN mask'[i] \in 0..LastDigit ELSE mask'[i] = asked[i]
  <2>0. i \in Int /\ pos' \in Int
    BY <1>1 DEF Positions
  <2>1. CASE i <= pos
    <3>1. mask'[i] = mask[i] /\ i <= pos'
      BY <1>0, <1>1, <2>0, <2>1
    <3>2. QED
      BY <2>1, <3>1 DEF MaskOfWalk
  <2>2. CASE ~(i <= pos)
    <3>1. mask[i] = asked[i]
      BY <2>2 DEF MaskOfWalk
    <3>2. CASE i < pos'
      <4>1. pos + 1 <= i /\ i # pos'
        BY <1>0, <2>0, <2>2, <3>2
      <4>2. mask[i] # WILD /\ mask'[i] = mask[i]
        BY <1>1, <3>2, <4>1
      <4>3. QED
        BY <3>1, <4>2
    <3>3. CASE i = pos'
      <4>1. mask'[i] = IF mask[i] = WILD THEN 0 ELSE mask[i]
        BY <1>1, <3>3
      <4>2. 0 \in 0..LastDigit
        BY DEF LastDigit
      <4>3. QED
        BY <2>0, <3>1, <3>3, <4>1, <4>2
    <3>4. CASE i > pos'
      BY <1>1, <2>0, <3>1, <3>4
    <3>5. QED
      BY <2>0, <3>2, <3>3, <3>4
  <2>3. QED
    BY <2>1, <2>2
<1>3. MaskOfWalk'
  BY <1>2 DEF MaskOfWalk
<1>4. QED
  BY <1>1, <1>3

LEMMA NextDigitType ==
    ASSUME TypeOK, Walking, MaskOfWalk, UNCHANGED asked, NEW n \in {pos, pos + 1},
           NextDigit(0..(n - 1))
    PROVE  /\ pc' \in {"select", "scanned"} /\ mask' \in [Positions -> 0..WILD]
           /\ pos' \in Positions /\ tries' \in 0..MaxSearchRetry /\ MaskOfWalk'
<1>0. /\ n \in 0..(LastPosition + 1) /\ pos \in Positions /\ pos \in Nat /\ n <= pos + 1
      /\ mask \in [Positions -> 0..WILD] /\ tries \in 0..MaxSearchRetry
  BY DEF TypeOK, Positions
<1>1. CASE pc' = "scanned"
  <2>1. mask' = mask /\ pos' = pos /\ tries' = tries
    BY <1>0, <1>1, NextDigitAt
  <2>2. QED
    BY <1>0, <1>1, <2>1 DEF MaskOfWalk, Walking
<1>2. CASE pc' # "scanned"
  <2>1. /\ pc' = "select" /\ tries' = MaxSearchRetry
        /\ pos' \in Positions /\ pos' < n /\ asked[pos'] = WILD /\ mask[pos'] < LastDigit
        /\ \A i \in Positions : mask'[i] = IF i < pos' THEN mask[i]
                                          ELSE IF i = pos' THEN mask[i] + 1 ELSE asked[i]
        /\ mask' \in [Positions -> 0..WILD]
    BY <1>0, <1>2, NextDigitAt
  <2>2. pos' \in Int /\ pos' <= pos
    BY <1>0, <2>1 DEF Positions
  <2>3. ASSUME NEW i \in Positions
        PROVE  IF asked[i] = WILD /\ i <= pos' THEN mask'[i] \in 0..LastDigit
               ELSE mask'[i] = asked[i]
    <3>0. i \in Int
      BY DEF Positions
    <3>1. CASE i < pos'
      <4>1. mask'[i] = mask[i] /\ i <= pos
        BY <1>0, <2>1, <2>2, <3>0, <3>1
      <4>2. QED
        BY <2>2, <3>0, <3>1, <4>1 DEF MaskOfWalk
    <3>2. CASE i = pos'
      <4>1. mask'[i] = mask[i] + 1 /\ mask[i] < LastDigit /\ mask[i] \in 0..WILD
        BY <1>0, <2>1, <3>2
      <4>2. mask'[i] \in 0..LastDigit
        BY <4>1 DEF LastDigit, WILD
      <4>3. QED
        BY <2>1, <3>0, <3>2, <4>2
    <3>3. CASE i > pos'
      <4>1. mask'[i] = asked[i]
        BY <2>1, <2>2, <3>0, <3>3
      <4>2. QED
        BY <2>2, <3>0, <3>3, <4>1
    <3>4. QED
      BY <2>2, <3>0, <3>1, <3>2, <3>3
  <2>4. MaskOfWalk'
    BY <2>3 DEF MaskOfWalk
  <2>5. MaxSearchRetry \in 0..MaxSearchRetry
    OBVIOUS
  <2>6. QED
    BY <2>1, <2>4, <2>5
<1>3. QED
  BY <1>1, <1>2

LEMMA RangeType ==
    ASSUME TypeOK, Walking, MaskOfWalk, UNCHANGED asked, NEW ret,
           mbus_scan_2nd_address_range(ret)
    PROVE  /\ pc' \in {"select", "scanned"} /\ mask' \in [Positions -> 0..WILD]
           /\ pos' \in Positions /\ tries' \in 0..MaxSearchRetry /\ MaskOfWalk'
<1>1. CASE ret = "COLLISION" /\ pos < LastPosition
  <2>1. Descend(pos + 1, mask)
    BY <1>1 DEF mbus_scan_2nd_address_range
  <2>2. MaxSearchRetry \in 0..MaxSearchRetry
    OBVIOUS
  <2>3. QED
    BY <1>1, <2>1, <2>2, DescendType
<1>2. CASE ret = "ERROR"
  <2>1. NextDigit(0..(pos - 1))
    BY <1>2 DEF mbus_scan_2nd_address_range
  <2>2. QED
    BY <2>1, NextDigitType
<1>3. CASE ~(ret = "COLLISION" /\ pos < LastPosition) /\ ret # "ERROR"
  <2>1. NextDigit(0..pos)
    BY <1>3 DEF mbus_scan_2nd_address_range
  <2>2. (pos + 1) - 1 = pos
    BY DEF TypeOK, Positions
  <2>3. NextDigit(0..((pos + 1) - 1))
    BY <2>1, <2>2
  <2>4. QED
    BY <2>3, NextDigitType
<1>4. QED
  BY <1>1, <1>2, <1>3

\* A slave that the mask has passed stays passed, one ahead of it stays ahead or
\* becomes current; below a collision nothing is passed.
LEMMA WalkDown ==
    ASSUME TypeOK, Walking, MaskOfWalk, UNCHANGED asked, pos < LastPosition,
           Descend(pos + 1, mask), NEW s \in ToBeFound,
           Current(s) => \E p \in OpenDigits : p > pos
    PROVE  /\ Passed(s)' <=> Passed(s)
           /\ Current(s)' => IF OpenDigits = {} THEN pos' = LastPosition ELSE pos' < IdLength
<1>0. /\ pos \in Nat /\ pos + 1 \in Positions /\ mask \in [Positions -> 0..WILD]
      /\ LastPosition \in Nat /\ IdLength \in Nat
  BY DEF TypeOK, Positions
<1>1. /\ pos' \in Positions /\ pos' >= pos + 1
      /\ \A i \in Positions : pos + 1 <= i /\ i < pos' => mask[i] # WILD
      /\ \A i \in Positions : mask'[i] = IF i = pos' /\ mask[i] = WILD THEN 0 ELSE mask[i]
  BY <1>0, DescendTo
<1>2. OpenDigits' = OpenDigits
  BY DEF OpenDigits
<1>3. \A p \in OpenDigits : /\ p \in Nat /\ p \in Positions /\ p < IdLength
                            /\ Address[s][p] \in 0..9
                            /\ p > pos => mask[p] = WILD
                            /\ p <= pos => mask'[p] = mask[p]
  <2> SUFFICES ASSUME NEW p \in OpenDigits
               PROVE  /\ p \in Nat /\ p \in Positions /\ p < IdLength
                      /\ Address[s][p] \in 0..9
                      /\ p > pos => mask[p] = WILD
                      /\ p <= pos => mask'[p] = mask[p]
    OBVIOUS
  <2>1. p \in Nat /\ p \in Positions /\ p < IdLength /\ Address[s][p] \in 0..9 /\ asked[p] = WILD
    BY Digits
  <2>2. p > pos => mask[p] = WILD
    BY <1>0, <2>1 DEF MaskOfWalk
  <2>3. p <= pos => p # pos'
    BY <1>0, <1>1, <2>1 DEF Positions
  <2>4. p <= pos => mask'[p] = mask[p]
    BY <1>1, <2>1, <2>3
  <2>5. QED
    BY <2>1, <2>2, <2>4
<1>4. pos' \in Nat
  BY <1>1 DEF Positions
<1>5. \A p \in OpenDigits : p > pos => p >= pos' /\ (p = pos' => mask'[p] = 0)
  <2> SUFFICES ASSUME NEW p \in OpenDigits, p > pos PROVE p >= pos' /\ (p = pos' => mask'[p] = 0)
    OBVIOUS
  <2>1. p \in Nat /\ p \in Positions /\ mask[p] = WILD
    BY <1>3
  <2>2. ~(p < pos')
    BY <1>0, <1>1, <2>1
  <2>3. QED
    BY <1>1, <1>4, <2>1, <2>2
<1>6. Passed(s) => Passed(s)'
  <2> SUFFICES ASSUME NEW q \in OpenDigits, q <= pos, Address[s][q] < mask[q],
                      \A p \in OpenDigits : p < q => Address[s][p] = mask[p]
               PROVE  Passed(s)'
    BY DEF Passed
  <2>1. q <= pos' /\ mask'[q] = mask[q]
    BY <1>0, <1>1, <1>3, <1>4
  <2>2. \A p \in OpenDigits : p < q => Address[s][p] = mask'[p]
    BY <1>0, <1>3
  <2>3. QED
    BY <1>2, <2>1, <2>2 DEF Passed
<1>7. Passed(s)' => Passed(s)
  <2> SUFFICES ASSUME NEW q \in OpenDigits, q <= pos', Address[s][q] < mask'[q],
                      \A p \in OpenDigits : p < q => Address[s][p] = mask'[p]
               PROVE  Passed(s)
    BY <1>2 DEF Passed
  <2>1. CASE q <= pos
    <3>1. mask'[q] = mask[q]
      BY <1>3, <2>1
    <3>2. \A p \in OpenDigits : p < q => Address[s][p] = mask[p]
      BY <1>0, <1>3, <2>1
    <3>3. QED
      BY <2>1, <3>1, <3>2 DEF Passed
  <2>2. CASE ~(q <= pos)
    <3>1. q \in Nat /\ q > pos /\ Address[s][q] \in 0..9
      BY <1>0, <1>3, <2>2
    <3>2. q = pos' /\ mask'[q] = 0
      BY <1>4, <1>5, <3>1
    <3>3. QED
      BY <3>1, <3>2
  <2>3. QED
    BY <2>1, <2>2
<1>8. ASSUME Current(s)'
      PROVE  IF OpenDigits = {} THEN pos' = LastPosition ELSE pos' < IdLength
  <2>1. Current(s)
    <3> SUFFICES ASSUME NEW p \in OpenDigits, p <= pos PROVE Address[s][p] = mask[p]
      BY DEF Current
    <3>1. p <= pos' /\ mask'[p] = mask[p]
      BY <1>0, <1>1, <1>3, <1>4
    <3>2. QED
      BY <1>2, <1>8, <3>1 DEF Current
  <2>2. PICK p \in OpenDigits : p > pos
    BY <2>1
  <2>3. p \in Nat /\ p >= pos' /\ p < IdLength
    BY <1>3, <1>5, <2>2
  <2>4. QED
    BY <1>0, <1>4, <2>2, <2>3
<1>9. QED
  BY <1>6, <1>7, <1>8

\* When the next digit is taken, the slaves the mask was at are passed with those
\* before them, and the rest is ahead; when none is left, no slave is ahead.
LEMMA WalkNext ==
    ASSUME TypeOK, Walking, MaskOfWalk, UNCHANGED asked, NextDigit(0..pos), NEW s \in ToBeFound,
           Current(s) => IF OpenDigits = {} THEN pos = LastPosition ELSE pos < IdLength
    PROVE  /\ pc' = "select" =>
                /\ Passed(s)' <=> Passed(s) \/ Current(s)
                /\ Current(s)' => IF OpenDigits = {} THEN pos' = LastPosition ELSE pos' < IdLength
           /\ pc' # "select" => pc' = "scanned" /\ (Passed(s) \/ Current(s))
<1>0. /\ pos \in Nat /\ pos + 1 \in 0..(LastPosition + 1) /\ mask \in [Positions -> 0..WILD]
      /\ LastPosition \in Nat /\ IdLength \in Nat /\ (pos + 1) - 1 = pos
  BY DEF TypeOK, Positions
<1>1. OpenDigits' = OpenDigits
  BY DEF OpenDigits
<1>2. \A q \in OpenDigits : /\ q \in Nat /\ q \in Positions /\ q < IdLength /\ asked[q] = WILD
                            /\ Address[s][q] \in 0..9
                            /\ q <= pos => mask[q] \in 0..9
  <2> SUFFICES ASSUME NEW q \in OpenDigits
               PROVE  /\ q \in Nat /\ q \in Positions /\ q < IdLength /\ asked[q] = WILD
                      /\ Address[s][q] \in 0..9
                      /\ q <= pos => mask[q] \in 0..9
    OBVIOUS
  <2>1. q \in Nat /\ q \in Positions /\ q < IdLength /\ asked[q] = WILD /\ Address[s][q] \in 0..9
    BY Digits
  <2>2. QED
    BY <2>1 DEF MaskOfWalk, LastDigit
<1>3. Passed(s) \/ Current(s) \/ Ahead(s)
  BY Trichotomy
<1>4. NextDigit(0..((pos + 1) - 1))
  BY <1>0
<1>5. CASE pc' = "scanned"
  <2>1. \A i \in Positions : i < pos + 1 /\ asked[i] = WILD => ~(mask[i] < LastDigit)
    BY <1>0, <1>4, <1>5, NextDigitAt
  <2>2. ASSUME Ahead(s) PROVE FALSE
    <3>1. PICK q \in OpenDigits : q <= pos /\ Address[s][q] > mask[q]
      BY <2>2 DEF Ahead
    <3>2. q \in Nat /\ q \in Positions /\ asked[q] = WILD /\ Address[s][q] \in 0..9 /\ mask[q] \in 0..9
      BY <1>2, <3>1
    <3>3. mask[q] < LastDigit /\ q < pos + 1
      BY <1>0, <3>1, <3>2 DEF LastDigit
    <3>4. QED
      BY <2>1, <3>2, <3>3
  <2>3. QED
    BY <1>3, <1>5, <2>2
<1>6. CASE pc' # "scanned"
  <2>1. /\ pc' = "select"
        /\ pos' \in Positions /\ pos' < pos + 1 /\ asked[pos'] = WILD /\ mask[pos'] < LastDigit
        /\ \A i \in Positions : i < pos + 1 /\ asked[i] = WILD /\ mask[i] < LastDigit => i <= pos'
        /\ \A i \in Positions : mask'[i] = IF i < pos' THEN mask[i]
                                          ELSE IF i = pos' THEN mask[i] + 1 ELSE asked[i]
    BY <1>0, <1>4, <1>6, NextDigitAt
  <2>2. pos' \in Nat /\ pos' <= pos
    BY <1>0, <2>1 DEF Positions
  <2>3. \A q \in OpenDigits : q < pos' => mask'[q] = mask[q]
    BY <1>2, <2>1
  <2>4. CASE ~(pos' < IdLength)
    <3>1. OpenDigits # {}
      BY <2>1 DEF ToBeFound, Searched
    <3>2. ~Current(s)
      BY <1>0, <2>2, <2>4, <3>1
    <3>3. \A q \in OpenDigits : q < pos' /\ q <= pos
      BY <1>0, <1>2, <2>2, <2>4
    <3>4. \A q \in OpenDigits : mask'[q] = mask[q] /\ q <= pos'
      BY <1>2, <2>2, <2>3, <3>3
    <3>5. Passed(s)' <=> Passed(s)
      BY <1>1, <3>3, <3>4 DEF Passed
    <3>6. ~Current(s)'
      BY <1>1, <3>2, <3>3, <3>4 DEF Current
    <3>7. QED
      BY <2>1, <3>2, <3>5, <3>6
  <2>5. CASE pos' < IdLength
    <3>1. pos' \in OpenDigits
      BY <1>0, <2>1, <2>2, <2>5 DEF OpenDigits
    <3>2. mask'[pos'] = mask[pos'] + 1 /\ mask[pos'] \in 0..9
      BY <1>2, <2>1, <2>2, <3>1
    <3>3. ASSUME Address[s][pos'] < mask'[pos'],
                 \A q \in OpenDigits : q < pos' => Address[s][q] = mask[q]
          PROVE  Passed(s)'
      <4>1. \A q \in OpenDigits : q < pos' => Address[s][q] = mask'[q]
        BY <2>3, <3>3
      <4>2. pos' <= pos'
        BY <2>2
      <4>3. QED
        BY <1>1, <3>1, <3>3, <4>1, <4>2 DEF Passed
    <3>4. Current(s) => Passed(s)'
      <4> SUFFICES ASSUME Current(s) PROVE Passed(s)'
        OBVIOUS
      <4>1. \A q \in OpenDigits : q <= pos => Address[s][q] = mask[q]
        BY DEF Current
      <4>2. \A q \in OpenDigits : q < pos' => Address[s][q] = mask[q]
        BY <1>0, <1>2, <2>2, <4>1
      <4>3. Address[s][pos'] < mask'[pos']
        BY <2>2, <3>1, <3>2, <4>1
      <4>4. QED
        BY <3>3, <4>2, <4>3
    <3>5. Passed(s) => Passed(s)'
      <4> SUFFICES ASSUME NEW q \in OpenDigits, q <= pos, Address[s][q] < mask[q],
                          \A p \in OpenDigits : p < q => Address[s][p] = mask[p]
                   PROVE  Passed(s)'
        BY DEF Passed
      <4>0. q \in Nat /\ Address[s][q] \in 0..9 /\ mask[q] \in 0..9
        BY <1>2
      <4>1. CASE q < pos'
        <5>1. mask'[q] = mask[q] /\ q <= pos'
          BY <2>2, <2>3, <4>0, <4>1
        <5>2. \A p \in OpenDigits : p < q => Address[s][p] = mask'[p]
          BY <1>2, <2>2, <2>3, <4>0, <4>1
        <5>3. QED
          BY <1>1, <5>1, <5>2 DEF Passed
      <4>2. CASE q = pos'
        <5>1. Address[s][pos'] < mask'[pos']
          BY <3>2, <4>0, <4>2
        <5>2. QED
          BY <3>3, <4>2, <5>1
      <4>3. CASE q > pos'
        <5>1. Address[s][pos'] = mask[pos']
          BY <3>1, <4>3
        <5>2. Address[s][pos'] < mask'[pos']
          BY <3>2, <5>1
        <5>3. \A p \in OpenDigits : p < pos' => Address[s][p] = mask[p]
          BY <1>2, <2>2, <4>0, <4>3
        <5>4. QED
          BY <3>3, <5>2, <5>3
      <4>4. QED
        BY <2>2, <4>0, <4>1, <4>2, <4>3
    <3>6. ASSUME Ahead(s), Passed(s)' PROVE FALSE
      <4>1. PICK q \in OpenDigits : /\ q <= pos /\ Address[s][q] > mask[q]
                                    /\ \A p \in OpenDigits : p < q => Address[s][p] = mask[p]
        BY <3>6 DEF Ahead
      <4>2. PICK r \in OpenDigits : /\ r <= pos' /\ Address[s][r] < mask'[r]
                                    /\ \A p \in OpenDigits : p < r => Address[s][p] = mask'[p]
        BY <1>1, <3>6 DEF Passed
      <4>3. /\ q \in Nat /\ q \in Positions /\ asked[q] = WILD
            /\ Address[s][q] \in 0..9 /\ mask[q] \in 0..9
        BY <1>2, <4>1
      <4>4. r \in Nat /\ r <= pos /\ Address[s][r] \in 0..9 /\ mask[r] \in 0..9
        BY <1>0, <1>2, <2>2, <4>2
      <4>5. q <= pos'
        <5>1. mask[q] < LastDigit /\ q < pos + 1
          BY <1>0, <4>1, <4>3 DEF LastDigit
        <5>2. QED
          BY <2>1, <4>3, <5>1
      <4>6. CASE r < q
        <5>1. mask'[r] = mask[r] /\ Address[s][r] = mask[r]
          BY <2>2, <2>3, <4>1, <4>3, <4>4, <4>5, <4>6
        <5>2. QED
          BY <4>2, <4>4, <5>1
      <4>7. CASE r = q
        <5>1. r < pos' => mask'[r] = mask[r]
          BY <2>3
        <5>2. r = pos' => mask'[r] = mask[r] + 1
          BY <3>2
        <5>3. r < pos' \/ r = pos'
          BY <2>2, <4>2, <4>4
        <5>4. QED
          BY <4>1, <4>2, <4>4, <4>7, <5>1, <5>2, <5>3
      <4>8. CASE r > q
        <5>1. q < pos'
          BY <2>2, <4>2, <4>3, <4>4, <4>8
        <5>2. mask'[q] = mask[q] /\ Address[s][q] = mask'[q]
          BY <2>3, <4>2, <4>8, <5>1
        <5>3. QED
          BY <4>1, <4>3, <5>2
      <4>9. QED
        BY <4>3, <4>4, <4>6, <4>7, <4>8
    <3>7. QED
      BY <1>3, <2>1, <2>5, <3>1, <3>4, <3>5, <3>6
  <2>6. QED
    BY <2>4, <2>5
<1>7. QED
  BY <1>5, <1>6

\* Both ways a probe goes on: it goes down unless a slave has been told from the
\* others, or is not there, and then to the next digit.
LEMMA WalkOn ==
    ASSUME TypeOK, Walking, MaskOfWalk, UNCHANGED asked, NEW s \in ToBeFound,
           NEW ret \in {"SINGLE", "COLLISION", "NOTHING"}, mbus_scan_2nd_address_range(ret),
           Current(s) => IF OpenDigits = {} THEN pos = LastPosition ELSE pos < IdLength,
           ret = "COLLISION" /\ Current(s) => \E p \in OpenDigits : p > pos
    PROVE  /\ pc' = "select" =>
                /\ Passed(s)' <=> Passed(s) \/ (Current(s) /\ ret # "COLLISION")
                /\ Current(s)' => IF OpenDigits = {} THEN pos' = LastPosition ELSE pos' < IdLength
           /\ pc' # "select" =>
                pc' = "scanned" /\ (Passed(s) \/ (Current(s) /\ ret # "COLLISION"))
<1>1. CASE ret = "COLLISION" /\ pos < LastPosition
  <2>1. Descend(pos + 1, mask)
    BY <1>1 DEF mbus_scan_2nd_address_range
  <2>2. pc' = "select"
    BY <1>1, <2>1, DescendType
  <2>3. Current(s) => \E p \in OpenDigits : p > pos
    BY <1>1
  <2>4. /\ Passed(s)' <=> Passed(s)
        /\ Current(s)' => IF OpenDigits = {} THEN pos' = LastPosition ELSE pos' < IdLength
    BY <1>1, <2>1, <2>3, WalkDown
  <2>5. QED
    BY <1>1, <2>2, <2>4
<1>2. CASE ~(ret = "COLLISION" /\ pos < LastPosition)
  <2>1. NextDigit(0..pos)
    BY <1>2 DEF mbus_scan_2nd_address_range
  <2>2. /\ pc' = "select" =>
             /\ Passed(s)' <=> Passed(s) \/ Current(s)
             /\ Current(s)' => IF OpenDigits = {} THEN pos' = LastPosition ELSE pos' < IdLength
        /\ pc' # "select" => pc' = "scanned" /\ (Passed(s) \/ Current(s))
    BY <2>1, WalkNext
  <2>3. ret = "COLLISION" => ~Current(s)
    <3> SUFFICES ASSUME ret = "COLLISION", NEW p \in OpenDigits, p > pos PROVE FALSE
      OBVIOUS
    <3>1. p \in Positions
      BY Digits
    <3>2. pos \in Positions /\ LastPosition \in Nat
      BY DEF TypeOK
    <3>3. QED
      BY <1>2, <3>1, <3>2 DEF Positions
  <2>4. QED
    BY <2>2, <2>3
<1>3. QED
  BY <1>1, <1>2

\* What a probe reports keeps the reports in step with the mask.
LEMMA WalkReports ==
    ASSUME TypeOK, Walking, MaskOfWalk, ReportedIfPassed, ~spoilt, UNCHANGED asked,
           NEW ret \in {"SINGLE", "COLLISION", "NOTHING"}, mbus_scan_2nd_address_range(ret),
           \A s \in ToBeFound :
               /\ reports'[s] = IF Passed(s) \/ (Current(s) /\ ret = "SINGLE") THEN 1 ELSE 0
               /\ ret = "COLLISION" /\ Current(s) => \E p \in OpenDigits : p > pos
               /\ ret = "NOTHING" => ~Current(s)
    PROVE  ReportedIfPassed' /\ EveryDeviceFound'
<1>1. ToBeFound' = ToBeFound /\ OpenDigits' = OpenDigits
  BY DEF ToBeFound, Searched, OpenDigits
<1>2. \A s \in ToBeFound :
        /\ pc' = "select" =>
             /\ Passed(s)' <=> Passed(s) \/ (Current(s) /\ ret # "COLLISION")
             /\ Current(s)' => IF OpenDigits = {} THEN pos' = LastPosition ELSE pos' < IdLength
        /\ pc' # "select" =>
             pc' = "scanned" /\ (Passed(s) \/ (Current(s) /\ ret # "COLLISION"))
  <2> SUFFICES ASSUME NEW s \in ToBeFound
               PROVE  /\ pc' = "select" =>
                           /\ Passed(s)' <=> Passed(s) \/ (Current(s) /\ ret # "COLLISION")
                           /\ Current(s)' => IF OpenDigits = {} THEN pos' = LastPosition
                                             ELSE pos' < IdLength
                      /\ pc' # "select" =>
                           pc' = "scanned" /\ (Passed(s) \/ (Current(s) /\ ret # "COLLISION"))
    OBVIOUS
  <2>1. Current(s) => IF OpenDigits = {} THEN pos = LastPosition ELSE pos < IdLength
    BY DEF ReportedIfPassed
  <2>2. ret = "COLLISION" /\ Current(s) => \E p \in OpenDigits : p > pos
    OBVIOUS
  <2>3. QED
    BY <2>1, <2>2, WalkOn
<1>3. \A s \in ToBeFound : reports'[s] = IF Passed(s) \/ (Current(s) /\ ret # "COLLISION")
                                         THEN 1 ELSE 0
  OBVIOUS
<1>4. pc' \in {"select", "scanned"}
  BY RangeType
<1>5. CASE pc' = "select"
  <2>1. \A s \in ToBeFound :
          /\ reports'[s] = IF Passed(s)' THEN 1 ELSE 0
          /\ Current(s)' => IF OpenDigits = {} THEN pos' = LastPosition ELSE pos' < IdLength
    BY <1>2, <1>3, <1>5
  <2>2. ReportedIfPassed'
    BY <1>1, <2>1 DEF ReportedIfPassed
  <2>3. EveryDeviceFound'
    BY <1>5 DEF EveryDeviceFound
  <2>4. QED
    BY <2>2, <2>3
<1>6. CASE pc' = "scanned"
  <2>1. \A s \in ToBeFound : reports'[s] = 1
    BY <1>2, <1>3, <1>6
  <2>2. EveryDeviceFound'
    BY <1>1, <1>6, <2>1 DEF EveryDeviceFound
  <2>3. ReportedIfPassed'
    BY <1>6 DEF ReportedIfPassed, Walking
  <2>4. QED
    BY <2>2, <2>3
<1>7. QED
  BY <1>4, <1>5, <1>6

\* What a probe hears, unless a fault has spoilt the scan: it is not refused, a
\* collision leaves an open digit, and silence means that nobody is there.
LEMMA Heard ==
    ASSUME TypeOK, Walking, MaskOfWalk, ReportedIfPassed, ~spoilt',
           NEW kind \in {"ack", "data"}, NEW r,
           NEW deaf \in Deaf(Selected(mbus_frame_select_secondary_pack(mask))),
           Exchange(Selected(mbus_frame_select_secondary_pack(mask)), kind, deaf, r),
           NEW ret, Spoilt(ret),
           r \in {"invalid", "more"} <=> ret = "COLLISION",
           r = "unsent" <=> ret = "ERROR", r \in {"timeout", "error"} <=> ret = "NOTHING",
           ~(pc = "select" /\ Retried(ret))
    PROVE  /\ ~spoilt /\ ret # "ERROR"
           /\ \A s \in ToBeFound :
                /\ ret = "COLLISION" /\ Current(s) => \E p \in OpenDigits : p > pos
                /\ ret = "NOTHING" => ~Current(s)
           /\ ret = "NOTHING" => Selected(mbus_frame_select_secondary_pack(mask)) = {}
           /\ ret \notin {"COLLISION", "NOTHING"} =>
                deaf = {} /\ r \in Answers(Selected(mbus_frame_select_secondary_pack(mask)), kind)
<1> DEFINE S == Selected(mbus_frame_select_secondary_pack(mask))
<1>1. ~spoilt /\ (faults' > faults => MadeGood(ret))
  <2>1. spoilt \in BOOLEAN
    BY DEF TypeOK
  <2>2. ~(spoilt \/ (faults' > faults /\ ~MadeGood(ret)))
    BY DEF Spoilt
  <2>3. QED
    BY <2>2
<1>2. S \in SUBSET Slaves
  BY DEF Selected
<1>3. MadeGood(ret) => ret = "COLLISION" /\ \E p \in OpenDigits : p > pos
  BY DEF MadeGood, Retried
<1> HIDE DEF S
<1>4. \A s \in ToBeFound : Current(s) => s \in S
  <2> SUFFICES ASSUME NEW s \in ToBeFound, Current(s) PROVE s \in S
    OBVIOUS
  <2>1. IF OpenDigits = {} THEN pos = LastPosition ELSE pos < IdLength
    BY <1>1 DEF ReportedIfPassed
  <2>2. QED
    BY <2>1, CurrentIsSelected DEF S
<1>5. CASE faults' > faults
  <2>1. ret = "COLLISION" /\ \E p \in OpenDigits : p > pos
    BY <1>1, <1>3, <1>5
  <2>2. QED
    BY <1>1, <2>1
<1>6. CASE ~(faults' > faults)
  <2>1. deaf = {} /\ r \in Answers(S, kind)
    BY <1>2, <1>6, Faultless DEF S
  <2>2. /\ r = "timeout" <=> S = {}
        /\ r \in {"timeout", "ack", "data", "more", "invalid"}
        /\ \A s \in S : r \in {"more", "invalid"} => \E t \in S : t # s
    BY <1>2, <2>1, AnswersOf
  <2>3. ret # "ERROR"
    BY <2>2
  <2>4. ret = "NOTHING" => S = {}
    BY <2>2
  <2>5. ASSUME NEW s \in ToBeFound, ret = "COLLISION", Current(s)
        PROVE  \E p \in OpenDigits : p > pos
    <3>1. s \in S
      BY <1>4, <2>5
    <3>2. PICK t \in S : t # s
      BY <2>2, <2>5, <3>1
    <3>3. t \in Slaves
      BY <1>2
    <3>4. QED
      BY <3>1, <3>2, <3>3, TwoSelected DEF S
  <2>6. QED
    BY <1>1, <1>4, <2>1, <2>3, <2>4, <2>5 DEF S
<1>7. QED
  BY <1>5, <1>6

-----------------------------------------------------------------------------
(***************************************************************************)
(* The inductive invariant, action by action.                              *)
(***************************************************************************)

\* At first no tool runs.
LEMMA InitIInv == Init => IInv
<1> SUFFICES ASSUME Init PROVE IInv
  OBVIOUS
<1>1. pc = "idle"
  BY DEF Init
<1>2. AnyMask \in [Positions -> 0..WILD]
  BY DEF AnyMask, WILD
<1>3. TypeOK
  <2>1. /\ 0 \in Positions /\ 0 \in 0..MaxPrimary /\ 0 \in 0..MaxFaults
        /\ 0 \in 0..MaxTools /\ 0 \in 0..MaxSearchRetry
    BY DEF Positions
  <2>2. primary \in [Slaves -> 0..250] /\ selected \subseteq Slaves /\ faults \in 0..MaxFaults
    BY <2>1 DEF Init, BusInit
  <2>3. reports \in [Slaves -> 0..2] /\ answered \subseteq 1..MaxPrimary
    BY DEF Init
  <2>4. asked \in [Positions -> 0..WILD] /\ mask \in [Positions -> 0..WILD] /\ pos \in Positions
    BY <1>2, <2>1 DEF Init
  <2>5. /\ tools \in 0..MaxTools /\ tries \in 0..MaxSearchRetry
        /\ address \in 0..MaxPrimary /\ old \in 0..MaxPrimary /\ spoilt \in BOOLEAN
    BY <2>1 DEF Init
  <2>6. QED
    BY <1>1, <2>2, <2>3, <2>4, <2>5 DEF TypeOK
<1>4. MaskOfWalk /\ ReportedIfPassed /\ SelectedIsMasked /\ PingedSoFar /\ NewAddressIsFree
      /\ EveryDeviceFound
  BY <1>1 DEF MaskOfWalk, ReportedIfPassed, SelectedIsMasked, PingedSoFar, NewAddressIsFree,
              EveryDeviceFound, Walking
<1>5. QED
  BY <1>3, <1>4 DEF IInv

\* A scan starts at the first open position, with nothing passed or reported.
LEMMA StartScan2IInv ==
    ASSUME IInv, NEW m \in Masks, StartScan2(m)
    PROVE  IInv'
<1>0. /\ TypeOK /\ m \in [Positions -> 0..WILD] /\ 0 \in Positions
      /\ LastPosition \in Nat /\ IdLength \in Nat
  BY DEF IInv, Positions
<1>1. /\ asked' = m /\ Descend(0, m) /\ reports' = [s \in Slaves |-> 0] /\ spoilt' = FALSE
      /\ tools < MaxTools /\ tools' = tools + 1
      /\ UNCHANGED <<address, answered, old>>
      /\ (\E deaf \in SUBSET selected : init_slaves(deaf)) \/ UNCHANGED busVars
  BY DEF StartScan2, Start, scan1
<1>b. selected' \subseteq Slaves /\ primary' = primary /\ faults' \in 0..MaxFaults
  <2>1. CASE UNCHANGED busVars
    BY <1>0, <2>1 DEF busVars, TypeOK
  <2>2. QED
    BY <1>0, <1>1, <2>1, InitSlavesType
<1>2. /\ pos' \in Positions
      /\ \A i \in Positions : 0 <= i /\ i < pos' => m[i] # WILD
      /\ m[pos'] # WILD => pos' = LastPosition
      /\ \A i \in Positions : mask'[i] = IF i = pos' /\ m[i] = WILD THEN 0 ELSE m[i]
      /\ mask' \in [Positions -> 0..WILD]
      /\ tries' = MaxSearchRetry /\ pc' = "select"
  BY <1>0, <1>1, DescendTo
<1>3. pos' \in Nat /\ \A i \in Positions : i \in Nat /\ (i < pos' => m[i] # WILD)
  BY <1>2 DEF Positions
<1>4. TypeOK'
  <2>1. tools' \in 0..MaxTools
    BY <1>0, <1>1 DEF TypeOK
  <2>2. tries' \in 0..MaxSearchRetry /\ spoilt' \in BOOLEAN
    <3>1. MaxSearchRetry \in 0..MaxSearchRetry
      OBVIOUS
    <3>2. QED
      BY <1>1, <1>2, <3>1
  <2>3. reports' \in [Slaves -> 0..2]
    BY <1>1
  <2>4. QED
    BY <1>0, <1>1, <1>2, <1>b, <2>1, <2>2, <2>3 DEF TypeOK
<1>5. MaskOfWalk'
  <2>1. ASSUME NEW p \in Positions
        PROVE  IF m[p] = WILD /\ p <= pos' THEN mask'[p] \in 0..LastDigit ELSE mask'[p] = m[p]
    <3>1. CASE m[p] = WILD /\ p <= pos'
      <4>1. p = pos'
        BY <1>2, <1>3, <3>1
      <4>2. mask'[p] = 0
        BY <1>2, <3>1, <4>1
      <4>3. QED
        BY <3>1, <4>2 DEF LastDigit
    <3>2. CASE ~(m[p] = WILD /\ p <= pos')
      <4>1. pos' <= pos'
        BY <1>2, <1>3
      <4>2. ~(p = pos' /\ m[p] = WILD)
        BY <3>2, <4>1
      <4>3. QED
        BY <1>2, <3>2, <4>2
    <3>3. QED
      BY <3>1, <3>2
  <2>2. QED
    BY <1>1, <2>1 DEF MaskOfWalk
<1>6. ASSUME NEW s \in ToBeFound'
      PROVE  /\ ~Passed(s)'
             /\ IF OpenDigits' = {} THEN pos' = LastPosition ELSE pos' < IdLength
  <2>0. \A q \in OpenDigits' : q \in Positions /\ q < IdLength /\ m[q] = WILD
    BY <1>0, <1>1 DEF OpenDigits, Positions
  <2>1. \A q \in OpenDigits' : q >= pos' /\ (q <= pos' => mask'[q] = 0)
    <3> SUFFICES ASSUME NEW q \in OpenDigits' PROVE q >= pos' /\ (q <= pos' => mask'[q] = 0)
      OBVIOUS
    <3>1. q \in Nat /\ q >= pos'
      <4>1. q \in Nat /\ ~(q < pos')
        BY <1>3, <2>0
      <4>2. QED
        BY <1>3, <4>1
    <3>2. q <= pos' => q = pos'
      BY <1>2, <1>3, <3>1
    <3>3. QED
      BY <1>2, <2>0, <3>1, <3>2
  <2>2. \A q \in Positions : Address[s][q] \in 0..14
    BY DEF ToBeFound
  <2>3. ~Passed(s)'
    <3> SUFFICES ASSUME NEW q \in OpenDigits', q <= pos', Address[s][q] < mask'[q] PROVE FALSE
      BY DEF Passed
    <3>1. mask'[q] = 0 /\ Address[s][q] \in 0..14
      BY <2>0, <2>1, <2>2
    <3>2. QED
      BY <3>1
  <2>4. CASE OpenDigits' = {}
    <3>1. m[pos'] # WILD
      BY <1>1, <1>2, <2>4 DEF ToBeFound, Searched
    <3>2. QED
      BY <1>2, <2>3, <2>4, <3>1
  <2>5. CASE OpenDigits' # {}
    <3>1. PICK q : q \in OpenDigits'
      BY <2>5
    <3>2. q >= pos' /\ q < IdLength /\ q \in Nat
      BY <1>3, <2>0, <2>1, <3>1
    <3>3. pos' < IdLength
      BY <1>0, <1>3, <3>2
    <3>4. QED
      BY <2>3, <2>5, <3>3
  <2>6. QED
    BY <2>4, <2>5
<1>7. ReportedIfPassed'
  <2>1. \A s \in ToBeFound' : reports'[s] = 0
    BY <1>1 DEF ToBeFound
  <2>2. QED
    BY <1>6, <2>1 DEF ReportedIfPassed
<1>8. SelectedIsMasked' /\ PingedSoFar' /\ NewAddressIsFree' /\ EveryDeviceFound'
  BY <1>2 DEF SelectedIsMasked, PingedSoFar, NewAddressIsFree, EveryDeviceFound
<1>9. QED
  BY <1>4, <1>5, <1>7, <1>8 DEF IInv

\* A selection answered by one slave is followed by the request, one that is not
\* answered is repeated, and every other ends the probe.
LEMMA SelectIInv ==
    ASSUME IInv, Select
    PROVE  IInv'
<1> DEFINE data == mbus_frame_select_secondary_pack(mask)
<1>1. PICK r \in Received("ack"), deaf \in Deaf(Selected(data)) :
        /\ Exchange(Selected(data), "ack", deaf, r)
        /\ selected' = SelectedBy(data, deaf, r)
        /\ Spoilt(mbus_select_secondary_address(r))
        /\ CASE mbus_select_secondary_address(r) = "SINGLE" ->
                  pc' = "request" /\ UNCHANGED <<mask, pos, tries>>
             [] Retried(mbus_select_secondary_address(r)) ->
                  tries' = tries - 1 /\ UNCHANGED <<pc, mask, pos>>
             [] OTHER -> mbus_scan_2nd_address_range(mbus_select_secondary_address(r))
  BY DEF Select
<1> DEFINE ret == mbus_select_secondary_address(r)
<1>2. /\ r \in {"invalid", "more"} <=> ret = "COLLISION"
      /\ r = "unsent" <=> ret = "ERROR"
      /\ r \in {"timeout", "error"} <=> ret = "NOTHING"
      /\ r = "ack" <=> ret = "SINGLE"
      /\ ret \in {"SINGLE", "COLLISION", "NOTHING", "ERROR"}
  <2>1. r \in {"ack", "more", "invalid", "timeout", "error", "unsent"}
    BY DEF Received
  <2>2. QED
    BY <2>1 DEF mbus_select_secondary_address
<1>3. /\ TypeOK /\ MaskOfWalk /\ ReportedIfPassed /\ pc = "select" /\ Walking
      /\ UNCHANGED <<primary, tools, asked, reports, address, answered, old>>
  BY DEF IInv, Select, Walking, scan1
<1>4. Selected(data) \in SUBSET Slaves
  BY DEF Selected
<1> HIDE DEF data
<1>5. /\ Exchange(Selected(data), "ack", deaf, r) /\ selected' = SelectedBy(data, deaf, r)
      /\ Spoilt(ret)
  BY <1>1
<1>6. selected' \subseteq Slaves /\ faults' \in 0..MaxFaults /\ spoilt' \in BOOLEAN
  <2>1. faults' \in 0..MaxFaults /\ deaf \subseteq Slaves
    BY <1>3, <1>4, <1>5, FaultsType
  <2>2. spoilt' \in BOOLEAN
    BY <1>5 DEF Spoilt
  <2>3. selected' \subseteq Slaves
    BY <1>3, <1>4, <1>5 DEF SelectedBy, TypeOK
  <2>4. QED
    BY <2>1, <2>2, <2>3
<1>7. ASSUME ~spoilt', ~Retried(ret)
      PROVE  /\ ~spoilt /\ ret # "ERROR"
             /\ \A s \in ToBeFound :
                  /\ ret = "COLLISION" /\ Current(s) => \E p \in OpenDigits : p > pos
                  /\ ret = "NOTHING" => ~Current(s)
             /\ ret = "NOTHING" => Selected(data) = {}
             /\ ret \notin {"COLLISION", "NOTHING"} => deaf = {} /\ r \in Answers(Selected(data), "ack")
  <2> HIDE DEF ret
  <2>1. deaf \in Deaf(Selected(data)) /\ "ack" \in {"ack", "data"}
    BY <1>1
  <2>2. QED
    BY <1>2, <1>3, <1>5, <1>7, <2>1, Heard DEF data
<1>8. SelectedIsMasked' /\ PingedSoFar' /\ NewAddressIsFree' /\ EveryDeviceFound' /\ TypeOK'
      /\ MaskOfWalk' /\ ReportedIfPassed'
  <2>1. CASE ret = "SINGLE"
    <3>1. pc' = "request" /\ UNCHANGED <<mask, pos, tries>>
      BY <1>1, <2>1 DEF Retried
    <3>2. TypeOK'
      BY <1>3, <1>6, <3>1 DEF TypeOK
    <3>3. MaskOfWalk'
      BY <1>3, <3>1 DEF MaskOfWalk, Walking
    <3>4. ~Retried(ret)
      BY <2>1 DEF Retried
    <3>5. ReportedIfPassed'
      <4>1. ~spoilt' => ~spoilt
        BY <1>7, <3>4
      <4>2. /\ ToBeFound' = ToBeFound /\ OpenDigits' = OpenDigits
            /\ \A s \in ToBeFound : (Passed(s)' <=> Passed(s)) /\ (Current(s)' <=> Current(s))
        BY <1>3, <3>1 DEF ToBeFound, Searched, OpenDigits, Passed, Current
      <4>3. QED
        BY <1>3, <3>1, <4>1, <4>2 DEF ReportedIfPassed
    <3>6. SelectedIsMasked'
      <4> SUFFICES ASSUME ~spoilt' PROVE selected' # {} /\ selected' = Selected(data)
        BY <3>1 DEF SelectedIsMasked, data
      <4>1. deaf = {} /\ r \in Answers(Selected(data), "ack") /\ r = "ack"
        BY <1>2, <1>7, <2>1, <3>4
      <4>2. selected' = Selected(data)
        BY <1>5, <4>1 DEF SelectedBy
      <4>3. Selected(data) # {}
        BY <1>4, <4>1, AnswersOf
      <4>4. QED
        BY <4>2, <4>3
    <3>7. PingedSoFar' /\ NewAddressIsFree' /\ EveryDeviceFound'
      BY <3>1 DEF PingedSoFar, NewAddressIsFree, EveryDeviceFound
    <3>8. QED
      BY <3>2, <3>3, <3>5, <3>6, <3>7
  <2>2. CASE ret # "SINGLE" /\ Retried(ret)
    <3>1. tries' = tries - 1 /\ UNCHANGED <<pc, mask, pos>> /\ tries > 0 /\ tries \in 0..MaxSearchRetry
      BY <1>1, <1>3, <2>2 DEF Retried, TypeOK
    <3>2. tries' \in 0..MaxSearchRetry
      BY <3>1
    <3>3. TypeOK'
      BY <1>3, <1>6, <3>1, <3>2 DEF TypeOK
    <3>4. MaskOfWalk'
      BY <1>3, <3>1 DEF MaskOfWalk, Walking
    <3>5. ReportedIfPassed'
      <4>1. ~spoilt' => ~spoilt
        BY <1>5 DEF Spoilt
      <4>2. /\ ToBeFound' = ToBeFound /\ OpenDigits' = OpenDigits
            /\ \A s \in ToBeFound : (Passed(s)' <=> Passed(s)) /\ (Current(s)' <=> Current(s))
        BY <1>3, <3>1 DEF ToBeFound, Searched, OpenDigits, Passed, Current
      <4>3. QED
        BY <1>3, <3>1, <4>1, <4>2 DEF ReportedIfPassed, Walking
    <3>6. SelectedIsMasked' /\ PingedSoFar' /\ NewAddressIsFree' /\ EveryDeviceFound'
      BY <1>3, <3>1 DEF SelectedIsMasked, PingedSoFar, NewAddressIsFree, EveryDeviceFound
    <3>7. QED
      BY <3>3, <3>4, <3>5, <3>6
  <2>3. CASE ret # "SINGLE" /\ ~Retried(ret)
    <3>1. mbus_scan_2nd_address_range(ret)
      BY <1>1, <2>3
    <3> HIDE DEF ret
    <3>2. /\ pc' \in {"select", "scanned"} /\ mask' \in [Positions -> 0..WILD]
          /\ pos' \in Positions /\ tries' \in 0..MaxSearchRetry /\ MaskOfWalk'
      BY <1>3, <3>1, RangeType
    <3>3. TypeOK'
      BY <1>3, <1>6, <3>2 DEF TypeOK
    <3>4. ReportedIfPassed' /\ EveryDeviceFound'
      <4>1. CASE spoilt'
        BY <3>2, <4>1 DEF ReportedIfPassed, EveryDeviceFound
      <4>2. CASE ~spoilt'
        <5>1. ~spoilt /\ ret \in {"COLLISION", "NOTHING"}
          BY <1>2, <1>7, <2>3, <4>2
        <5>2. ret \in {"SINGLE", "COLLISION", "NOTHING"}
          BY <5>1
        <5>3. \A s \in ToBeFound :
                /\ reports'[s] = IF Passed(s) \/ (Current(s) /\ ret = "SINGLE") THEN 1 ELSE 0
                /\ ret = "COLLISION" /\ Current(s) => \E p \in OpenDigits : p > pos
                /\ ret = "NOTHING" => ~Current(s)
          BY <1>3, <1>7, <2>3, <4>2, <5>1 DEF ReportedIfPassed
        <5>4. QED
          BY <1>3, <3>1, <5>1, <5>2, <5>3, WalkReports
      <4>3. QED
        BY <4>1, <4>2
    <3>5. SelectedIsMasked' /\ PingedSoFar' /\ NewAddressIsFree'
      BY <3>2 DEF SelectedIsMasked, PingedSoFar, NewAddressIsFree
    <3>6. QED
      BY <3>2, <3>3, <3>4, <3>5
  <2>4. QED
    BY <2>1, <2>2, <2>3
<1>9. QED
  BY <1>8 DEF IInv

\* A request answered by the one slave that is selected reports it.
LEMMA RequestIInv ==
    ASSUME IInv, Request
    PROVE  IInv'
<1> DEFINE data == mbus_frame_select_secondary_pack(mask)
<1>1. PICK r \in Received("data"), deaf \in Deaf(selected) :
        /\ Exchange(selected, "data", deaf, r)
        /\ reports' = [s \in Slaves |->
                         IF Identified(r) = "SINGLE" /\ s \in selected \ deaf /\ reports[s] < 2
                         THEN reports[s] + 1 ELSE reports[s]]
        /\ Spoilt(Identified(r))
        /\ mbus_scan_2nd_address_range(Identified(r))
  BY DEF Request
<1> DEFINE ret == Identified(r)
<1>2. /\ r \in {"invalid", "more"} <=> ret = "COLLISION"
      /\ r = "unsent" <=> ret = "ERROR"
      /\ r \in {"timeout", "error"} <=> ret = "NOTHING"
      /\ r = "data" <=> ret = "SINGLE"
      /\ ret \in {"SINGLE", "COLLISION", "NOTHING", "ERROR"}
  <2>1. r \in {"data", "more", "invalid", "timeout", "error", "unsent"}
    BY DEF Received
  <2>2. QED
    BY <2>1 DEF Identified
<1>3. /\ TypeOK /\ MaskOfWalk /\ ReportedIfPassed /\ SelectedIsMasked /\ pc = "request" /\ Walking
      /\ UNCHANGED <<selected, primary, tools, asked, address, answered, old>>
  BY DEF IInv, Request, Walking, scan1
<1> HIDE DEF data
<1>4. /\ Exchange(selected, "data", deaf, r) /\ Spoilt(ret) /\ mbus_scan_2nd_address_range(ret)
      /\ reports' = [s \in Slaves |->
                       IF ret = "SINGLE" /\ s \in selected \ deaf /\ reports[s] < 2
                       THEN reports[s] + 1 ELSE reports[s]]
  BY <1>1
<1> HIDE DEF ret
<1>5. selected \in SUBSET Slaves /\ reports \in [Slaves -> 0..2]
  BY <1>3 DEF TypeOK
<1>6. faults' \in 0..MaxFaults /\ spoilt' \in BOOLEAN /\ reports' \in [Slaves -> 0..2]
  <2>1. faults' \in 0..MaxFaults
    BY <1>3, <1>4, <1>5, FaultsType
  <2>2. spoilt' \in BOOLEAN
    BY <1>4 DEF Spoilt
  <2>3. \A s \in Slaves : (IF ret = "SINGLE" /\ s \in selected \ deaf /\ reports[s] < 2
                           THEN reports[s] + 1 ELSE reports[s]) \in 0..2
    <3>1. \A s \in Slaves : reports[s] \in 0..2
      BY <1>5
    <3>2. QED
      BY <3>1
  <2>4. reports' \in [Slaves -> 0..2]
    BY <1>4, <2>3
  <2>5. QED
    BY <2>1, <2>2, <2>4
<1>7. /\ pc' \in {"select", "scanned"} /\ mask' \in [Positions -> 0..WILD]
      /\ pos' \in Positions /\ tries' \in 0..MaxSearchRetry /\ MaskOfWalk'
  BY <1>3, <1>4, RangeType
<1>8. TypeOK'
  BY <1>3, <1>6, <1>7 DEF TypeOK
<1>9. ReportedIfPassed' /\ EveryDeviceFound'
  <2>1. CASE spoilt'
    BY <1>7, <2>1 DEF ReportedIfPassed, EveryDeviceFound
  <2>2. CASE ~spoilt'
    <3>1. ~spoilt
      BY <1>3, <1>4, <2>2 DEF Spoilt, TypeOK
    <3>2. selected # {} /\ selected = Selected(data)
      BY <1>3, <3>1 DEF SelectedIsMasked, data
    <3>3. deaf \in Deaf(Selected(data)) /\ Exchange(Selected(data), "data", deaf, r)
      BY <1>4, <3>2
    <3>4. ~(pc = "select" /\ Retried(ret)) /\ "data" \in {"ack", "data"}
      BY <1>3
    <3>5. /\ ret # "ERROR"
          /\ \A s \in ToBeFound :
                /\ ret = "COLLISION" /\ Current(s) => \E p \in OpenDigits : p > pos
                /\ ret = "NOTHING" => ~Current(s)
          /\ ret = "NOTHING" => Selected(data) = {}
          /\ ret \notin {"COLLISION", "NOTHING"} => deaf = {} /\ r \in Answers(Selected(data), "data")
      BY <1>2, <1>3, <1>4, <2>2, <3>3, <3>4, Heard DEF data
    <3>6. ret \in {"SINGLE", "COLLISION", "NOTHING"}
      BY <1>2, <3>5
    <3>7. \A s \in ToBeFound : reports'[s] = IF Passed(s) \/ (Current(s) /\ ret = "SINGLE") THEN 1 ELSE 0
      <4> SUFFICES ASSUME NEW s \in ToBeFound
                   PROVE  reports'[s] = IF Passed(s) \/ (Current(s) /\ ret = "SINGLE") THEN 1 ELSE 0
        OBVIOUS
      <4>0. s \in Slaves /\ reports[s] = IF Passed(s) THEN 1 ELSE 0
        BY <1>3, <3>1 DEF ToBeFound, ReportedIfPassed
      <4>1. CASE ret # "SINGLE"
        BY <1>4, <4>0, <4>1
      <4>2. CASE ret = "SINGLE"
        <5>1. deaf = {} /\ r = "data" /\ r \in Answers(selected, "data")
          BY <1>2, <3>2, <3>5, <4>2
        <5>2. PICK u : selected = {u}
          BY <1>5, <5>1, AnswersOf
        <5>3. reports'[s] = IF s = u /\ reports[s] < 2 THEN reports[s] + 1 ELSE reports[s]
          BY <1>4, <4>0, <4>2, <5>1, <5>2
        <5>4. ~(Passed(s) /\ Current(s))
          BY <1>3, Trichotomy
        <5>5. Current(s) => s = u
          <6> SUFFICES ASSUME Current(s) PROVE s = u
            OBVIOUS
          <6>1. IF OpenDigits = {} THEN pos = LastPosition ELSE pos < IdLength
            BY <1>3, <3>1 DEF ReportedIfPassed
          <6>2. s \in Selected(data)
            BY <1>3, <6>1, CurrentIsSelected DEF data
          <6>3. QED
            BY <3>2, <5>2, <6>2
        <5>6. s = u => Current(s)
          <6> SUFFICES ASSUME s = u PROVE Current(s)
            OBVIOUS
          <6>1. s \in Selected(data)
            BY <3>2, <5>2
          <6>2. QED
            BY <1>3, <6>1, OnlyCurrentIsSelected DEF data
        <5>7. CASE s = u
          <6>1. ~Passed(s) /\ Current(s) /\ reports[s] = 0
            BY <4>0, <5>4, <5>6, <5>7
          <6>2. reports'[s] = 1
            BY <5>3, <5>7, <6>1
          <6>3. QED
            BY <4>2, <6>1, <6>2
        <5>8. CASE s # u
          BY <4>0, <5>3, <5>5, <5>8
        <5>9. QED
          BY <5>7, <5>8
      <4>3. QED
        BY <4>1, <4>2
    <3>8. \A s \in ToBeFound :
            /\ reports'[s] = IF Passed(s) \/ (Current(s) /\ ret = "SINGLE") THEN 1 ELSE 0
            /\ ret = "COLLISION" /\ Current(s) => \E p \in OpenDigits : p > pos
            /\ ret = "NOTHING" => ~Current(s)
      BY <3>5, <3>7
    <3>9. QED
      BY <1>3, <1>4, <3>1, <3>6, <3>8, WalkReports
  <2>3. QED
    BY <2>1, <2>2
<1>10. SelectedIsMasked' /\ PingedSoFar' /\ NewAddressIsFree'
  BY <1>7 DEF SelectedIsMasked, PingedSoFar, NewAddressIsFree
<1>11. QED
  BY <1>7, <1>8, <1>9, <1>10 DEF IInv

\* The scan of the primary addresses starts at the first.
LEMMA StartScan1IInv ==
    ASSUME IInv, StartScan1
    PROVE  IInv'
<1>1. /\ TypeOK /\ tools < MaxTools /\ tools' = tools + 1 /\ spoilt' = FALSE
      /\ address' = 1 /\ answered' = {} /\ tries' = MaxSearchRetry /\ pc' = "ping"
      /\ UNCHANGED <<selected, primary, faults, asked, mask, pos, reports, old>>
  BY DEF IInv, StartScan1, Start, busVars, scan2
<1>2. TypeOK'
  <2>1. tools' \in 0..MaxTools
    BY <1>1 DEF TypeOK
  <2>2. MaxSearchRetry \in 0..MaxSearchRetry /\ 1 \in 0..MaxPrimary
    OBVIOUS
  <2>3. QED
    BY <1>1, <2>1, <2>2 DEF TypeOK
<1>3. PingedSoFar'
  <2>1. {a \in 1..(1 - 1) : At(a)' # {}} = {}
    OBVIOUS
  <2>2. QED
    BY <1>1, <2>1 DEF PingedSoFar
<1>4. /\ MaskOfWalk' /\ ReportedIfPassed' /\ SelectedIsMasked' /\ NewAddressIsFree'
      /\ EveryDeviceFound'
  BY <1>1 DEF MaskOfWalk, ReportedIfPassed, SelectedIsMasked, NewAddressIsFree,
              EveryDeviceFound, Walking
<1>5. QED
  BY <1>2, <1>3, <1>4 DEF IInv

\* A ping of an address where a slave listens is answered, one of another is not.
LEMMA PingIInv ==
    ASSUME IInv, mbus_ping_address
    PROVE  IInv'
<1>1. PICK r \in Received("ack"), deaf \in Deaf(At(address)) :
        /\ Exchange(At(address), "ack", deaf, r)
        /\ IF r = "timeout" /\ tries > 0
           THEN /\ tries' = tries - 1
                /\ UNCHANGED <<pc, address, answered, spoilt>>
           ELSE /\ tries' = MaxSearchRetry
                /\ answered' = IF r \in {"ack", "more", "invalid"}
                               THEN answered \cup {address} ELSE answered
                /\ spoilt' = (spoilt \/ faults' > faults)
                /\ IF address < MaxPrimary
                   THEN address' = address + 1 /\ UNCHANGED pc
                   ELSE pc' = "pinged" /\ UNCHANGED address
  BY DEF mbus_ping_address
<1>2. /\ TypeOK /\ PingedSoFar /\ pc = "ping" /\ address \in 1..MaxPrimary
      /\ UNCHANGED <<selected, primary, tools, asked, mask, pos, reports, old>>
  BY DEF IInv, mbus_ping_address, PingedSoFar, TypeOK, scan2
<1>3. At(address) \in SUBSET Slaves
  BY DEF At
<1>4. faults' \in 0..MaxFaults
  BY <1>1, <1>2, <1>3, FaultsType
<1>5. pc' \in {"ping", "pinged"}
  BY <1>1, <1>2
<1>6. /\ MaskOfWalk' /\ ReportedIfPassed' /\ SelectedIsMasked' /\ NewAddressIsFree'
  BY <1>5 DEF MaskOfWalk, ReportedIfPassed, SelectedIsMasked, NewAddressIsFree, Walking
<1>7. \A a : At(a)' = At(a)
  BY <1>2 DEF At
<1>8. CASE r = "timeout" /\ tries > 0
  <2>1. tries' = tries - 1 /\ UNCHANGED <<pc, address, answered, spoilt>>
    BY <1>1, <1>8
  <2>2. tries' \in 0..MaxSearchRetry
    BY <1>2, <1>8, <2>1 DEF TypeOK
  <2>3. TypeOK'
    BY <1>2, <1>4, <2>1, <2>2 DEF TypeOK
  <2>4. PingedSoFar' /\ EveryDeviceFound'
    BY <1>2, <1>7, <2>1 DEF PingedSoFar, EveryDeviceFound
  <2>5. QED
    BY <1>6, <2>3, <2>4 DEF IInv
<1>9. CASE ~(r = "timeout" /\ tries > 0)
  <2>1. /\ tries' = MaxSearchRetry
        /\ answered' = IF r \in {"ack", "more", "invalid"}
                       THEN answered \cup {address} ELSE answered
        /\ spoilt' = (spoilt \/ faults' > faults)
        /\ IF address < MaxPrimary
           THEN address' = address + 1 /\ UNCHANGED pc
           ELSE pc' = "pinged" /\ UNCHANGED address
    BY <1>1, <1>9
  <2>2. TypeOK'
    <3>1. MaxSearchRetry \in 0..MaxSearchRetry
      OBVIOUS
    <3>2. address' \in 0..MaxPrimary
      BY <1>2, <2>1
    <3>3. answered' \subseteq 1..MaxPrimary
      BY <1>2, <2>1 DEF TypeOK
    <3>4. spoilt' \in BOOLEAN
      BY <2>1
    <3>5. QED
      BY <1>2, <1>4, <1>5, <2>1, <3>1, <3>2, <3>3, <3>4 DEF TypeOK
  <2>3. ASSUME ~spoilt' PROVE answered' = {a \in 1..address : At(a) # {}}
    <3>1. ~spoilt /\ ~(faults' > faults)
      BY <1>2, <2>1, <2>3 DEF TypeOK
    <3>2. r \in Answers(At(address), "ack")
      BY <1>1, <1>2, <1>3, <3>1, Faultless
    <3>3. r = "timeout" <=> At(address) = {}
      BY <1>3, <3>2, AnswersOf
    <3>4. r \in {"timeout", "ack", "data", "more", "invalid"}
      BY <1>3, <3>2, AnswersOf
    <3>5. r # "data"
      BY <1>1 DEF Received
    <3>6. r \in {"ack", "more", "invalid"} <=> At(address) # {}
      BY <3>3, <3>4, <3>5
    <3>7. answered = {a \in 1..(address - 1) : At(a) # {}}
      BY <1>2, <3>1 DEF PingedSoFar
    <3>8. \A a : a \in 1..address <=> a \in 1..(address - 1) \/ a = address
      BY <1>2
    <3>9. answered' = {a \in 1..address : At(a) # {}}
      <4>1. CASE At(address) # {}
        <5>1. answered' = answered \cup {address}
          BY <2>1, <3>6, <4>1
        <5>2. QED
          BY <3>7, <3>8, <4>1, <5>1
      <4>2. CASE At(address) = {}
        <5>1. answered' = answered
          BY <2>1, <3>6, <4>2
        <5>2. QED
          BY <3>7, <3>8, <4>2, <5>1
      <4>3. QED
        BY <4>1, <4>2
    <3>10. QED
      BY <3>9
  <2>4. CASE address < MaxPrimary
    <3>1. address' = address + 1 /\ pc' = "ping"
      BY <1>2, <2>1, <2>4
    <3>2. address' >= 1 /\ address' - 1 = address
      BY <1>2, <3>1
    <3>3. PingedSoFar'
      BY <1>7, <2>3, <3>1, <3>2 DEF PingedSoFar
    <3>4. EveryDeviceFound'
      BY <3>1 DEF EveryDeviceFound
    <3>5. QED
      BY <1>6, <2>2, <3>3, <3>4 DEF IInv
  <2>5. CASE ~(address < MaxPrimary)
    <3>1. pc' = "pinged" /\ address = MaxPrimary
      BY <1>2, <2>1, <2>5
    <3>2. EveryDeviceFound'
      BY <1>7, <2>3, <3>1 DEF EveryDeviceFound
    <3>3. PingedSoFar'
      BY <3>1 DEF PingedSoFar
    <3>4. QED
      BY <1>6, <2>2, <3>2, <3>3 DEF IInv
  <2>6. QED
    BY <2>4, <2>5
<1>10. QED
  BY <1>8, <1>9

\* Nothing is known of the new address before its ping.
LEMMA StartSetIInv ==
    ASSUME IInv, NEW o \in 0..MaxPrimary \cup {NETWORK_LAYER}, NEW m \in [Positions -> 0..WILD],
           NEW a \in 0..MaxPrimary, StartSet(o, m, a)
    PROVE  IInv'
<1>1. /\ TypeOK /\ tools < MaxTools /\ tools' = tools + 1 /\ spoilt' = FALSE
      /\ old' = o /\ asked' = m /\ address' = a /\ pc' = "verify"
      /\ UNCHANGED <<tries, mask, pos, reports, answered>>
      /\ \E deaf \in SUBSET selected : init_slaves(deaf)
  BY DEF IInv, StartSet, Start
<1>2. TypeOK'
  <2>1. tools' \in 0..MaxTools
    BY <1>1 DEF TypeOK
  <2>2. selected' \subseteq Slaves /\ primary' = primary /\ faults' \in 0..MaxFaults
    BY <1>1, InitSlavesType
  <2>3. QED
    BY <1>1, <2>1, <2>2 DEF TypeOK
<1>3. /\ MaskOfWalk' /\ ReportedIfPassed' /\ SelectedIsMasked' /\ PingedSoFar' /\ NewAddressIsFree'
      /\ EveryDeviceFound'
  BY <1>1 DEF MaskOfWalk, ReportedIfPassed, SelectedIsMasked, PingedSoFar, NewAddressIsFree,
              EveryDeviceFound, Walking
<1>4. QED
  BY <1>2, <1>3 DEF IInv

\* Only silence lets the tool go on, and without a fault it means that the
\* address is nobody's.
LEMMA VerifyIInv ==
    ASSUME IInv, Verify
    PROVE  IInv'
<1>1. PICK r \in Received("ack"), deaf \in Deaf(At(address)) :
        /\ Exchange(At(address), "ack", deaf, r)
        /\ spoilt' = (faults' > faults)
        /\ pc' = IF ~Verified(r) THEN "set" ELSE IF old = NETWORK_LAYER THEN "choose" ELSE "change"
  BY DEF Verify
<1>2. /\ TypeOK
      /\ UNCHANGED <<selected, primary, tools, tries, asked, mask, pos, reports, address, answered,
                     old>>
  BY DEF IInv, Verify, scan1, scan2
<1>3. At(address) \in SUBSET Slaves /\ At(address)' = At(address)
  BY <1>2 DEF At
<1>4. faults' \in 0..MaxFaults /\ pc' \in {"set", "choose", "change"} /\ spoilt' \in BOOLEAN
  <2>1. faults' \in 0..MaxFaults
    BY <1>1, <1>2, <1>3, FaultsType
  <2>2. QED
    BY <1>1, <2>1
<1>5. TypeOK'
  BY <1>2, <1>4 DEF TypeOK
<1>6. NewAddressIsFree'
  <2> SUFFICES ASSUME pc' \in {"choose", "change"}, ~spoilt' PROVE At(address) = {}
    BY <1>3 DEF NewAddressIsFree
  <2>1. r = "timeout"
    BY <1>1 DEF Verified
  <2>2. r \in Answers(At(address), "ack")
    BY <1>1, <1>2, <1>3, Faultless
  <2>3. QED
    BY <1>3, <2>1, <2>2, AnswersOf
<1>7. /\ MaskOfWalk' /\ ReportedIfPassed' /\ SelectedIsMasked' /\ PingedSoFar' /\ EveryDeviceFound'
  BY <1>4 DEF MaskOfWalk, ReportedIfPassed, SelectedIsMasked, PingedSoFar, EveryDeviceFound, Walking
<1>8. QED
  BY <1>5, <1>6, <1>7 DEF IInv

\* A selection changes no address.
LEMMA ChooseIInv ==
    ASSUME IInv, Choose
    PROVE  IInv'
<1> DEFINE data == mbus_frame_select_secondary_pack(asked)
<1>1. PICK r \in Received("ack"), deaf \in Deaf(Selected(data)) :
        /\ Exchange(Selected(data), "ack", deaf, r)
        /\ selected' = SelectedBy(data, deaf, r)
        /\ pc' = IF mbus_select_secondary_address(r) = "SINGLE" THEN "change" ELSE "set"
  BY DEF Choose
<1>2. /\ TypeOK /\ NewAddressIsFree /\ pc = "choose"
      /\ UNCHANGED <<primary, tools, tries, asked, mask, pos, reports, address, answered, old, spoilt>>
  BY DEF IInv, Choose, scan1, scan2
<1>3. Selected(data) \in SUBSET Slaves /\ At(address)' = At(address)
  BY <1>2 DEF At, Selected
<1> HIDE DEF data
<1>4. faults' \in 0..MaxFaults
  BY <1>1, <1>2, <1>3, FaultsType
<1>5. selected' \subseteq Slaves
  BY <1>1, <1>2, <1>3 DEF SelectedBy, TypeOK
<1>6. pc' \in {"set", "change"}
  BY <1>1
<1>7. TypeOK'
  BY <1>2, <1>4, <1>5, <1>6 DEF TypeOK
<1>8. NewAddressIsFree'
  BY <1>2, <1>3 DEF NewAddressIsFree
<1>9. /\ MaskOfWalk' /\ ReportedIfPassed' /\ SelectedIsMasked' /\ PingedSoFar' /\ EveryDeviceFound'
  BY <1>6 DEF MaskOfWalk, ReportedIfPassed, SelectedIsMasked, PingedSoFar, EveryDeviceFound, Walking
<1>10. QED
  BY <1>7, <1>8, <1>9 DEF IInv

\* Whoever hears the new address has it, and the others keep theirs.
LEMMA SetPrimaryAddress ==
    ASSUME IInv, mbus_set_primary_address
    PROVE  /\ IInv'
           /\ \A s \in Slaves : primary'[s] \in {primary[s], address}
<1> DEFINE to == IF old = NETWORK_LAYER THEN selected ELSE At(old)
<1>1. PICK r \in Received("ack"), deaf \in Deaf(to) :
        /\ Exchange(to, "ack", deaf, r)
        /\ primary' = [s \in Slaves |->
                         IF s \in to \ deaf /\ r # "unsent" THEN address ELSE primary[s]]
  BY DEF mbus_set_primary_address
<1>2. /\ TypeOK /\ pc' = "set"
      /\ UNCHANGED <<selected, tools, tries, asked, mask, pos, reports, address, answered, old, spoilt>>
  BY DEF IInv, mbus_set_primary_address, scan1, scan2
<1>3. to \in SUBSET Slaves
  BY <1>2 DEF At, TypeOK
<1> HIDE DEF to
<1>4. faults' \in 0..MaxFaults
  BY <1>1, <1>2, <1>3, FaultsType
<1>5. address \in 0..250
  BY <1>2 DEF TypeOK
<1>6. primary' \in [Slaves -> 0..250] /\ \A s \in Slaves : primary'[s] \in {primary[s], address}
  BY <1>1, <1>2, <1>5 DEF TypeOK
<1>7. TypeOK'
  BY <1>2, <1>4, <1>6 DEF TypeOK
<1>8. /\ MaskOfWalk' /\ ReportedIfPassed' /\ SelectedIsMasked' /\ PingedSoFar' /\ NewAddressIsFree'
      /\ EveryDeviceFound'
  BY <1>2 DEF MaskOfWalk, ReportedIfPassed, SelectedIsMasked, PingedSoFar, NewAddressIsFree,
              EveryDeviceFound, Walking
<1>9. QED
  BY <1>6, <1>7, <1>8 DEF IInv

\* A tool that cannot send its first frame is over.
LEMMA InitFailsIInv ==
    ASSUME IInv, InitFails
    PROVE  IInv'
<1>1. /\ TypeOK /\ tools < MaxTools /\ tools' = tools + 1 /\ spoilt' = FALSE /\ pc' = "idle"
      /\ faults < MaxFaults /\ faults' = faults + 1 /\ selected' \in {selected, {}}
      /\ UNCHANGED <<primary, tries, asked, mask, pos, reports, address, answered, old>>
  BY DEF IInv, InitFails, Start, scan1, scan2
<1>2. TypeOK'
  <2>1. tools' \in 0..MaxTools /\ faults' \in 0..MaxFaults
    BY <1>1 DEF TypeOK
  <2>2. QED
    BY <1>1, <2>1 DEF TypeOK
<1>3. /\ MaskOfWalk' /\ ReportedIfPassed' /\ SelectedIsMasked' /\ PingedSoFar' /\ NewAddressIsFree'
      /\ EveryDeviceFound'
  BY <1>1 DEF MaskOfWalk, ReportedIfPassed, SelectedIsMasked, PingedSoFar, NewAddressIsFree,
              EveryDeviceFound, Walking
<1>4. QED
  BY <1>2, <1>3 DEF IInv

\* A step that changes nothing keeps the invariant.
LEMMA StutterIInv ==
    ASSUME IInv, UNCHANGED vars
    PROVE  IInv'
<1>1. /\ UNCHANGED <<selected, primary, faults, pc, tools, tries, asked, mask, pos, reports>>
      /\ UNCHANGED <<address, answered, old, spoilt>>
  BY DEF vars, busVars, scan1, scan2
<1>2. TypeOK' /\ MaskOfWalk'
  BY <1>1 DEF IInv, TypeOK, MaskOfWalk, Walking
<1>3. ToBeFound' = ToBeFound /\ OpenDigits' = OpenDigits
  BY <1>1 DEF ToBeFound, Searched, OpenDigits
<1>4. ReportedIfPassed'
  <2>1. \A s \in ToBeFound : (Passed(s)' <=> Passed(s)) /\ (Current(s)' <=> Current(s))
    BY <1>1, <1>3 DEF Passed, Current
  <2>2. QED
    BY <1>1, <1>3, <2>1 DEF IInv, ReportedIfPassed, Walking
<1>5. \A a : At(a)' = At(a)
  BY <1>1 DEF At
<1>6. PingedSoFar' /\ NewAddressIsFree' /\ EveryDeviceFound'
  BY <1>1, <1>3, <1>5 DEF IInv, PingedSoFar, NewAddressIsFree, EveryDeviceFound
<1>7. SelectedIsMasked'
  BY <1>1 DEF IInv, SelectedIsMasked
<1>8. QED
  BY <1>2, <1>4, <1>6, <1>7 DEF IInv

\* Every step of a tool keeps the invariant.
LEMMA NextIInv == IInv /\ [Next]_vars => IInv'
<1> SUFFICES ASSUME IInv, [Next]_vars PROVE IInv'
  OBVIOUS
<1>0. AnyMask \in [Positions -> 0..WILD] /\ Masks \subseteq [Positions -> 0..WILD]
  BY DEF AnyMask, WILD
<1>1. CASE \E m \in Masks : StartScan2(m)
  BY <1>1, StartScan2IInv
<1>2. CASE Select
  BY <1>2, SelectIInv
<1>3. CASE Request
  BY <1>3, RequestIInv
<1>4. CASE StartScan1
  BY <1>4, StartScan1IInv
<1>5. CASE mbus_ping_address
  BY <1>5, PingIInv
<1>6. CASE \E o, a \in 0..MaxPrimary : StartSet(o, AnyMask, a)
  BY <1>0, <1>6, StartSetIInv
<1>7. CASE \E m \in Masks, a \in 0..MaxPrimary : StartSet(NETWORK_LAYER, m, a)
  BY <1>0, <1>7, StartSetIInv
<1>8. CASE Verify
  BY <1>8, VerifyIInv
<1>9. CASE Choose
  BY <1>9, ChooseIInv
<1>10. CASE mbus_set_primary_address
  BY <1>10, SetPrimaryAddress
<1>11. CASE UNCHANGED vars
  BY <1>11, StutterIInv
<1>12. CASE InitFails
  BY <1>12, InitFailsIInv
<1>13. QED
  BY <1>1, <1>2, <1>3, <1>4, <1>5, <1>6, <1>7, <1>8, <1>9, <1>10, <1>11, <1>12 DEF Next

-----------------------------------------------------------------------------
(***************************************************************************)
(* The theorems.                                                           *)
(***************************************************************************)

\* The order of the walk, what it has reported so far, who is selected and which
\* addresses are known to be free are kept by every step of every tool.
THEOREM Invariance == Spec => []IInv
<1>1. QED
  BY InitIInv, NextIInv, PTL DEF Spec

\* Every variable of the tools and of the bus keeps its type.
THEOREM TypeCorrect == Spec => []TypeOK
<1>1. IInv => TypeOK
  BY DEF IInv
<1>2. QED
  BY <1>1, Invariance, PTL

\* A scan that ends has reported every slave it was to find exactly once, or every
\* primary address that some slave has, whatever retry and restriction made good.
THEOREM ScansFindEveryDevice == Spec => []EveryDeviceFound
<1>1. IInv => EveryDeviceFound
  BY DEF IInv
<1>2. QED
  BY <1>1, Invariance, PTL

\* A slave whose address is set gets one that no slave has that keeps its own,
\* unless the answer to the ping of that address was lost.
THEOREM NewAddressIsNobodys == Spec => NewAddressWasFree
<1>1. IInv /\ [Next]_vars =>
        [pc = "change" /\ ~spoilt =>
           \A s, t \in Slaves : primary'[s] # primary[s] /\ primary'[t] = primary[t]
                                => primary'[s] # primary'[t]]_vars
  <2> SUFFICES ASSUME IInv, Next, pc = "change", ~spoilt, NEW s \in Slaves, NEW t \in Slaves,
                      primary'[s] # primary[s], primary'[t] = primary[t]
               PROVE  primary'[s] # primary'[t]
    BY Zenon
  <2>1. At(address) = {}
    BY DEF IInv, NewAddressIsFree
  <2>2. mbus_set_primary_address
    BY DEF Next, InitFails, StartScan2, Select, Request, StartScan1, mbus_ping_address, StartSet,
           Start, Verify, Choose
  <2>3. primary'[s] = address
    BY <2>2, SetPrimaryAddress
  <2>4. primary[t] # address
    BY <2>1 DEF At
  <2>5. QED
    BY <2>3, <2>4
<1>2. QED
  BY <1>1, Invariance, PTL DEF Spec, NewAddressWasFree
=============================================================================
