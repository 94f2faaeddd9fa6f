---------------------------- MODULE ReadoutProofs ---------------------------
(***************************************************************************)
(* Proofs about MbusFrame, MbusData, Records, FrameLink and Readout: what  *)
(* holds of the frames and of the data in them, for bytes of any number    *)
(* and value, and what FrameLink and Readout keep true therefore.          *)
(*                                                                         *)
(* The recursive functions of the model are chosen by CHOOSE: a lemma      *)
(* shows that there is a function with its equation (by WFMin, on the set  *)
(* of the numbers that have one so far), and then how its values go on.    *)
(***************************************************************************)
EXTENDS Readout, TLAPS, WellFoundedInduction, NaturalsInduction
-----------------------------------------------------------------------------
(***************************************************************************)
(* Frames: whatever mbus_parse accepts is exactly what the accepted frame  *)
(* packs to, and it never asks for more than is missing. SumOf is not      *)
(* expanded: nothing there depends on what is summed up.                   *)
(***************************************************************************)
Frames == [type : {"ANY", "ACK", "SHORT", "CONTROL", "LONG"},
           start1 : Byte, start2 : Byte, length1 : Byte, length2 : Byte,
           control : Byte, address : Byte, control_information : Byte,
           data : Seq(Byte), checksum : Byte, stop : Byte]

\* Sequences of the same length with the same elements are the same.
LEMMA SameSequence ==
    ASSUME NEW S, NEW s \in Seq(S), NEW t \in Seq(S), Len(s) = Len(t),
           \A i \in 1..Len(s) : s[i] = t[i]
    PROVE  s = t
  OBVIOUS

\* The fields of a frame.
LEMMA FrameFields ==
    ASSUME NEW f \in Frames
    PROVE  /\ f.start1 \in Byte /\ f.start2 \in Byte /\ f.length1 \in Byte
           /\ f.length2 \in Byte /\ f.control \in Byte /\ f.address \in Byte
           /\ f.control_information \in Byte /\ f.checksum \in Byte /\ f.stop \in Byte
           /\ f.data \in Seq(Byte) /\ Len(f.data) \in Nat
<1>1. f.data \in Seq(Byte)
  BY DEF Frames
<1>2. Len(f.data) \in Nat
  BY <1>1
<1>3. QED
  BY <1>1, <1>2 DEF Frames

\* The computed length is a byte.
LEMMA LengthIsByte ==
    ASSUME NEW f \in Frames
    PROVE  calc_length(f) \in Byte
<1>1. \A n \in Nat : (n + 3) % 256 \in 0..255
  OBVIOUS
<1>2. Len(f.data) \in Nat
  BY FrameFields
<1>3. (Len(f.data) + 3) % 256 \in 0..255
  BY <1>1, <1>2
<1>4. 3 \in 0..255 /\ 0 \in 0..255
  OBVIOUS
<1>5. QED
  BY <1>3, <1>4 DEF calc_length, Byte

\* The bytes of a long frame one by one.
IsPackedLong(p, f, n) ==
    /\ p \in Seq(Byte)
    /\ Len(p) = n + 9
    /\ p[1] = f.start1 /\ p[2] = calc_length(f) /\ p[3] = calc_length(f)
    /\ p[4] = f.start2 /\ p[5] = f.control /\ p[6] = f.address
    /\ p[7] = f.control_information
    /\ \A i \in 1..n : p[7 + i] = f.data[i]
    /\ p[n + 8] = calc_checksum(f) /\ p[n + 9] = f.stop

\* That is what a long frame packs to.
LEMMA LongBytes ==
    ASSUME NEW f \in Frames, f.type = "LONG", calc_checksum(f) \in Byte,
           NEW p, p = mbus_frame_pack(f), NEW n \in Nat, n = Len(f.data)
    PROVE  IsPackedLong(p, f, n)
<1> DEFINE l == calc_length(f)
           h == <<f.start1, l, l, f.start2, f.control, f.address, f.control_information>>
           t == <<calc_checksum(f), f.stop>>
<1>1. p = h \o f.data \o t
  BY DEF mbus_frame_pack
<1>2. n \in Nat /\ f.data \in Seq(Byte) /\ Len(f.data) = n
  BY FrameFields
<1>3. h \in Seq(Byte) /\ Len(h) = 7
  BY FrameFields, LengthIsByte
<1>4. t \in Seq(Byte) /\ Len(t) = 2
  BY FrameFields
<1>5. /\ h[1] = f.start1 /\ h[2] = l /\ h[3] = l /\ h[4] = f.start2
      /\ h[5] = f.control /\ h[6] = f.address /\ h[7] = f.control_information
      /\ t[1] = calc_checksum(f) /\ t[2] = f.stop
  OBVIOUS
<1> HIDE DEF h, t
<1> DEFINE q == h \o f.data
<1>6. /\ q \in Seq(Byte) /\ Len(q) = n + 7
      /\ \A i \in 1..7 : q[i] = h[i]
      /\ \A i \in 1..n : q[7 + i] = f.data[i]
  <2>1. /\ h \o f.data \in Seq(Byte)
        /\ Len(h \o f.data) = Len(h) + Len(f.data)
        /\ \A i \in 1..Len(h) : (h \o f.data)[i] = h[i]
        /\ \A i \in 1..Len(f.data) : (h \o f.data)[Len(h) + i] = f.data[i]
    <3>1. h \in Seq(Byte)
      BY <1>3
    <3>2. f.data \in Seq(Byte)
      BY <1>2
    <3>3. QED
      BY <3>1, <3>2
  <2>2. 7 + n = n + 7
    BY <1>2
  <2>3. QED
    BY <1>2, <1>3, <2>1, <2>2, Zenon
<1> HIDE DEF q
<1>7. /\ q \o t \in Seq(Byte) /\ Len(q \o t) = n + 9
      /\ \A i \in 1..(n + 7) : (q \o t)[i] = q[i]
      /\ (q \o t)[n + 8] = t[1]
      /\ (q \o t)[n + 9] = t[2]
  <2> /\ q \o t \in Seq(Byte)
      /\ Len(q \o t) = Len(q) + Len(t)
      /\ \A i \in 1..Len(q) : (q \o t)[i] = q[i]
      /\ \A i \in 1..Len(t) : (q \o t)[Len(q) + i] = t[i]
    <3>1. q \in Seq(Byte)
      BY <1>6
    <3>2. t \in Seq(Byte)
      BY <1>4
    <3>3. QED
      BY <3>1, <3>2
  <2>1. /\ q \o t \in Seq(Byte) /\ Len(q \o t) = (n + 7) + 2
        /\ \A i \in 1..(n + 7) : (q \o t)[i] = q[i]
        /\ \A i \in 1..2 : (q \o t)[(n + 7) + i] = t[i]
    BY <1>4, <1>6, Zenon
  <2>2. (n + 7) + 2 = n + 9 /\ (n + 7) + 1 = n + 8
    BY <1>2
  <2>3. (q \o t)[(n + 7) + 1] = t[1] /\ (q \o t)[(n + 7) + 2] = t[2]
    BY <2>1
  <2>4. QED
    BY <2>1, <2>2, <2>3
<1>8. p = q \o t
  BY <1>1 DEF q
<1>9. \A i \in 1..7 : p[i] = h[i]
  <2>1. \A i \in 1..7 : i \in 1..(n + 7)
    BY <1>2
  <2>2. QED
    BY <1>6, <1>7, <1>8, <2>1, Zenon
<1>10. \A i \in 1..n : p[7 + i] = f.data[i]
  BY <1>2, <1>6, <1>7, <1>8
<1>11. /\ p[1] = h[1] /\ p[2] = h[2] /\ p[3] = h[3] /\ p[4] = h[4]
       /\ p[5] = h[5] /\ p[6] = h[6] /\ p[7] = h[7]
  BY <1>9
<1>12. p \in Seq(Byte) /\ Len(p) = n + 9
  BY <1>7, <1>8
<1>13. p[n + 8] = calc_checksum(f) /\ p[n + 9] = f.stop
  BY <1>5, <1>7, <1>8
<1>14. QED
  <2>1. /\ p[1] = f.start1 /\ p[2] = calc_length(f) /\ p[3] = calc_length(f)
        /\ p[4] = f.start2 /\ p[5] = f.control /\ p[6] = f.address
        /\ p[7] = f.control_information
    BY <1>5, <1>11 DEF l
  <2>2. QED
    BY <2>1, <1>10, <1>12, <1>13, Zenon DEF IsPackedLong
-----------------------------------------------------------------------------
\* Arithmetic of the lengths.
LEMMA Lengths ==
    ASSUME NEW n \in Int, NEW m \in Int
    PROVE  /\ n < m => m - n # 0
           /\ ~(n < m) /\ ~(n > m) => n = m
           /\ ~(n < m) => n >= m
  OBVIOUS

\* What a short frame was parsed from.
LEMMA ShortAccepted ==
    ASSUME NEW f \in Frames, NEW b \in Seq(Byte), b # <<>>, b[1] = SHORT_START,
           ParseShort(f, b).code = 0
    PROVE  mbus_frame_pack(ParseShort(f, b).frame) = b
<1> DEFINE g == [f EXCEPT !.type = "SHORT", !.start1 = b[1], !.control = b[2],
                          !.address = b[3], !.checksum = b[4], !.stop = b[5]]
<1>1. Len(b) \in Nat /\ \A i \in 1..Len(b) : b[i] \in Byte
  OBVIOUS
<1>a. ParseShort(f, b) = CASE Len(b) < 5 -> Parsed(5 - Len(b), f)
                           [] Len(b) > 5 -> Parsed(-2, f)
                           [] OTHER -> Verified(g)
  BY DEF ParseShort
<1> HIDE DEF g
<1>2. Len(b) = 5 /\ ParseShort(f, b) = Verified(g)
  <2>1. ASSUME Len(b) < 5 PROVE FALSE
    <3>1. ParseShort(f, b) = Parsed(5 - Len(b), f)
      BY <1>a, <2>1
    <3>2. 5 - Len(b) # 0
      BY <1>1, <2>1, Lengths, 5 \in Int, Len(b) \in Int, Zenon
    <3>3. QED
      BY <3>1, <3>2 DEF Parsed
  <2>2. ASSUME Len(b) > 5 PROVE FALSE
    <3>1. ParseShort(f, b) = Parsed(-2, f)
      BY <1>1, <1>a, <2>2
    <3>2. QED
      BY <3>1 DEF Parsed
  <2>3. Len(b) = 5
    BY <1>1, <2>1, <2>2, Lengths, 5 \in Int, Len(b) \in Int, Zenon
  <2>4. QED
    BY <1>a, <2>3
<1>3. mbus_frame_verify(g)
  BY <1>2 DEF Verified, Parsed
<1>4. /\ g.type = "SHORT" /\ g.start1 = b[1] /\ g.control = b[2]
      /\ g.address = b[3] /\ g.checksum = b[4] /\ g.stop = b[5]
  BY DEF Frames, g
<1>5. b[4] = calc_checksum(g)
  BY <1>3, <1>4 DEF mbus_frame_verify
<1>6. mbus_frame_pack(g) = <<b[1], b[2], b[3], b[4], b[5]>>
  BY <1>4, <1>5 DEF mbus_frame_pack
<1>7. b = <<b[1], b[2], b[3], b[4], b[5]>>
  <2>1. \A i \in 1..5 : b[i] \in Byte
    BY <1>1, <1>2
  <2>2. <<b[1], b[2], b[3], b[4], b[5]>> \in Seq(Byte)
    BY <2>1
  <2>3. QED
    BY <1>2, <2>2
<1>8. QED
  BY <1>2, <1>6, <1>7 DEF Verified, Parsed

\* What a control or long frame was parsed from: its fields, and its length.
LEMMA LongFields ==
    ASSUME NEW f \in Frames, NEW b \in Seq(Byte), ParseLong(f, b).code = 0,
           NEW g, g = ParseLong(f, b).frame
    PROVE  /\ b[2] \in Byte /\ b[2] >= 3 /\ b[2] = b[3] /\ Len(b) = 6 + b[2]
           /\ mbus_frame_verify(g) /\ g \in Frames
           /\ g.type = IF b[2] = 3 THEN "CONTROL" ELSE "LONG"
           /\ g.start1 = b[1] /\ g.length1 = b[2] /\ g.length2 = b[3]
           /\ g.start2 = b[4] /\ g.control = b[5] /\ g.address = b[6]
           /\ g.control_information = b[7] /\ g.data = SubSeq(b, 8, 4 + b[2])
           /\ g.checksum = b[5 + b[2]] /\ g.stop = b[6 + b[2]]
<1> DEFINE h == [f EXCEPT !.start1 = b[1], !.length1 = b[2], !.length2 = b[3]]
           n == b[2]
           w == 6 + n
           k == [type |-> IF n = 3 THEN "CONTROL" ELSE "LONG",
                 start1 |-> b[1], length1 |-> n, length2 |-> b[3], start2 |-> b[4],
                 control |-> b[5], address |-> b[6], control_information |-> b[7],
                 data |-> SubSeq(b, 8, w - 2),
                 checksum |-> b[w - 1], stop |-> b[w]]
<1>1. Len(b) \in Nat /\ \A i \in 1..Len(b) : b[i] \in Byte
  OBVIOUS
<1>a. ParseLong(f, b) =
        IF Len(b) < 3 THEN Parsed(3 - Len(b), f)
        ELSE IF n < 3 \/ n # b[3] \/ Len(b) > w THEN Parsed(-2, h)
        ELSE IF Len(b) < w THEN Parsed(w - Len(b), h)
        ELSE Verified(k)
  BY DEF ParseLong
<1>k. /\ k.type = IF n = 3 THEN "CONTROL" ELSE "LONG"
      /\ k.start1 = b[1] /\ k.length1 = n /\ k.length2 = b[3]
      /\ k.start2 = b[4] /\ k.control = b[5] /\ k.address = b[6]
      /\ k.control_information = b[7] /\ k.data = SubSeq(b, 8, w - 2)
      /\ k.checksum = b[w - 1] /\ k.stop = b[w]
  OBVIOUS
<1> HIDE DEF h, k
<1>2. Len(b) >= 3
  <2>1. ASSUME Len(b) < 3 PROVE FALSE
    <3>1. ParseLong(f, b) = Parsed(3 - Len(b), f)
      BY <1>a, <2>1, Zenon
    <3>2. 3 - Len(b) # 0
      BY <1>1, <2>1, Lengths, 3 \in Int, Len(b) \in Int, Zenon
    <3>3. QED
      BY <3>1, <3>2 DEF Parsed
  <2>2. QED
    BY <1>1, <2>1
<1>3. n \in 0..255 /\ b[3] \in 0..255
  BY <1>1, <1>2 DEF Byte
<1>n. n = b[2]
  OBVIOUS
<1> HIDE DEF n
<1>4. /\ n >= 3 /\ n = b[3] /\ Len(b) = w
      /\ ParseLong(f, b) = Verified(k)
  <2>1. ~(Len(b) < 3)
    BY <1>1, <1>2
  <2>2. ~(n < 3 \/ n # b[3] \/ Len(b) > w)
    <3>1. ASSUME n < 3 \/ n # b[3] \/ Len(b) > w
          PROVE  ParseLong(f, b) = Parsed(-2, h)
      BY <1>a, <2>1, <3>1, Zenon
    <3>2. QED
      BY <3>1 DEF Parsed
  <2>3. ~(Len(b) < w)
    <3>1. ASSUME Len(b) < w PROVE ParseLong(f, b) = Parsed(w - Len(b), h)
      BY <1>a, <2>1, <2>2, <3>1, Zenon
    <3>2. QED
      BY <1>1, <1>3, <3>1 DEF Parsed
  <2>4. ParseLong(f, b) = Verified(k)
    BY <1>a, <2>1, <2>2, <2>3, Zenon
  <2>5. n >= 3 /\ n = b[3] /\ Len(b) = w
    BY <1>1, <1>3, <2>2, <2>3
  <2>6. QED
    BY <2>4, <2>5
<1>5. mbus_frame_verify(k) /\ g = k
  BY <1>4 DEF Verified, Parsed
<1>6. \A i \in 1..w : b[i] \in Byte
  BY <1>1, <1>4
<1>7. /\ 1 \in 1..w /\ 2 \in 1..w /\ 3 \in 1..w /\ 4 \in 1..w /\ 5 \in 1..w
      /\ 6 \in 1..w /\ 7 \in 1..w /\ w - 1 \in 1..w /\ w \in 1..w
  BY <1>3, <1>4
<1>8. SubSeq(b, 8, w - 2) \in Seq(Byte)
  BY <1>3, <1>4
<1>9. w - 2 = 4 + n /\ w - 1 = 5 + n
  BY <1>3
<1>10. k \in Frames
  <2>1. k.type \in {"ANY", "ACK", "SHORT", "CONTROL", "LONG"}
    BY <1>k
  <2>2. /\ b[1] \in Byte /\ b[2] \in Byte /\ b[3] \in Byte /\ b[4] \in Byte
        /\ b[5] \in Byte /\ b[6] \in Byte /\ b[7] \in Byte
        /\ b[w - 1] \in Byte /\ b[w] \in Byte
    BY <1>6, <1>7, Zenon
  <2>3. QED
    <3>1. n \in Byte
      BY <2>2, <1>n, Zenon
    <3> HIDE DEF w
    <3>2. QED
      BY <1>8, <2>1, <2>2, <3>1, <1>k DEF Frames, k
<1>11. n \in Byte /\ Len(b) = 6 + n /\ w = 6 + n
  BY <1>3, <1>4 DEF Byte
<1> HIDE DEF w
<1>12. QED
  BY <1>4, <1>5, <1>9, <1>10, <1>11, <1>k, <1>n, Zenon
\* The bytes of a control frame one by one.
LEMMA ControlBytes ==
    ASSUME NEW g \in Frames, g.type = "CONTROL", calc_checksum(g) \in Byte,
           NEW p, p = mbus_frame_pack(g)
    PROVE  /\ p \in Seq(Byte)
           /\ Len(p) = 9
           /\ p[1] = g.start1 /\ p[2] = 3 /\ p[3] = 3 /\ p[4] = g.start2
           /\ p[5] = g.control /\ p[6] = g.address /\ p[7] = g.control_information
           /\ p[8] = calc_checksum(g) /\ p[9] = g.stop
<1> DEFINE h == <<g.start1, 3, 3, g.start2, g.control, g.address, g.control_information>>
           t == <<calc_checksum(g), g.stop>>
<1>1. p = h \o t
  BY DEF mbus_frame_pack, calc_length
<1>2. h \in Seq(Byte) /\ Len(h) = 7
  BY FrameFields DEF Byte
<1>3. t \in Seq(Byte) /\ Len(t) = 2
  BY FrameFields
<1>4. /\ h[1] = g.start1 /\ h[2] = 3 /\ h[3] = 3 /\ h[4] = g.start2
      /\ h[5] = g.control /\ h[6] = g.address /\ h[7] = g.control_information
      /\ t[1] = calc_checksum(g) /\ t[2] = g.stop
  OBVIOUS
<1> HIDE DEF h, t
<1>5. /\ h \o t \in Seq(Byte)
      /\ Len(h \o t) = Len(h) + Len(t)
      /\ \A i \in 1..Len(h) : (h \o t)[i] = h[i]
      /\ \A i \in 1..Len(t) : (h \o t)[Len(h) + i] = t[i]
  <2>1. h \in Seq(Byte)
    BY <1>2
  <2>2. t \in Seq(Byte)
    BY <1>3
  <2>3. QED
    BY <2>1, <2>2
<1>6. /\ p \in Seq(Byte) /\ Len(p) = 7 + 2
      /\ \A i \in 1..7 : p[i] = h[i]
      /\ \A i \in 1..2 : p[7 + i] = t[i]
  BY <1>1, <1>2, <1>3, <1>5, Zenon
<1>7. QED
  BY <1>4, <1>6

\* What a control or long frame was parsed from is what it packs to.
LEMMA LongAccepted ==
    ASSUME NEW f \in Frames, NEW b \in Seq(Byte), b # <<>>, b[1] = LONG_START,
           ParseLong(f, b).code = 0
    PROVE  mbus_frame_pack(ParseLong(f, b).frame) = b
<1> DEFINE g == ParseLong(f, b).frame
           n == b[2]
           p == mbus_frame_pack(g)
<1>1. /\ n \in Byte /\ n >= 3 /\ n = b[3] /\ Len(b) = 6 + n
      /\ mbus_frame_verify(g) /\ g \in Frames
      /\ g.type = IF n = 3 THEN "CONTROL" ELSE "LONG"
      /\ g.start1 = b[1] /\ g.length1 = n /\ g.length2 = b[3]
      /\ g.start2 = b[4] /\ g.control = b[5] /\ g.address = b[6]
      /\ g.control_information = b[7] /\ g.data = SubSeq(b, 8, 4 + n)
      /\ g.checksum = b[5 + n] /\ g.stop = b[6 + n]
  BY LongFields
<1> HIDE DEF g, n
<1>2. /\ g.checksum = calc_checksum(g) /\ g.checksum \in Byte
      /\ g.length1 = calc_length(g)
  <2>1. g.checksum \in Byte
    BY <1>1, FrameFields
  <2>2. g.type \in {"CONTROL", "LONG"}
    BY <1>1
  <2>3. QED
    BY <1>1, <2>1, <2>2 DEF mbus_frame_verify
<1>3. n \in Int /\ n >= 3 /\ b \in Seq(Byte)
  BY <1>1 DEF Byte
<1>4. /\ Len(SubSeq(b, 8, 4 + n)) = n - 3
      /\ \A i \in 1..(n - 3) : SubSeq(b, 8, 4 + n)[i] = b[7 + i]
  <2>1. Len(b) = 6 + n
    BY <1>1
  <2>2. QED
    BY <1>3, <2>1
<1>5. /\ p \in Seq(Byte) /\ Len(p) = n + 6
      /\ p[1] = b[1] /\ p[2] = n /\ p[3] = n /\ p[4] = b[4] /\ p[5] = b[5]
      /\ p[6] = b[6] /\ p[7] = b[7]
      /\ \A i \in 1..(n - 3) : p[7 + i] = b[7 + i]
      /\ p[n + 5] = b[n + 5] /\ p[n + 6] = b[n + 6]
  <2>1. CASE n = 3
    <3>1. g.type = "CONTROL"
      BY <1>1, <2>1
    <3>2. /\ p \in Seq(Byte) /\ Len(p) = 9
          /\ p[1] = g.start1 /\ p[2] = 3 /\ p[3] = 3 /\ p[4] = g.start2
          /\ p[5] = g.control /\ p[6] = g.address /\ p[7] = g.control_information
          /\ p[8] = calc_checksum(g) /\ p[9] = g.stop
      BY <1>1, <1>2, <3>1, ControlBytes, SMTT(30)
    <3>3. n + 5 = 8 /\ n + 6 = 9 /\ 5 + n = 8 /\ 6 + n = 9 /\ 1..(n - 3) = {}
      BY <2>1
    <3> HIDE DEF p
    <3>4. QED
      BY <1>1, <1>2, <2>1, <3>2, <3>3, ZenonT(40)
  <2>2. CASE n # 3
    <3>1. g.type = "LONG"
      BY <1>1, <2>2
    <3>2. Len(g.data) = n - 3
      BY <1>1, <1>4, Zenon
    <3>3. /\ p \in Seq(Byte) /\ Len(p) = (n - 3) + 9
          /\ p[1] = g.start1 /\ p[2] = calc_length(g) /\ p[3] = calc_length(g)
          /\ p[4] = g.start2 /\ p[5] = g.control /\ p[6] = g.address
          /\ p[7] = g.control_information
          /\ \A i \in 1..(n - 3) : p[7 + i] = g.data[i]
          /\ p[(n - 3) + 8] = calc_checksum(g) /\ p[(n - 3) + 9] = g.stop
      <4>1. calc_checksum(g) \in Byte /\ p = mbus_frame_pack(g) /\ n - 3 = Len(g.data)
        BY <1>2, <3>2, Zenon
      <4>2. g \in Frames
        BY <1>1
      <4> HIDE DEF p
      <4>3. /\ p \in Seq(Byte) /\ Len(p) = Len(g.data) + 9
            /\ p[1] = g.start1 /\ p[2] = calc_length(g) /\ p[3] = calc_length(g)
            /\ p[4] = g.start2 /\ p[5] = g.control /\ p[6] = g.address
            /\ p[7] = g.control_information
            /\ \A i \in 1..Len(g.data) : p[7 + i] = g.data[i]
            /\ p[Len(g.data) + 8] = calc_checksum(g) /\ p[Len(g.data) + 9] = g.stop
        <5> DEFINE m == Len(g.data)
        <5>1. m \in Nat /\ m = Len(g.data)
          BY <4>2, FrameFields
        <5> HIDE DEF m
        <5>2. IsPackedLong(p, g, m)
          BY <3>1, <4>1, <4>2, <5>1, LongBytes, Zenon
        <5>3. QED
          BY <5>1, <5>2, Zenon DEF IsPackedLong
      <4>4. QED
        BY <4>1, <4>3, Zenon
    <3>4. (n - 3) + 8 = n + 5 /\ (n - 3) + 9 = n + 6 /\ 5 + n = n + 5 /\ 6 + n = n + 6
      BY <1>3
    <3> HIDE DEF p
    <3>5. calc_length(g) = n /\ calc_checksum(g) = b[n + 5] /\ g.stop = b[n + 6]
      BY <1>1, <1>2, <3>4, Zenon
    <3>6. ASSUME NEW i \in 1..(n - 3) PROVE p[7 + i] = b[7 + i]
      <4>1. g.data[i] = SubSeq(b, 8, 4 + n)[i]
        BY <1>1
      <4>2. SubSeq(b, 8, 4 + n)[i] = b[7 + i]
        BY <1>4, Zenon
      <4>3. p[7 + i] = g.data[i]
        BY <3>3, Zenon
      <4>4. QED
        BY <4>1, <4>2, <4>3, Zenon
    <3>7. (n - 3) + 9 = n + 6
      BY <1>3
    <3>8. QED
      BY <1>1, <3>3, <3>4, <3>5, <3>6, <3>7, Zenon
  <2>3. QED
    BY <2>1, <2>2
<1> HIDE DEF p
<1>6. Len(b) = n + 6 /\ b[2] = n /\ b[3] = n
  BY <1>1, <1>3 DEF n
<1>7. \A i \in 1..Len(p) : p[i] = b[i]
  <2>1. SUFFICES ASSUME NEW i \in 1..(n + 6) PROVE p[i] = b[i]
    BY <1>5, Zenon
  <2>2. CASE i \in 1..7
    BY <1>5, <1>6, <2>2
  <2>3. CASE i \in 8..(n + 4)
    <3>1. i - 7 \in 1..(n - 3) /\ 7 + (i - 7) = i
      BY <1>3, <2>3
    <3>2. p[7 + (i - 7)] = b[7 + (i - 7)]
      BY <1>5, <3>1, Zenon
    <3>3. QED
      BY <3>1, <3>2
  <2>4. CASE i = n + 5 \/ i = n + 6
    BY <1>5, <2>4
  <2>5. QED
    BY <1>3, <2>2, <2>3, <2>4
<1>8. QED
  BY <1>5, <1>6, <1>7, SameSequence DEF p, g

(***************************************************************************)
(* The bytes mbus_parse accepts as a short, control or long frame are      *)
(* those mbus_frame_pack makes of the frame it has filled in, whatever the *)
(* frame held before: nothing of what was received is lost or misread.     *)
(* (An acknowledgement is recognised by its first byte alone.)             *)
(***************************************************************************)
THEOREM AcceptedIsPacked ==
    ASSUME NEW f \in Frames, NEW b \in Seq(Byte), b # <<>>, b[1] # ACK_START,
           mbus_parse(f, b).code = 0
    PROVE  mbus_frame_pack(mbus_parse(f, b).frame) = b
<1>1. CASE b[1] = SHORT_START
  <2>1. mbus_parse(f, b) = ParseShort(f, b)
    BY <1>1 DEF mbus_parse, ACK_START, SHORT_START, LONG_START
  <2>2. QED
    BY <1>1, <2>1, ShortAccepted
<1>2. CASE b[1] = LONG_START
  <2>1. mbus_parse(f, b) = ParseLong(f, b)
    BY <1>2 DEF mbus_parse, ACK_START, SHORT_START, LONG_START
  <2>2. QED
    BY <1>2, <2>1, LongAccepted
<1>3. CASE b[1] # SHORT_START /\ b[1] # LONG_START
  <2>1. mbus_parse(f, b) = Parsed(-4, f)
    BY <1>3 DEF mbus_parse
  <2>2. QED
    BY <2>1 DEF Parsed
<1>4. QED
  BY <1>1, <1>2, <1>3
-----------------------------------------------------------------------------
\* The start of a packed long frame, for mbus_parse.
LEMMA PackedLong ==
    ASSUME NEW g \in Frames, g.type = "LONG", mbus_frame_verify(g),
           NEW n \in 1..252, n = Len(g.data)
    PROVE  /\ mbus_frame_pack(g) \in Seq(Byte) /\ Len(mbus_frame_pack(g)) = n + 9
           /\ mbus_frame_pack(g)[1] = LONG_START
           /\ mbus_frame_pack(g)[2] = n + 3 /\ mbus_frame_pack(g)[3] = n + 3
<1> DEFINE p == mbus_frame_pack(g)
<1>1. calc_checksum(g) \in Byte /\ g.start1 = LONG_START
  BY FrameFields DEF mbus_frame_verify
<1>2. n \in Nat /\ p = mbus_frame_pack(g)
  OBVIOUS
<1>3. calc_length(g) = n + 3
  <2>1. \A k \in 1..252 : (k + 3) % 256 = k + 3
    OBVIOUS
  <2>2. calc_length(g) = (n + 3) % 256
    BY DEF calc_length
  <2>3. QED
    BY <2>1, <2>2
<1> HIDE DEF p
<1>4. /\ p \in Seq(Byte) /\ Len(p) = n + 9
      /\ p[1] = g.start1 /\ p[2] = calc_length(g) /\ p[3] = calc_length(g)
  <2>1. IsPackedLong(p, g, n)
    BY <1>1, <1>2, LongBytes, Zenon
  <2>2. QED
    BY <2>1, Zenon DEF IsPackedLong
<1>5. QED
  BY <1>1, <1>3, <1>4 DEF p

\* The part of a long frame that has come, for mbus_parse.
LEMMA PrefixAsksFor ==
    ASSUME NEW f \in Frames, NEW n \in 0..252, NEW p \in Seq(Byte), Len(p) = n + 9,
           p[1] = LONG_START, p[2] = n + 3, p[3] = n + 3, NEW k \in 1..(n + 8)
    PROVE  mbus_parse(f, SubSeq(p, 1, k)).code \in 1..((n + 9) - k)
<1> DEFINE b == SubSeq(p, 1, k)
<1>1. k \in Int /\ n \in Int
  OBVIOUS
<1>3. /\ Len(b) = k /\ b[1] = p[1]
      /\ k >= 3 => b[2] = p[2] /\ b[3] = p[3]
  <2>1. p \in Seq(Byte) /\ k \in 1..Len(p)
    OBVIOUS
  <2>2. QED
    BY <2>1
<1> HIDE DEF b
<1>4. mbus_parse(f, b) = ParseLong(f, b)
  <2>1. b # <<>>
    BY <1>3
  <2>2. QED
    BY <1>1, <1>3, <2>1 DEF mbus_parse, ACK_START, SHORT_START, LONG_START
<1>5. CASE k < 3
  <2>1. ParseLong(f, b) = Parsed(3 - k, f)
    BY <1>3, <1>5 DEF ParseLong
  <2>2. mbus_parse(f, b).code = 3 - k
    BY <1>4, <2>1 DEF Parsed
  <2>3. 3 - k \in 1..((n + 9) - k)
    BY <1>1, <1>5
  <2>4. QED
    BY <2>2, <2>3, Zenon DEF b
<1>6. CASE ~(k < 3)
  <2> DEFINE h == [f EXCEPT !.start1 = b[1], !.length1 = b[2], !.length2 = b[3]]
  <2>1. b[2] = n + 3 /\ b[3] = n + 3
    BY <1>1, <1>3, <1>6
  <2>2. ParseLong(f, b) = Parsed((6 + (n + 3)) - k, h)
    <3>1. ~(n + 3 < 3 \/ n + 3 # n + 3 \/ k > 6 + (n + 3)) /\ k < 6 + (n + 3)
      BY <1>1
    <3>2. ~(b[2] < 3 \/ b[2] # b[3] \/ Len(b) > 6 + b[2]) /\ Len(b) < 6 + b[2]
      BY <1>3, <2>1, <3>1
    <3>3. ~(Len(b) < 3)
      BY <1>3, <1>6
    <3>4. ParseLong(f, b) = Parsed((6 + b[2]) - Len(b), h)
      BY <3>2, <3>3, Zenon DEF ParseLong
    <3>5. QED
      BY <1>3, <2>1, <3>4, Zenon
  <2>3. mbus_parse(f, b).code = (6 + (n + 3)) - k
    <3> HIDE DEF h
    <3>1. Parsed((6 + (n + 3)) - k, h).code = (6 + (n + 3)) - k
      BY DEF Parsed
    <3>2. QED
      BY <1>4, <2>2, <3>1, Zenon
  <2>4. (6 + (n + 3)) - k \in 1..((n + 9) - k)
    BY <1>1
  <2>5. QED
    BY <2>3, <2>4, Zenon DEF b
<1>7. QED
  BY <1>5, <1>6

(***************************************************************************)
(* While a long frame comes in, mbus_parse asks for at least one byte more *)
(* and for never more than are on the way, so that the receive loops of    *)
(* mbus-serial.c and mbus-tcp.c neither stop early nor read into the next  *)
(* frame.                                                                  *)
(***************************************************************************)
THEOREM AsksForWhatIsMissing ==
    ASSUME NEW f \in Frames, NEW g \in Frames, g.type = "LONG", mbus_frame_verify(g),
           Len(g.data) \in 1..252,
           NEW k \in 1..(Len(mbus_frame_pack(g)) - 1)
    PROVE  mbus_parse(f, SubSeq(mbus_frame_pack(g), 1, k)).code
             \in 1..(Len(mbus_frame_pack(g)) - k)
<1> DEFINE p == mbus_frame_pack(g)
           n == Len(g.data)
<1>1. /\ p \in Seq(Byte) /\ Len(p) = n + 9 /\ p[1] = LONG_START
      /\ p[2] = n + 3 /\ p[3] = n + 3 /\ n \in 1..252
  BY PackedLong
<1>2. k \in 1..(Len(p) - 1)
  OBVIOUS
<1> HIDE DEF p, n
<1>0. n \in 0..252
  <2>1. n \in 1..252
    BY <1>1, Zenon
  <2>2. QED
    BY <2>1
<1>3. k \in 1..(n + 8)
  <2>1. (n + 9) - 1 = n + 8
    BY <1>0
  <2>2. QED
    BY <1>1, <1>2, <2>1, Zenon
<1>4. mbus_parse(f, SubSeq(p, 1, k)).code \in 1..((n + 9) - k)
  BY <1>0, <1>1, <1>3, PrefixAsksFor, Zenon
<1>5. QED
  BY <1>1, <1>4, Zenon DEF p
-----------------------------------------------------------------------------
(***************************************************************************)
(* Numbers from bytes and digits: Times256, Decimal and Power256 have the  *)
(* values of one recursion, and the library decodes negative numbers as    *)
(* two's complement says.                                                  *)
(***************************************************************************)
\* What holds of 0 and is handed on from a number to the next one holds up to n.
LEMMA Upto ==
    ASSUME NEW n \in Nat, NEW T, 0 \in T,
           \A i \in 1..n : i - 1 \in T => i \in T
    PROVE  \A i \in 0..n : i \in T
<1> SUFFICES ASSUME NEW j \in 0..n, j \notin T PROVE FALSE
  OBVIOUS
<1> DEFINE R == {ss \in Nat \X Nat : ss[1] < ss[2]}
           U == {i \in 0..n : i \notin T}
<1>1. IsWellFoundedOn(R, Nat)
  BY NatLessThanWellFounded DEF OpToRel
<1>2. \A x, y \in Nat : y < x => <<y, x>> \in R
  OBVIOUS
<1>3. j \in U /\ U \in SUBSET Nat
  OBVIOUS
<1> HIDE DEF R
<1>4. PICK x \in U : \A y \in U : ~(<<y, x>> \in R)
  BY <1>1, <1>3, WFMin, Zenon
<1>5. x \in 1..n /\ x - 1 \in 0..n
  OBVIOUS
<1>6. x - 1 \in U
  BY <1>5
<1>7. <<x - 1, x>> \in R
  BY <1>2, <1>5
<1>8. QED
  BY <1>4, <1>6, <1>7

\* The values of a function that is defined by recursion on the numbers up to n.
IsRun(r, C, n, c, h) ==
    r \in [0..n -> C] /\ r[0] = c /\ \A i \in 1..n : r[i] = h[i][r[i - 1]]

\* There is such a function.
LEMMA RunExists ==
    ASSUME NEW C, NEW n \in Nat, NEW c \in C, NEW h \in [1..n -> [C -> C]]
    PROVE  \E r : IsRun(r, C, n, c, h)
<1> DEFINE T == {k \in 0..n : \E r : IsRun(r, C, k, c, h)}
<1>1. 0 \in T
  <2>1. 0 \in 0..n /\ 1..0 = {} /\ 0..0 = {0}
    OBVIOUS
  <2>2. IsRun([i \in 0..0 |-> c], C, 0, c, h)
    BY <2>1 DEF IsRun
  <2>3. QED
    BY <2>1, <2>2
<1>2. ASSUME NEW i \in 1..n, i - 1 \in T PROVE i \in T
  <2>1. PICK r : IsRun(r, C, i - 1, c, h)
    BY <1>2
  <2> DEFINE s == [k \in 0..i |-> IF k = i THEN h[i][r[i - 1]] ELSE r[k]]
  <2>2. i \in 0..n /\ i - 1 \in 0..(i - 1) /\ i # 0 /\ 0 \in 0..i /\ 0 \in 0..(i - 1)
    OBVIOUS
  <2>3. \A k \in 0..i : k # i => k \in 0..(i - 1)
    OBVIOUS
  <2>4. h[i] \in [C -> C] /\ r[i - 1] \in C
    BY <2>1, <2>2 DEF IsRun
  <2>5. s \in [0..i -> C]
    <3>1. h[i][r[i - 1]] \in C
      BY <2>4
    <3>2. r \in [0..(i - 1) -> C]
      BY <2>1 DEF IsRun
    <3>3. \A k \in 0..i : (IF k = i THEN h[i][r[i - 1]] ELSE r[k]) \in C
      BY <2>3, <3>1, <3>2
    <3>4. QED
      BY <3>3
  <2>6. s[0] = c
    BY <2>1, <2>2 DEF IsRun
  <2>7. ASSUME NEW k \in 1..i PROVE s[k] = h[k][s[k - 1]]
    <3>1. k \in 0..i /\ k - 1 \in 0..i /\ k - 1 # i /\ (k # i => k \in 1..(i - 1))
      OBVIOUS
    <3>2. s[k - 1] = r[k - 1]
      BY <3>1
    <3>3. CASE k = i
      BY <3>1, <3>2, <3>3
    <3>4. CASE k # i
      <4>1. s[k] = r[k] /\ r[k] = h[k][r[k - 1]]
        BY <2>1, <3>1, <3>4 DEF IsRun
      <4>2. QED
        BY <3>2, <4>1
    <3>5. QED
      BY <3>3, <3>4
  <2> HIDE DEF s
  <2>8. IsRun(s, C, i, c, h)
    BY <2>5, <2>6, <2>7 DEF IsRun
  <2>9. QED
    BY <2>2, <2>8
<1> HIDE DEF T
<1>3. n \in T
  BY <1>1, <1>2, Upto, n \in 0..n
<1>4. QED
  BY <1>3 DEF T

\* Two functions that go from one value to the next in the same way end alike.
LEMMA SameSteps ==
    ASSUME NEW n \in Nat, NEW g, NEW r, g[0] = r[0],
           \A i \in 1..n : g[i - 1] = r[i - 1] => g[i] = r[i]
    PROVE  g[n] = r[n]
<1> DEFINE T == {i \in 0..n : g[i] = r[i]}
<1>1. 0 \in T
  OBVIOUS
<1>2. \A i \in 1..n : i - 1 \in T => i \in T
  OBVIOUS
<1> HIDE DEF T
<1>3. n \in T
  BY <1>1, <1>2, Upto, n \in 0..n
<1>4. QED
  BY <1>3 DEF T

\* The values of the first i of n digits d, from c on.
IsValue(r, n, c, base, d) ==
    /\ r \in [0..n -> Nat]
    /\ r[0] = c
    /\ \A i \in 1..n : r[i] = d[i] + base * r[i - 1]

\* There is such a function.
LEMMA ValueExists ==
    ASSUME NEW n \in Nat, NEW c \in Nat, NEW base \in Nat, NEW d \in [1..n -> Nat]
    PROVE  \E r : IsValue(r, n, c, base, d)
<1> DEFINE h == [i \in 1..n |-> [v \in Nat |-> d[i] + base * v]]
<1>1. \A i \in 1..n : \A v \in Nat : d[i] + base * v \in Nat
  OBVIOUS
<1>2. h \in [1..n -> [Nat -> Nat]]
  <2>1. \A i \in 1..n : [v \in Nat |-> d[i] + base * v] \in [Nat -> Nat]
    BY <1>1
  <2>2. QED
    BY <2>1
<1>3. \A i \in 1..n : \A v \in Nat : h[i][v] = d[i] + base * v
  OBVIOUS
<1> HIDE DEF h
<1>4. PICK r : IsRun(r, Nat, n, c, h)
  BY <1>2, RunExists, Zenon
<1>5. ASSUME NEW i \in 1..n PROVE r[i] = d[i] + base * r[i - 1]
  <2>1. i - 1 \in 0..n
    OBVIOUS
  <2>2. r[i - 1] \in Nat /\ r[i] = h[i][r[i - 1]]
    BY <1>4, <2>1 DEF IsRun
  <2>3. h[i][r[i - 1]] = d[i] + base * r[i - 1]
    BY <1>3, <2>2
  <2>4. QED
    BY <2>2, <2>3, Zenon
<1>6. QED
  BY <1>4, <1>5 DEF IsRun, IsValue

\* A byte, its complement and its halves are numbers.
LEMMA ByteIsNat ==
    \A x \in Byte : /\ x \in Nat /\ x \in Int /\ 255 - x \in Byte
                    /\ x \div 16 \in Nat /\ x % 16 \in Nat
  BY DEF Byte

\* The bytes of a number, the most significant one first.
FromAbove(b) == [i \in 1..Len(b) |-> b[Len(b) + 1 - i]]

\* The bytes of a number are numbers.
LEMMA FromAboveType == ASSUME NEW b \in Seq(Byte) PROVE FromAbove(b) \in [1..Len(b) -> Nat]
<1>1. ASSUME NEW i \in 1..Len(b) PROVE b[Len(b) + 1 - i] \in Nat
  <2>1. Len(b) + 1 - i \in 1..Len(b)
    OBVIOUS
  <2>2. b[Len(b) + 1 - i] \in Byte
    BY <2>1
  <2>3. QED
    BY <2>2, ByteIsNat, Zenon
<1>2. QED
  BY <1>1 DEF FromAbove

\* Times256 is the last of the values of the bytes.
LEMMA Times256Value ==
    ASSUME NEW b \in Seq(Byte)
    PROVE  \E r : IsValue(r, Len(b), 0, 256, FromAbove(b)) /\ r[Len(b)] = Times256(b)
<1> DEFINE n == Len(b)
           F(g) == [k \in 0..n |-> IF k = 0 THEN 0 ELSE b[n + 1 - k] + 256 * g[k - 1]]
           it == CHOOSE g : g = F(g)
<1>1. Times256(b) = it[n]
  BY DEF Times256
<1>2. n \in Nat /\ FromAbove(b) \in [1..n -> Nat]
  BY FromAboveType
<1>3. \A i \in 1..n : FromAbove(b)[i] = b[n + 1 - i]
  BY DEF FromAbove
<1>4. PICK r : IsValue(r, n, 0, 256, FromAbove(b))
  BY <1>2, ValueExists, 0 \in Nat, 256 \in Nat, Zenon
<1> HIDE DEF n
<1>5. \A i \in 1..n : i \in 0..n /\ i - 1 \in 0..n /\ i # 0
  BY <1>2
<1>6. r = F(r)
  <2>1. r \in [0..n -> Nat] /\ r[0] = 0
    BY <1>4 DEF IsValue
  <2>2. ASSUME NEW k \in 0..n, k # 0 PROVE r[k] = b[n + 1 - k] + 256 * r[k - 1]
    <3>1. k \in 1..n
      BY <1>2, <2>2
    <3>2. r[k] = FromAbove(b)[k] + 256 * r[k - 1]
      BY <1>4, <3>1 DEF IsValue
    <3>3. QED
      BY <1>3, <3>1, <3>2, Zenon
  <2>3. \A k \in 0..n : r[k] = IF k = 0 THEN 0 ELSE b[n + 1 - k] + 256 * r[k - 1]
    BY <2>1, <2>2
  <2>4. QED
    BY <2>1, <2>3
<1> HIDE DEF F
<1>7. it = F(it)
  BY <1>6, Zenon
<1> HIDE DEF it
<1>8. it[0] = r[0]
  BY <1>2, <1>6, <1>7 DEF F
<1>9. ASSUME NEW i \in 1..n, it[i - 1] = r[i - 1] PROVE it[i] = r[i]
  <2>1. it[i] = b[n + 1 - i] + 256 * it[i - 1] /\ r[i] = b[n + 1 - i] + 256 * r[i - 1]
    BY <1>5, <1>6, <1>7 DEF F
  <2>2. QED
    BY <1>9, <2>1, Zenon
<1>10. it[n] = r[n]
  BY <1>2, <1>8, <1>9, SameSteps
<1>11. QED
  BY <1>1, <1>4, <1>10 DEF n

\* Decimal is the last of the values of the digits.
LEMMA DecimalValue ==
    ASSUME NEW ds \in Seq(Nat)
    PROVE  \E r : IsValue(r, Len(ds), 0, 10, ds) /\ r[Len(ds)] = Decimal(ds)
<1> DEFINE n == Len(ds)
           F(g) == [k \in 0..n |-> IF k = 0 THEN 0 ELSE 10 * g[k - 1] + ds[k]]
           it == CHOOSE g : g = F(g)
<1>1. Decimal(ds) = it[n]
  BY DEF Decimal
<1>2. n \in Nat /\ ds \in [1..n -> Nat]
  OBVIOUS
<1>3. PICK r : IsValue(r, n, 0, 10, ds)
  BY <1>2, ValueExists, 0 \in Nat, 10 \in Nat, Zenon
<1> HIDE DEF n
<1>4. \A i \in 1..n : i \in 0..n /\ i - 1 \in 0..n /\ i # 0
  BY <1>2
<1>5. r = F(r)
  <2>1. r \in [0..n -> Nat] /\ r[0] = 0
    BY <1>3 DEF IsValue
  <2>2. ASSUME NEW k \in 0..n, k # 0 PROVE r[k] = 10 * r[k - 1] + ds[k]
    <3>1. k \in 1..n
      BY <1>2, <2>2
    <3>2. r[k] = ds[k] + 10 * r[k - 1]
      BY <1>3, <3>1 DEF IsValue
    <3>3. ds[k] \in Nat /\ r[k - 1] \in Nat
      BY <1>2, <1>4, <2>1, <3>1
    <3>4. QED
      BY <3>2, <3>3
  <2>3. \A k \in 0..n : r[k] = IF k = 0 THEN 0 ELSE 10 * r[k - 1] + ds[k]
    BY <2>1, <2>2
  <2>4. QED
    BY <2>1, <2>3
<1> HIDE DEF F
<1>6. it = F(it)
  BY <1>5, Zenon
<1> HIDE DEF it
<1>7. it[0] = r[0]
  BY <1>2, <1>5, <1>6 DEF F
<1>8. ASSUME NEW i \in 1..n, it[i - 1] = r[i - 1] PROVE it[i] = r[i]
  <2>1. it[i] = 10 * it[i - 1] + ds[i] /\ r[i] = 10 * r[i - 1] + ds[i]
    BY <1>4, <1>5, <1>6 DEF F
  <2>2. QED
    BY <1>8, <2>1, Zenon
<1>9. it[n] = r[n]
  BY <1>2, <1>7, <1>8, SameSteps
<1>10. QED
  BY <1>1, <1>3, <1>9 DEF n

\* Power256 is the last of the values of digits that are all zero, from 1 on.
LEMMA PowerValue ==
    ASSUME NEW n \in Nat
    PROVE  \E r : IsValue(r, n, 1, 256, [i \in 1..n |-> 0]) /\ r[n] = Power256(n)
<1> DEFINE d == [i \in 1..n |-> 0]
           F(g) == [k \in 0..n |-> IF k = 0 THEN 1 ELSE 256 * g[k - 1]]
           it == CHOOSE g : g = F(g)
<1>1. Power256(n) = it[n]
  BY DEF Power256
<1>2. d \in [1..n -> Nat] /\ \A i \in 1..n : d[i] = 0
  OBVIOUS
<1> HIDE DEF d
<1>3. PICK r : IsValue(r, n, 1, 256, d)
  BY <1>2, ValueExists, 1 \in Nat, 256 \in Nat, Zenon
<1>4. \A i \in 1..n : i \in 0..n /\ i - 1 \in 0..n /\ i # 0
  OBVIOUS
<1>5. r = F(r)
  <2>1. r \in [0..n -> Nat] /\ r[0] = 1
    BY <1>3 DEF IsValue
  <2>2. ASSUME NEW k \in 0..n, k # 0 PROVE r[k] = 256 * r[k - 1]
    <3>1. k \in 1..n
      BY <2>2
    <3>2. r[k] = d[k] + 256 * r[k - 1]
      BY <1>3, <3>1 DEF IsValue
    <3>3. d[k] = 0 /\ r[k - 1] \in Nat
      BY <1>2, <1>4, <2>1, <3>1
    <3>4. QED
      BY <3>2, <3>3
  <2>3. \A k \in 0..n : r[k] = IF k = 0 THEN 1 ELSE 256 * r[k - 1]
    BY <2>1, <2>2
  <2>4. QED
    BY <2>1, <2>3
<1> HIDE DEF F
<1>6. it = F(it)
  BY <1>5, Zenon
<1> HIDE DEF it
<1>7. it[0] = r[0]
  BY <1>5, <1>6 DEF F
<1>8. ASSUME NEW i \in 1..n, it[i - 1] = r[i - 1] PROVE it[i] = r[i]
  <2>1. it[i] = 256 * it[i - 1] /\ r[i] = 256 * r[i - 1]
    BY <1>4, <1>5, <1>6 DEF F
  <2>2. QED
    BY <1>8, <2>1, Zenon
<1>9. it[n] = r[n]
  BY <1>7, <1>8, SameSteps
<1>10. QED
  BY <1>1, <1>3, <1>9 DEF d

\* A number and the one with all its bits inverted come to all ones.
LEMMA Complement ==
    ASSUME NEW b \in Seq(Byte)
    PROVE  /\ Times256(b) \in Nat /\ Times256(Inverted(b)) \in Nat
           /\ Power256(Len(b)) \in Nat
           /\ Times256(Inverted(b)) + Times256(b) + 1 = Power256(Len(b))
<1> DEFINE n == Len(b)
           c == Inverted(b)
<1>1. c \in Seq(Byte) /\ Len(c) = n /\ \A i \in 1..n : c[i] = 255 - b[i]
  <2>1. \A i \in 1..Len(b) : 255 - b[i] \in Byte
    <3> SUFFICES ASSUME NEW i \in 1..Len(b) PROVE 255 - b[i] \in Byte
      OBVIOUS
    <3>1. b[i] \in Byte
      OBVIOUS
    <3>2. QED
      BY <3>1, ByteIsNat, Zenon
  <2>2. QED
    BY <2>1 DEF Inverted
<1>2. n \in Nat /\ \A i \in 1..n : b[i] \in Nat /\ n + 1 - i \in 1..n
  <2>1. n \in Nat /\ \A i \in 1..n : b[i] \in Byte
    OBVIOUS
  <2>2. \A i \in 1..n : n + 1 - i \in 1..n
    OBVIOUS
  <2>3. QED
    BY <2>1, <2>2, ByteIsNat, Zenon
<1>3. PICK r : IsValue(r, n, 0, 256, FromAbove(b)) /\ r[n] = Times256(b)
  BY Times256Value
<1>4. PICK s : IsValue(s, n, 0, 256, FromAbove(c)) /\ s[n] = Times256(c)
  <2> HIDE DEF c, n
  <2>1. QED
    BY <1>1, Times256Value
<1>5. PICK p : IsValue(p, n, 1, 256, [i \in 1..n |-> 0]) /\ p[n] = Power256(n)
  BY <1>2, PowerValue
<1> HIDE DEF n, c
<1>6. ASSUME NEW i \in 1..n
      PROVE  FromAbove(b)[i] \in Nat /\ FromAbove(c)[i] = 255 - FromAbove(b)[i]
  <2>1. FromAbove(b)[i] = b[n + 1 - i] /\ FromAbove(c)[i] = c[n + 1 - i]
    BY <1>1 DEF FromAbove, n
  <2>2. n + 1 - i \in 1..n
    BY <1>2
  <2>3. QED
    BY <1>1, <1>2, <2>1, <2>2
<1> DEFINE T == {i \in 0..n : s[i] + r[i] + 1 = p[i]}
<1>7. 0 \in T
  BY <1>2, <1>3, <1>4, <1>5 DEF IsValue
<1>8. ASSUME NEW i \in 1..n, i - 1 \in T PROVE i \in T
  <2>1. i - 1 \in 0..n /\ i \in 0..n
    BY <1>2
  <2>2. /\ r[i - 1] \in Nat /\ s[i - 1] \in Nat /\ p[i - 1] \in Nat
        /\ r[i] = FromAbove(b)[i] + 256 * r[i - 1]
        /\ s[i] = FromAbove(c)[i] + 256 * s[i - 1]
        /\ p[i] = 0 + 256 * p[i - 1]
    BY <1>3, <1>4, <1>5, <2>1 DEF IsValue
  <2>3. s[i - 1] + r[i - 1] + 1 = p[i - 1]
    BY <1>8
  <2>4. p[i] = 256 * p[i - 1]
    BY <2>2
  <2>5. s[i] + r[i] + 1 = p[i]
    <3> DEFINE x == FromAbove(b)[i]
    <3>1. x \in Nat /\ s[i] = (255 - x) + 256 * s[i - 1] /\ r[i] = x + 256 * r[i - 1]
      BY <1>6, <2>2, ZenonT(40)
    <3> HIDE DEF x
    <3>2. r[i - 1] \in Nat /\ s[i - 1] \in Nat /\ p[i - 1] \in Nat
      BY <2>2, Zenon
    <3>3. ((255 - x) + 256 * s[i - 1]) + (x + 256 * r[i - 1]) + 1 = 256 * p[i - 1]
      <4>1. x \in Nat
        BY <3>1
      <4> DEFINE v == r[i - 1]
                 w == s[i - 1]
                 q == p[i - 1]
      <4>2. v \in Nat /\ w \in Nat /\ q \in Nat /\ w + v + 1 = q
        BY <2>3, <3>2
      <4> HIDE DEF v, w, q
      <4>3. ((255 - x) + 256 * w) + (x + 256 * v) + 1 = 256 * q
        BY <4>1, <4>2
      <4>4. QED
        BY <4>3 DEF v, w, q
    <3>4. QED
      BY <2>4, <3>1, <3>3, Zenon
  <2>6. QED
    BY <2>1, <2>5
<1> HIDE DEF T
<1>9. n \in T
  BY <1>2, <1>7, <1>8, Upto, n \in 0..n
<1>10. r[n] \in Nat /\ s[n] \in Nat /\ p[n] \in Nat
  BY <1>2, <1>3, <1>4, <1>5, n \in 0..n DEF IsValue
<1>11. QED
  BY <1>3, <1>4, <1>5, <1>9, <1>10 DEF T, n, c

\* The library's way to decode a negative number is that of two's complement.
LEMMA TwosComplementDecoded ==
    ASSUME NEW b \in Seq(Byte), b # <<>>
    PROVE  mbus_data_int_decode(b) = TwosComplement(b)
<1>1. -Times256(Inverted(b)) - 1 = Times256(b) - Power256(Len(b))
  BY Complement
<1>2. QED
  <2>1. Last(b) \in Byte
    BY DEF Last
  <2>2. Last(b) >= 128 <=> ~(Last(b) < 128)
    BY <2>1, ByteIsNat
  <2>3. QED
    BY <1>1, <2>2, Zenon DEF mbus_data_int_decode, TwosComplement
-----------------------------------------------------------------------------
(***************************************************************************)
(* Decimal digits: what is printed in hexadecimal is read by strtod as the *)
(* number that its decimal digits stand for.                               *)
(***************************************************************************)
\* Among some numbers there is a least one.
LEMMA LeastOf ==
    ASSUME NEW S \in SUBSET Nat, S # {}
    PROVE  \E m \in S : \A k \in S : m <= k
<1> DEFINE R == {ss \in Nat \X Nat : ss[1] < ss[2]}
<1>1. IsWellFoundedOn(R, Nat)
  BY NatLessThanWellFounded DEF OpToRel
<1>2. \A x, y \in Nat : y < x => <<y, x>> \in R
  OBVIOUS
<1> HIDE DEF R
<1>3. PICK x \in S : \A y \in S : ~(<<y, x>> \in R)
  BY <1>1, WFMin, Zenon
<1>4. ASSUME NEW y \in S PROVE x <= y
  <2>1. x \in Nat /\ y \in Nat
    BY Zenon
  <2>2. ~(y < x)
    BY <1>2, <1>3, <2>1, Zenon
  <2>3. QED
    BY <2>1, <2>2
<1>5. QED
  BY <1>3, <1>4

\* Where a row of digits ends.
LEMMA FirstOtherHolds ==
    ASSUME NEW ds \in Seq(Nat)
    PROVE  /\ FirstOther(ds, 1) \in 1..(Len(ds) + 1)
           /\ \A j \in 1..(FirstOther(ds, 1) - 1) : ds[j] <= 9
           /\ FirstOther(ds, 1) <= Len(ds) => ds[FirstOther(ds, 1)] > 9
<1> DEFINE n == Len(ds)
           others == {i \in 1..n : ds[i] > 9}
<1>1. n \in Nat /\ \A i \in 1..n : ds[i] \in Nat
  OBVIOUS
<1>2. FirstOther(ds, 1) = IF others = {} THEN n + 1
                          ELSE CHOOSE i \in others : \A j \in others : i <= j
  BY DEF FirstOther
<1> HIDE DEF n
<1>3. CASE others = {}
  <2>1. \A j \in 1..n : ds[j] <= 9
    BY <1>1, <1>3
  <2>2. FirstOther(ds, 1) = n + 1
    BY <1>2, <1>3
  <2>3. (n + 1) - 1 = n /\ n + 1 \in 1..(n + 1) /\ ~(n + 1 <= n)
    BY <1>1
  <2>4. QED
    BY <2>1, <2>2, <2>3 DEF n
<1>4. CASE others # {}
  <2>1. others \in SUBSET Nat
    OBVIOUS
  <2>2. \E m \in others : \A k \in others : m <= k
    BY <1>4, <2>1, LeastOf, Zenon
  <2>3. PICK m \in others : FirstOther(ds, 1) = m /\ \A k \in others : m <= k
    BY <1>2, <1>4, <2>2, Zenon
  <2>4. m \in 1..n /\ ds[m] > 9 /\ m \in 1..(n + 1)
    BY <1>1
  <2>5. ASSUME NEW j \in 1..(m - 1) PROVE ds[j] <= 9
    <3>1. j \in 1..n /\ ~(m <= j)
      BY <1>1, <2>4
    <3>2. j \notin others
      BY <2>3, <3>1
    <3>3. QED
      BY <1>1, <3>1, <3>2
  <2>6. QED
    BY <2>3, <2>4, <2>5 DEF n
<1>5. QED
  BY <1>3, <1>4

\* Only the first place can be the end.
LEMMA FirstOtherIs ==
    ASSUME NEW ds \in Seq(Nat), NEW m \in 1..(Len(ds) + 1),
           \A j \in 1..(m - 1) : ds[j] <= 9, m <= Len(ds) => ds[m] > 9
    PROVE  FirstOther(ds, 1) = m
<1> DEFINE f == FirstOther(ds, 1)
           n == Len(ds)
<1>1. /\ f \in 1..(n + 1)
      /\ \A j \in 1..(f - 1) : ds[j] <= 9
      /\ f <= n => ds[f] > 9
  BY FirstOtherHolds
<1>2. n \in Nat /\ \A i \in 1..n : ds[i] \in Nat
  OBVIOUS
<1>3. m \in 1..(n + 1) /\ (\A j \in 1..(m - 1) : ds[j] <= 9) /\ (m <= n => ds[m] > 9)
  OBVIOUS
<1> HIDE DEF f, n
<1>4. ASSUME f < m PROVE FALSE
  <2>1. f \in 1..(m - 1) /\ f \in 1..n /\ f <= n
    BY <1>1, <1>2, <1>3, <1>4
  <2>2. ds[f] \in Nat /\ ds[f] > 9 /\ ds[f] <= 9
    BY <1>1, <1>2, <1>3, <2>1
  <2>3. QED
    BY <2>2
<1>5. ASSUME m < f PROVE FALSE
  <2>1. m \in 1..(f - 1) /\ m \in 1..n /\ m <= n
    BY <1>1, <1>2, <1>3, <1>5
  <2>2. ds[m] \in Nat /\ ds[m] > 9 /\ ds[m] <= 9
    BY <1>1, <1>2, <1>3, <2>1
  <2>3. QED
    BY <2>2
<1>6. f = m
  BY <1>1, <1>2, <1>3, <1>4, <1>5
<1>7. QED
  BY <1>6 DEF f

\* What is printed is the number without its leading zeros.
LEMMA PrintedHolds ==
    ASSUME NEW ds \in Seq(Nat)
    PROVE  \E m \in 1..(Len(ds) + 1) :
              /\ Printed(ds) = SubSeq(ds, m, Len(ds))
              /\ \A j \in 1..(m - 1) : ds[j] = 0
              /\ m <= Len(ds) => ds[m] # 0
<1> DEFINE z == [i \in DOMAIN ds |-> IF ds[i] = 0 THEN 0 ELSE 10]
           m == FirstOther(z, 1)
<1>1. z \in Seq(Nat) /\ Len(z) = Len(ds) /\ Len(ds) \in Nat
  OBVIOUS
<1>2. \A i \in 1..Len(ds) : z[i] = IF ds[i] = 0 THEN 0 ELSE 10
  OBVIOUS
<1>3. Printed(ds) = SubSeq(ds, m, Len(ds))
  BY DEF Printed
<1> HIDE DEF z
<1>4. /\ m \in 1..(Len(ds) + 1)
      /\ \A j \in 1..(m - 1) : z[j] <= 9
      /\ m <= Len(ds) => z[m] > 9
  BY <1>1, FirstOtherHolds
<1> HIDE DEF m
<1>5. ASSUME NEW j \in 1..(m - 1) PROVE ds[j] = 0
  <2>1. j \in 1..Len(ds)
    BY <1>1, <1>4
  <2>2. z[j] <= 9
    BY <1>4
  <2>3. QED
    BY <1>2, <2>1, <2>2
<1>6. ASSUME m <= Len(ds) PROVE ds[m] # 0
  <2>1. m \in 1..Len(ds)
    BY <1>1, <1>4, <1>6
  <2>2. QED
    BY <1>2, <1>4, <1>6, <2>1
<1>7. QED
  BY <1>3, <1>4, <1>5, <1>6

\* Leading zeros add nothing.
LEMMA LeadingZeros ==
    ASSUME NEW ds \in Seq(Nat), NEW m \in 1..(Len(ds) + 1), \A j \in 1..(m - 1) : ds[j] = 0
    PROVE  Decimal(SubSeq(ds, m, Len(ds))) = Decimal(ds)
<1> DEFINE n == Len(ds)
           es == SubSeq(ds, m, n)
           l == n + 1 - m
<1>1. n \in Nat /\ l \in Nat /\ m \in 1..(n + 1) /\ m \in Int /\ l = n + 1 - m
  OBVIOUS
<1>2. es \in Seq(Nat) /\ Len(es) = l /\ \A i \in 1..l : es[i] = ds[m + i - 1]
  OBVIOUS
<1>3. PICK r : IsValue(r, n, 0, 10, ds) /\ r[n] = Decimal(ds)
  BY DecimalValue
<1> HIDE DEF es
<1>4. PICK s : IsValue(s, l, 0, 10, es) /\ s[l] = Decimal(es)
  <2>1. PICK s : IsValue(s, Len(es), 0, 10, es) /\ s[Len(es)] = Decimal(es)
    BY <1>2, DecimalValue, Zenon
  <2>2. QED
    BY <1>2, <2>1
<1>5. \A j \in 1..(m - 1) : ds[j] = 0
  OBVIOUS
<1> HIDE DEF n, l
<1>6. r[m - 1] = 0
  <2> DEFINE T == {i \in 0..(m - 1) : r[i] = 0}
  <2>1. 0 \in T
    BY <1>1, <1>3 DEF IsValue
  <2>2. ASSUME NEW i \in 1..(m - 1), i - 1 \in T PROVE i \in T
    <3>1. i \in 1..n /\ i \in 0..(m - 1)
      BY <1>1
    <3>2. r[i] = ds[i] + 10 * r[i - 1] /\ ds[i] = 0 /\ r[i - 1] = 0
      BY <1>3, <1>5, <2>2, <3>1 DEF IsValue
    <3>3. QED
      BY <3>1, <3>2
  <2> HIDE DEF T
  <2>3. m - 1 \in Nat /\ m - 1 \in 0..(m - 1)
    BY <1>1
  <2>4. m - 1 \in T
    BY <2>1, <2>2, <2>3, Upto
  <2>5. QED
    BY <2>4 DEF T
<1> DEFINE T == {i \in 0..l : r[m - 1 + i] = s[i]}
<1>7. 0 \in T
  BY <1>1, <1>4, <1>6 DEF IsValue
<1>8. ASSUME NEW i \in 1..l, i - 1 \in T PROVE i \in T
  <2>1. i \in 0..l /\ m - 1 + i \in 1..n /\ (m - 1 + i) - 1 = m - 1 + (i - 1) /\ m + i - 1 = m - 1 + i
    BY <1>1
  <2>2. r[m - 1 + (i - 1)] = s[i - 1]
    BY <1>8
  <2>3. r[m - 1 + i] = ds[m - 1 + i] + 10 * r[m - 1 + (i - 1)]
    <3> DEFINE k == m - 1 + i
    <3>1. k \in 1..n /\ k - 1 = m - 1 + (i - 1)
      BY <2>1
    <3> HIDE DEF k
    <3>2. r[k] = ds[k] + 10 * r[k - 1]
      BY <1>3, <3>1 DEF IsValue
    <3>3. r[k] = ds[k] + 10 * r[m - 1 + (i - 1)]
      BY <3>1, <3>2
    <3>4. QED
      BY <3>3 DEF k
  <2>4. s[i] = es[i] + 10 * s[i - 1]
    BY <1>4 DEF IsValue
  <2>5. es[i] = ds[m - 1 + i]
    BY <1>2, <2>1
  <2>6. r[m - 1 + i] = s[i]
    BY <2>2, <2>3, <2>4, <2>5
  <2>7. QED
    BY <2>1, <2>6
<1> HIDE DEF T
<1>9. l \in T
  BY <1>1, <1>7, <1>8, Upto, l \in 0..l
<1>10. m - 1 + l = n
  BY <1>1
<1>11. r[n] = s[l]
  BY <1>9, <1>10 DEF T
<1>12. QED
  BY <1>3, <1>4, <1>11 DEF es, n

\* What strtod makes of decimal digits, and of those after the F of a negative
\* number.
LEMMA StrtodDecimal ==
    ASSUME NEW ds \in Seq(Nat), \A i \in 1..Len(ds) : ds[i] <= 9
    PROVE  StrtodDigits(ds) = Number(Decimal(ds), TRUE)
<1>1. PICK m \in 1..(Len(ds) + 1) :
         /\ Printed(ds) = SubSeq(ds, m, Len(ds))
         /\ \A j \in 1..(m - 1) : ds[j] = 0
  BY PrintedHolds
<1> DEFINE ps == Printed(ds)
           l == Len(ds) + 1 - m
<1>2. ps \in Seq(Nat) /\ l \in Nat /\ Len(ps) = l /\ \A i \in 1..l : ps[i] <= 9
  <2> DEFINE es == SubSeq(ds, m, Len(ds))
  <2>1. es \in Seq(Nat) /\ l \in Nat /\ Len(es) = l
    OBVIOUS
  <2>2. \A i \in 1..l : es[i] = ds[m + i - 1] /\ m + i - 1 \in 1..Len(ds)
    OBVIOUS
  <2>3. \A i \in 1..l : es[i] <= 9
    BY <2>2
  <2> HIDE DEF es, l
  <2>4. QED
    BY <1>1, <2>1, <2>3 DEF es
<1> HIDE DEF ps, l
<1>3. FirstOther(ps, 1) = l + 1
  <2>1. l + 1 \in 1..(l + 1) /\ (l + 1) - 1 = l /\ ~(l + 1 <= l)
    BY <1>2
  <2>2. QED
    BY <1>2, <2>1, FirstOtherIs
<1>4. SubSeq(ps, 1, l) = ps
  BY <1>2
<1>5. Decimal(ps) = Decimal(ds)
  BY <1>1, LeadingZeros DEF ps
<1>6. ~(l + 1 < l) /\ (l + 1) - 1 = l
  BY <1>2
<1>7. QED
  BY <1>2, <1>3, <1>4, <1>5, <1>6 DEF StrtodDigits, ps

\* The F of a negative BCD number ends the number before its first digit.
LEMMA StrtodNegative ==
    ASSUME NEW ds \in Seq(Nat), ds # <<>>, ds[1] = 15
    PROVE  StrtodDigits(ds) = Number(0, FALSE)
<1>1. PICK m \in 1..(Len(ds) + 1) :
         /\ Printed(ds) = SubSeq(ds, m, Len(ds))
         /\ \A j \in 1..(m - 1) : ds[j] = 0
  BY PrintedHolds
<1>2. m = 1 /\ Len(ds) \in Nat /\ Len(ds) >= 1
  <2>1. ASSUME m # 1 PROVE FALSE
    <3>1. 1 \in 1..(m - 1)
      BY <2>1
    <3>2. QED
      BY <1>1, <3>1
  <2>2. QED
    BY <2>1
<1>3. Printed(ds) = ds
  BY <1>1, <1>2
<1>4. FirstOther(ds, 1) = 1
  <2>1. 1 \in 1..(Len(ds) + 1) /\ 1..(1 - 1) = {} /\ ds[1] > 9
    BY <1>2
  <2>2. QED
    BY <2>1, FirstOtherIs
<1>5. SubSeq(ds, 1, 0) = <<>> /\ <<>> \in Seq(Nat) /\ Len(<<>>) = 0
  OBVIOUS
<1>6. Decimal(<<>>) = 0
  <2>1. PICK r : IsValue(r, Len(<<>>), 0, 10, <<>>) /\ r[Len(<<>>)] = Decimal(<<>>)
    BY <1>5, DecimalValue, Zenon
  <2>2. QED
    BY <1>5, <2>1 DEF IsValue
<1>7. ~(1 > 1) /\ 1 - 1 = 0 /\ 1 # Len(ds) + 1
  BY <1>2
<1>8. QED
  BY <1>3, <1>4, <1>5, <1>6, <1>7 DEF StrtodDigits

\* The digits of BCD data.
LEMMA NibblesType ==
    ASSUME NEW b \in Seq(Byte)
    PROVE  /\ Nibbles(b) \in Seq(Nat)
           /\ Len(Nibbles(b)) = 2 * Len(b)
           /\ DOMAIN Nibbles(b) = 1..(2 * Len(b))
<1> DEFINE n == Len(b)
           at(i) == b[n - ((i - 1) \div 2)]
<1>1. n \in Nat /\ \A i \in 1..n : b[i] \in Byte
  OBVIOUS
<1>2. Nibbles(b) = [i \in 1..(2 * n) |-> IF i % 2 = 1 THEN at(i) \div 16 ELSE at(i) % 16]
  BY DEF Nibbles
<1> HIDE DEF n
<1>3. ASSUME NEW i \in 1..(2 * n)
      PROVE  (IF i % 2 = 1 THEN at(i) \div 16 ELSE at(i) % 16) \in Nat
  <2>1. n - ((i - 1) \div 2) \in 1..n
    BY <1>1
  <2>2. at(i) \in Byte
    BY <1>1, <2>1, Zenon
  <2> HIDE DEF at
  <2>3. at(i) \div 16 \in Nat /\ at(i) % 16 \in Nat
    BY <2>2, ByteIsNat, Zenon
  <2>4. QED
    BY <2>3, Zenon
<1> HIDE DEF at
<1>4. 2 * n \in Nat
  BY <1>1
<1> DEFINE q == 2 * n
<1>5. q \in Nat /\ Nibbles(b) = [i \in 1..q |-> IF i % 2 = 1 THEN at(i) \div 16 ELSE at(i) % 16]
      /\ \A i \in 1..q : (IF i % 2 = 1 THEN at(i) \div 16 ELSE at(i) % 16) \in Nat
  BY <1>2, <1>3, <1>4
<1> HIDE DEF q
<1>6. Nibbles(b) \in [1..q -> Nat]
  BY <1>5
<1>7. Nibbles(b) \in Seq(Nat) /\ Len(Nibbles(b)) = q /\ DOMAIN Nibbles(b) = 1..q
  BY <1>5, <1>6
<1>8. QED
  BY <1>7 DEF q, n

\* The two decoders of BCD data, and strtod on the text of one of them, have the
\* number that the digits stand for.
LEMMA BcdDecoded ==
    ASSUME NEW b \in Seq(Byte), b # <<>>, \A i \in 1..(2 * Len(b)) : Nibbles(b)[i] <= 9
    PROVE  /\ mbus_data_bcd_decode(b) = Decimal(Nibbles(b))
           /\ StrtodDigits(Nibbles(b)) = Number(Decimal(Nibbles(b)), TRUE)
<1> DEFINE ds == Nibbles(b)
<1>1. ds \in Seq(Nat) /\ Len(ds) = 2 * Len(b) /\ DOMAIN ds = 1..(2 * Len(b))
  BY NibblesType
<1>2. \A i \in 1..(2 * Len(b)) : ds[i] <= 9 /\ ds[i] \in Nat
  BY <1>1
<1>3. ds[1] # 15
  <2>1. 1 \in 1..(2 * Len(b))
    OBVIOUS
  <2>2. QED
    BY <1>2, <2>1
<1> HIDE DEF ds
<1>4. [i \in DOMAIN ds |-> IF i % 2 = 1 /\ ds[i] >= 10 THEN 0 ELSE ds[i]] = ds
  BY <1>1, <1>2
<1>5. mbus_data_bcd_decode(b) = Decimal(ds)
  BY <1>3, <1>4 DEF mbus_data_bcd_decode, ds
<1>6. StrtodDigits(ds) = Number(Decimal(ds), TRUE)
  BY <1>1, <1>2, StrtodDecimal
<1>7. QED
  BY <1>5, <1>6 DEF ds
-----------------------------------------------------------------------------
(***************************************************************************)
(* The data byte by byte: reads behind its end give the byte behind it.    *)
(***************************************************************************)
\* A byte of the data, or the one behind it.
LEMMA AtHolds ==
    ASSUME NEW d \in Seq(Byte), NEW t \in Byte, NEW i \in Nat
    PROVE  /\ At(d, t, i) \in Byte
           /\ i < Len(d) => i + 1 \in 1..Len(d) /\ At(d, t, i) = d[i + 1]
           /\ ~(i < Len(d)) => At(d, t, i) = t
<1>1. i < Len(d) => i + 1 \in 1..Len(d)
  OBVIOUS
<1>2. i + 1 \in 1..Len(d) => d[i + 1] \in Byte
  OBVIOUS
<1>3. QED
  BY <1>1, <1>2, Zenon DEF At

\* The loops over DIFE and VIFE end with the data.
LEMMA ExtensionsType ==
    ASSUME NEW d \in Seq(Byte), NEW i \in Nat
    PROVE  /\ Extensions(d, i) \in Nat
           /\ i <= Len(d) => i + Extensions(d, i) <= Len(d)
<1> DEFINE n == Len(d)
           ends == {k \in i..n : k < n => ~Extended(d[k + 1])}
<1>1. n \in Nat
  OBVIOUS
<1>2. Extensions(d, i) = IF i > n THEN 0 ELSE Min(ends) - i
  BY DEF Extensions
<1> HIDE DEF n
<1>3. CASE i > n
  BY <1>1, <1>2, <1>3 DEF n
<1>4. CASE ~(i > n)
  <2>1. n \in ends /\ ends \in SUBSET Nat
    BY <1>1, <1>4
  <2>2. \E m \in ends : \A k \in ends : m <= k
    BY <2>1, LeastOf, Zenon
  <2>3. Min(ends) \in ends
    BY <2>2, Zenon DEF Min
  <2>4. Min(ends) \in i..n
    BY <2>3
  <2>5. Extensions(d, i) = Min(ends) - i
    BY <1>2, <1>4
  <2> HIDE DEF ends
  <2>6. QED
    BY <1>1, <1>4, <2>4, <2>5 DEF n
<1>5. QED
  BY <1>3, <1>4

\* The length field takes a byte, or none if it is one of the reserved ones.
LEMMA LengthFieldHolds ==
    ASSUME NEW d \in Seq(Byte), NEW t \in Byte, NEW i \in Nat
    PROVE  /\ LengthField(d, t, i).length \in Nat
           /\ LengthField(d, t, i).size \in {0, 1}
           /\ t < 251 /\ ~(i < Len(d)) => LengthField(d, t, i).size = 1
<1> DEFINE b == At(d, t, i)
<1>1. b \in Byte /\ (~(i < Len(d)) => b = t)
  BY AtHolds
<1>2. LengthField(d, t, i) =
          CASE b <= 191 -> [length |-> b, size |-> 1]
            [] b \in 192..207 -> [length |-> (b - 192) * 2, size |-> 1]
            [] b \in 208..223 -> [length |-> (b - 208) * 2, size |-> 1]
            [] b \in 224..239 -> [length |-> b - 224, size |-> 1]
            [] b \in 240..250 -> [length |-> b - 240, size |-> 1]
            [] OTHER -> [length |-> 0, size |-> 0]
  BY DEF LengthField
<1> HIDE DEF b
<1>3. b \in 0..255
  BY <1>1 DEF Byte
<1> HIDE DEF b
<1>4. CASE b <= 191
  <2>1. b \notin 192..207 /\ b \notin 208..223 /\ b \notin 224..239 /\ b \notin 240..250
    BY <1>3, <1>4
  <2>2. LengthField(d, t, i) = [length |-> b, size |-> 1]
    BY <1>2, <1>4, <2>1, Zenon
  <2>3. b \in Nat
    BY <1>3, <1>4
  <2>4. QED
    BY <2>2, <2>3
<1>5. CASE b \in 192..207
  <2>1. ~(b <= 191) /\ b \notin 208..223 /\ b \notin 224..239 /\ b \notin 240..250
    BY <1>3, <1>5
  <2>2. LengthField(d, t, i) = [length |-> (b - 192) * 2, size |-> 1]
    BY <1>2, <1>5, <2>1
  <2>3. (b - 192) * 2 \in Nat
    BY <1>3, <1>5
  <2>4. QED
    BY <2>2, <2>3
<1>6. CASE b \in 208..223
  <2>1. ~(b <= 191) /\ b \notin 192..207 /\ b \notin 224..239 /\ b \notin 240..250
    BY <1>3, <1>6
  <2>2. LengthField(d, t, i) = [length |-> (b - 208) * 2, size |-> 1]
    BY <1>2, <1>6, <2>1
  <2>3. (b - 208) * 2 \in Nat
    BY <1>3, <1>6
  <2>4. QED
    BY <2>2, <2>3
<1>7. CASE b \in 224..239
  <2>1. ~(b <= 191) /\ b \notin 192..207 /\ b \notin 208..223 /\ b \notin 240..250
    BY <1>3, <1>7
  <2>2. LengthField(d, t, i) = [length |-> b - 224, size |-> 1]
    BY <1>2, <1>7, <2>1
  <2>3. b - 224 \in Nat
    BY <1>3, <1>7
  <2>4. QED
    BY <2>2, <2>3
<1>8. CASE b \in 240..250
  <2>1. ~(b <= 191) /\ b \notin 192..207 /\ b \notin 208..223 /\ b \notin 224..239
    BY <1>3, <1>8
  <2>2. LengthField(d, t, i) = [length |-> b - 240, size |-> 1]
    BY <1>2, <1>8, <2>1
  <2>3. b - 240 \in Nat
    BY <1>3, <1>8
  <2>4. QED
    BY <2>2, <2>3
<1>9. CASE b \in 251..255
  <2>1. /\ ~(b <= 191) /\ b \notin 192..207 /\ b \notin 208..223 /\ b \notin 224..239
        /\ b \notin 240..250 /\ ~(b < 251)
    BY <1>9
  <2>2. LengthField(d, t, i) = [length |-> 0, size |-> 0]
    BY <1>2, <2>1, Zenon
  <2>3. t < 251 /\ ~(i < Len(d)) => FALSE
    BY <1>1, <2>1
  <2>4. QED
    BY <2>2, <2>3
<1>10. QED
  BY <1>3, <1>4, <1>5, <1>6, <1>7, <1>8, <1>9

\* The data of a record of a given type.
LEMMA LengthsOfData ==
    ASSUME NEW dif \in Byte
    PROVE  /\ mbus_dif_datalength_lookup(dif) \in Nat
           /\ dif % 16 \notin {0, 8, 13} => mbus_dif_datalength_lookup(dif) >= 1
<1>1. dif \in 0..255
  BY DEF Byte
<1>2. dif % 16 \in 0..15
  BY <1>1
<1>3. \A k \in 0..15 : /\ <<0, 1, 2, 3, 4, 4, 6, 8, 0, 1, 2, 3, 4, 0, 6, 8>>[k + 1] \in Nat
                       /\ k \notin {0, 8, 13} => <<0, 1, 2, 3, 4, 4, 6, 8, 0, 1, 2, 3, 4, 0, 6, 8>>[k + 1] >= 1
  OBVIOUS
<1>4. QED
  BY <1>2, <1>3, Zenon DEF mbus_dif_datalength_lookup

\* What lies within the data is the same whatever is behind it.
LEMMA SliceHolds ==
    ASSUME NEW d \in Seq(Byte), NEW t \in Byte, NEW i \in Nat, NEW n \in Nat
    PROVE  /\ Slice(d, t, i, n) \in Seq(Byte)
           /\ Len(Slice(d, t, i, n)) = n
           /\ i + n <= Len(d) => Slice(d, t, i, n) = Slice(d, 0, i, n)
<1>1. \A k \in 1..n : i + k - 1 \in Nat
  OBVIOUS
<1>2. \A k \in 1..n : At(d, t, i + k - 1) \in Byte
  BY <1>1, AtHolds
<1>3. Slice(d, t, i, n) \in Seq(Byte) /\ Len(Slice(d, t, i, n)) = n
  BY <1>2 DEF Slice
<1>4. ASSUME i + n <= Len(d), NEW k \in 1..n
      PROVE  At(d, t, i + k - 1) = At(d, 0, i + k - 1)
  <2>1. i + k - 1 < Len(d)
    BY <1>4
  <2>2. QED
    BY <2>1, Zenon DEF At
<1>5. QED
  BY <1>3, <1>4 DEF Slice
-----------------------------------------------------------------------------
(***************************************************************************)
(* The parts of one record, in the order ParseRecord reads them.           *)
(***************************************************************************)
(***************************************************************************)
(* Where the parts of a record lie that begins at i: the VIF, the VIFEs    *)
(* behind it and behind a custom unit, the length and the data.            *)
(***************************************************************************)
VifAt(d, i) == i + Extensions(d, i) + 1
IsCustom(d, t, i) == At(d, t, VifAt(d, i)) % 128 = 124
CustomLength(d, t, i) == IF IsCustom(d, t, i) THEN At(d, t, VifAt(d, i) + 1) ELSE 0
VifesAt(d, t, i) == VifAt(d, i) + 1 + (IF IsCustom(d, t, i) THEN 1 + CustomLength(d, t, i) ELSE 0)
Vifes(d, t, i) == IF Extended(At(d, t, VifAt(d, i))) THEN 1 + Extensions(d, VifesAt(d, t, i)) ELSE 0
LengthAt(d, t, i) == VifesAt(d, t, i) + Vifes(d, t, i)
DataLength(d, t, i) == IF d[i + 1] % 16 = 13 THEN LengthField(d, t, LengthAt(d, t, i))
                       ELSE [length |-> mbus_dif_datalength_lookup(d[i + 1]), size |-> 0]
DataAt(d, t, i) == LengthAt(d, t, i) + DataLength(d, t, i).size

IsRefused(d, t, i) ==
    \/ Extensions(d, i) > MaxExtensions \/ VifAt(d, i) > Len(d)
    \/ IsCustom(d, t, i) /\ (CustomLength(d, t, i) > CUSTOM_VIF_SIZE \/ VifesAt(d, t, i) > Len(d))
    \/ Vifes(d, t, i) > MaxExtensions \/ LengthAt(d, t, i) > Len(d)
    \/ ~FitsInFrame(d, DataAt(d, t, i), DataLength(d, t, i).length)

RecordAt(d, t, i) ==
    [dif |-> d[i + 1], dife |-> Slice(d, t, i + 1, Extensions(d, i)),
     vif |-> At(d, t, VifAt(d, i)), vife |-> Slice(d, t, VifesAt(d, t, i), Vifes(d, t, i)),
     custom_vif |-> Reverse(Slice(d, t, VifesAt(d, t, i) - CustomLength(d, t, i), CustomLength(d, t, i))),
     data |-> Slice(d, t, DataAt(d, t, i), DataLength(d, t, i).length)]

\* ParseRecord in terms of these parts.
LEMMA TurnParts ==
    ASSUME NEW d, NEW t, NEW i
    PROVE  ParseRecord(d, t, i) =
             IF IsRefused(d, t, i) THEN Failed
             ELSE [code |-> 0, next |-> DataAt(d, t, i) + DataLength(d, t, i).length,
                   record |-> RecordAt(d, t, i)]
  BY Zenon DEF ParseRecord, VifAt, IsCustom, CustomLength, VifesAt, Vifes, LengthAt, DataLength,
               DataAt, IsRefused, RecordAt

\* They follow one another.
LEMMA PartsFollow ==
    ASSUME NEW d \in Seq(Byte), NEW t \in Byte, NEW i \in Nat, i < Len(d)
    PROVE  /\ d[i + 1] \in Byte
           /\ Extensions(d, i) \in Nat
           /\ VifAt(d, i) \in Nat /\ i + 1 + Extensions(d, i) = VifAt(d, i)
           /\ CustomLength(d, t, i) \in Nat
           /\ VifesAt(d, t, i) \in Nat /\ VifesAt(d, t, i) > VifAt(d, i)
           /\ VifesAt(d, t, i) - CustomLength(d, t, i) \in Nat
           /\ IsCustom(d, t, i) => VifesAt(d, t, i) > VifAt(d, i) + 1
           /\ Vifes(d, t, i) \in Nat
           /\ LengthAt(d, t, i) \in Nat /\ LengthAt(d, t, i) = VifesAt(d, t, i) + Vifes(d, t, i)
           /\ DataLength(d, t, i).length \in Nat /\ DataLength(d, t, i).size \in {0, 1}
           /\ DataAt(d, t, i) \in Nat /\ DataAt(d, t, i) = LengthAt(d, t, i) + DataLength(d, t, i).size
<1>1. Extensions(d, i) \in Nat /\ d[i + 1] \in Byte
  <2>1. i + 1 \in 1..Len(d)
    OBVIOUS
  <2>2. QED
    BY <2>1, ExtensionsType
<1>2. VifAt(d, i) \in Nat /\ i + 1 + Extensions(d, i) = VifAt(d, i)
  BY <1>1 DEF VifAt
<1>3. At(d, t, VifAt(d, i) + 1) \in Nat
  <2>1. VifAt(d, i) + 1 \in Nat
    BY <1>2
  <2>2. QED
    BY <2>1, AtHolds, ByteIsNat, Zenon
<1>4. CustomLength(d, t, i) \in Nat
  BY <1>3 DEF CustomLength
<1>5. /\ VifesAt(d, t, i) \in Nat /\ VifesAt(d, t, i) > VifAt(d, i)
      /\ VifesAt(d, t, i) - CustomLength(d, t, i) \in Nat
      /\ IsCustom(d, t, i) => VifesAt(d, t, i) > VifAt(d, i) + 1
  <2>1. CASE IsCustom(d, t, i)
    <3>1. VifesAt(d, t, i) = VifAt(d, i) + 1 + (1 + CustomLength(d, t, i))
      BY <2>1, Zenon DEF VifesAt
    <3>2. QED
      BY <1>2, <1>4, <3>1
  <2>2. CASE ~IsCustom(d, t, i)
    <3>1. VifesAt(d, t, i) = VifAt(d, i) + 1 + 0 /\ CustomLength(d, t, i) = 0
      BY <2>2, Zenon DEF VifesAt, CustomLength
    <3>2. QED
      BY <1>2, <2>2, <3>1
  <2>3. QED
    BY <2>1, <2>2
<1>6. Vifes(d, t, i) \in Nat
  <2>1. Extensions(d, VifesAt(d, t, i)) \in Nat
    BY <1>5, ExtensionsType
  <2>2. QED
    BY <2>1 DEF Vifes
<1>7. LengthAt(d, t, i) \in Nat /\ LengthAt(d, t, i) = VifesAt(d, t, i) + Vifes(d, t, i)
  BY <1>5, <1>6 DEF LengthAt
<1>8. DataLength(d, t, i).length \in Nat /\ DataLength(d, t, i).size \in {0, 1}
  <2>1. CASE d[i + 1] % 16 = 13
    <3>1. DataLength(d, t, i) = LengthField(d, t, LengthAt(d, t, i))
      BY <2>1, Zenon DEF DataLength
    <3>2. QED
      BY <1>7, <3>1, LengthFieldHolds
  <2>2. CASE d[i + 1] % 16 # 13
    <3>1. DataLength(d, t, i) = [length |-> mbus_dif_datalength_lookup(d[i + 1]), size |-> 0]
      BY <2>2, Zenon DEF DataLength
    <3>2. mbus_dif_datalength_lookup(d[i + 1]) \in Nat
      BY <1>1, LengthsOfData
    <3>3. QED
      BY <3>1, <3>2
  <2>3. QED
    BY <2>1, <2>2
<1>9. DataAt(d, t, i) \in Nat /\ DataAt(d, t, i) = LengthAt(d, t, i) + DataLength(d, t, i).size
  BY <1>7, <1>8 DEF DataAt
<1>10. QED
  BY <1>1, <1>2, <1>4, <1>5, <1>6, <1>7, <1>8, <1>9

\* A record that is not refused lies within the data.
LEMMA PartsWithin ==
    ASSUME NEW d \in Seq(Byte), NEW t \in Byte, t < 251, NEW i \in Nat, i < Len(d),
           ~IsRefused(d, t, i)
    PROVE  /\ VifAt(d, i) < Len(d)
           /\ IsCustom(d, t, i) => VifAt(d, i) + 1 < Len(d)
           /\ LengthAt(d, t, i) <= Len(d)
           /\ d[i + 1] % 16 = 13 => LengthAt(d, t, i) < Len(d)
           /\ DataAt(d, t, i) + DataLength(d, t, i).length <= Len(d)
<1>1. /\ VifAt(d, i) \in Nat /\ VifesAt(d, t, i) \in Nat /\ VifesAt(d, t, i) > VifAt(d, i)
      /\ IsCustom(d, t, i) => VifesAt(d, t, i) > VifAt(d, i) + 1
      /\ Vifes(d, t, i) \in Nat
      /\ LengthAt(d, t, i) \in Nat /\ LengthAt(d, t, i) = VifesAt(d, t, i) + Vifes(d, t, i)
      /\ DataLength(d, t, i).length \in Nat /\ DataLength(d, t, i).size \in {0, 1}
      /\ DataAt(d, t, i) \in Nat /\ DataAt(d, t, i) = LengthAt(d, t, i) + DataLength(d, t, i).size
  BY PartsFollow
<1>2. ~(LengthAt(d, t, i) > Len(d)) /\ FitsInFrame(d, DataAt(d, t, i), DataLength(d, t, i).length)
  BY Zenon DEF IsRefused
<1>3. DataAt(d, t, i) + DataLength(d, t, i).length <= Len(d)
  BY <1>2, Zenon DEF FitsInFrame
<1>4. ASSUME d[i + 1] % 16 = 13 PROVE LengthAt(d, t, i) < Len(d)
  <2>1. SUFFICES ASSUME ~(LengthAt(d, t, i) < Len(d)) PROVE FALSE
    OBVIOUS
  <2>2. DataLength(d, t, i) = LengthField(d, t, LengthAt(d, t, i))
    BY <1>4, Zenon DEF DataLength
  <2>3. DataLength(d, t, i).size = 1
    BY <1>1, <2>1, <2>2, LengthFieldHolds
  <2>4. QED
    BY <1>1, <1>3, <2>1, <2>3
<1>5. QED
  BY <1>1, <1>2, <1>3, <1>4
-----------------------------------------------------------------------------
(***************************************************************************)
(* What is behind the data: a record is refused or the same with any two   *)
(* bytes there, as long as none of them is a reserved length.              *)
(***************************************************************************)
\* What is behind the data has no part in a record that is not refused.
LEMMA PartsSame ==
    ASSUME NEW d \in Seq(Byte), NEW x \in Byte, x < 251, NEW y \in Byte, NEW i \in Nat,
           i < Len(d), ~IsRefused(d, x, i)
    PROVE  /\ At(d, x, VifAt(d, i)) = At(d, y, VifAt(d, i))
           /\ IsCustom(d, x, i) <=> IsCustom(d, y, i)
           /\ CustomLength(d, x, i) = CustomLength(d, y, i)
           /\ VifesAt(d, x, i) = VifesAt(d, y, i)
           /\ Vifes(d, x, i) = Vifes(d, y, i)
           /\ LengthAt(d, x, i) = LengthAt(d, y, i)
           /\ DataLength(d, x, i) = DataLength(d, y, i)
           /\ DataAt(d, x, i) = DataAt(d, y, i)
<1>1. /\ VifAt(d, i) < Len(d)
      /\ IsCustom(d, x, i) => VifAt(d, i) + 1 < Len(d)
      /\ LengthAt(d, x, i) <= Len(d)
      /\ d[i + 1] % 16 = 13 => LengthAt(d, x, i) < Len(d)
  BY PartsWithin
<1>2. At(d, x, VifAt(d, i)) = At(d, y, VifAt(d, i))
  BY <1>1, Zenon DEF At
<1>3. IsCustom(d, x, i) <=> IsCustom(d, y, i)
  BY <1>2, Zenon DEF IsCustom
<1>4. CustomLength(d, x, i) = CustomLength(d, y, i)
  <2>1. CASE IsCustom(d, x, i)
    <3>1. At(d, x, VifAt(d, i) + 1) = At(d, y, VifAt(d, i) + 1)
      BY <1>1, <2>1, Zenon DEF At
    <3>2. QED
      BY <1>3, <2>1, <3>1, Zenon DEF CustomLength
  <2>2. CASE ~IsCustom(d, x, i)
    BY <1>3, <2>2, Zenon DEF CustomLength
  <2>3. QED
    BY <2>1, <2>2
<1>5. VifesAt(d, x, i) = VifesAt(d, y, i)
  <2>1. CASE IsCustom(d, x, i)
    BY <1>3, <1>4, <2>1, Zenon DEF VifesAt
  <2>2. CASE ~IsCustom(d, x, i)
    BY <1>3, <2>2, Zenon DEF VifesAt
  <2>3. QED
    BY <2>1, <2>2
<1>6. Vifes(d, x, i) = Vifes(d, y, i)
  BY <1>2, <1>5, Zenon DEF Vifes
<1>7. LengthAt(d, x, i) = LengthAt(d, y, i)
  BY <1>5, <1>6, Zenon DEF LengthAt
<1>8. DataLength(d, x, i) = DataLength(d, y, i)
  <2>1. CASE d[i + 1] % 16 = 13
    <3>1. At(d, x, LengthAt(d, x, i)) = At(d, y, LengthAt(d, x, i))
      BY <1>1, <2>1, Zenon DEF At
    <3>2. LengthField(d, x, LengthAt(d, x, i)) = LengthField(d, y, LengthAt(d, x, i))
      BY <3>1, Zenon DEF LengthField
    <3>3. QED
      BY <1>7, <2>1, <3>2, Zenon DEF DataLength
  <2>2. CASE d[i + 1] % 16 # 13
    BY <2>2, Zenon DEF DataLength
  <2>3. QED
    BY <2>1, <2>2
<1>9. DataAt(d, x, i) = DataAt(d, y, i)
  BY <1>7, <1>8, Zenon DEF DataAt
<1>10. QED
  BY <1>2, <1>3, <1>4, <1>5, <1>6, <1>7, <1>8, <1>9, Zenon

\* A record that is accepted with one byte behind the data is with any other.
LEMMA RefusedSame ==
    ASSUME NEW d \in Seq(Byte), NEW x \in Byte, x < 251, NEW y \in Byte, NEW i \in Nat,
           i < Len(d), ~IsRefused(d, x, i)
    PROVE  ~IsRefused(d, y, i)
<1>1. /\ IsCustom(d, x, i) <=> IsCustom(d, y, i)
      /\ CustomLength(d, x, i) = CustomLength(d, y, i)
      /\ VifesAt(d, x, i) = VifesAt(d, y, i)
      /\ Vifes(d, x, i) = Vifes(d, y, i)
      /\ LengthAt(d, x, i) = LengthAt(d, y, i)
      /\ DataLength(d, x, i) = DataLength(d, y, i)
      /\ DataAt(d, x, i) = DataAt(d, y, i)
  BY PartsSame
<1>2. QED
  BY <1>1, Zenon DEF IsRefused

\* A slice within the data is the same whatever is behind it.
LEMMA SlicesSame ==
    ASSUME NEW d \in Seq(Byte), NEW x \in Byte, NEW y \in Byte, NEW i \in Nat, NEW n \in Nat,
           i + n <= Len(d)
    PROVE  Slice(d, x, i, n) = Slice(d, y, i, n)
  BY SliceHolds

\* An accepted record is the same whatever is behind the data.
LEMMA RecordSame ==
    ASSUME NEW d \in Seq(Byte), NEW x \in Byte, x < 251, NEW y \in Byte, NEW i \in Nat,
           i < Len(d), ~IsRefused(d, x, i)
    PROVE  RecordAt(d, x, i) = RecordAt(d, y, i)
<1>1. /\ Extensions(d, i) \in Nat
      /\ VifAt(d, i) \in Nat /\ i + 1 + Extensions(d, i) = VifAt(d, i)
      /\ CustomLength(d, x, i) \in Nat
      /\ VifesAt(d, x, i) \in Nat
      /\ VifesAt(d, x, i) - CustomLength(d, x, i) \in Nat
      /\ Vifes(d, x, i) \in Nat
      /\ LengthAt(d, x, i) \in Nat /\ LengthAt(d, x, i) = VifesAt(d, x, i) + Vifes(d, x, i)
      /\ DataLength(d, x, i).length \in Nat
      /\ DataAt(d, x, i) \in Nat
  BY PartsFollow
<1>2. /\ VifAt(d, i) < Len(d)
      /\ LengthAt(d, x, i) <= Len(d)
      /\ DataAt(d, x, i) + DataLength(d, x, i).length <= Len(d)
  BY PartsWithin
<1>3. /\ At(d, x, VifAt(d, i)) = At(d, y, VifAt(d, i))
      /\ CustomLength(d, x, i) = CustomLength(d, y, i)
      /\ VifesAt(d, x, i) = VifesAt(d, y, i)
      /\ Vifes(d, x, i) = Vifes(d, y, i)
      /\ DataLength(d, x, i) = DataLength(d, y, i)
      /\ DataAt(d, x, i) = DataAt(d, y, i)
  BY PartsSame
<1>4. Slice(d, x, i + 1, Extensions(d, i)) = Slice(d, y, i + 1, Extensions(d, i))
  <2>1. i + 1 \in Nat /\ i + 1 + Extensions(d, i) <= Len(d)
    BY <1>1, <1>2
  <2>2. QED
    BY <1>1, <2>1, SlicesSame
<1>5. Slice(d, x, VifesAt(d, x, i), Vifes(d, x, i)) = Slice(d, y, VifesAt(d, x, i), Vifes(d, x, i))
  <2>1. VifesAt(d, x, i) + Vifes(d, x, i) <= Len(d)
    BY <1>1, <1>2
  <2>2. QED
    BY <1>1, <2>1, SlicesSame
<1>6. Slice(d, x, VifesAt(d, x, i) - CustomLength(d, x, i), CustomLength(d, x, i))
        = Slice(d, y, VifesAt(d, x, i) - CustomLength(d, x, i), CustomLength(d, x, i))
  <2> DEFINE k == VifesAt(d, x, i) - CustomLength(d, x, i)
  <2>1. k \in Nat /\ k + CustomLength(d, x, i) <= Len(d)
    BY <1>1, <1>2
  <2> HIDE DEF k
  <2>2. Slice(d, x, k, CustomLength(d, x, i)) = Slice(d, y, k, CustomLength(d, x, i))
    BY <1>1, <2>1, SlicesSame, SMTT(30)
  <2>3. QED
    BY <2>2 DEF k
<1>7. Slice(d, x, DataAt(d, x, i), DataLength(d, x, i).length)
        = Slice(d, y, DataAt(d, x, i), DataLength(d, x, i).length)
  BY <1>1, <1>2, SlicesSame, SMTT(30)
<1>8. QED
  BY <1>3, <1>4, <1>5, <1>6, <1>7, Zenon DEF RecordAt

\* A turn of the loop comes to the same, whatever is behind the data.
LEMMA TurnSame ==
    ASSUME NEW d \in Seq(Byte), NEW x \in Byte, x < 251, NEW y \in Byte, y < 251, NEW i \in Nat,
           i < Len(d)
    PROVE  ParseRecord(d, x, i) = ParseRecord(d, y, i)
<1>1. CASE ~IsRefused(d, x, i)
  <2>1. ~IsRefused(d, y, i)
    BY <1>1, RefusedSame
  <2>2. DataAt(d, x, i) = DataAt(d, y, i) /\ DataLength(d, x, i) = DataLength(d, y, i)
    BY <1>1, PartsSame
  <2>3. RecordAt(d, x, i) = RecordAt(d, y, i)
    BY <1>1, RecordSame
  <2>4. QED
    BY <1>1, <2>1, <2>2, <2>3, TurnParts, Zenon
<1>2. CASE IsRefused(d, x, i)
  <2>1. IsRefused(d, y, i)
    BY <1>2, RefusedSame
  <2>2. QED
    BY <1>2, <2>1, TurnParts, Zenon
<1>3. QED
  BY <1>1, <1>2

\* What is parsed from the data is the same whatever is behind it.
LEMMA TurnsSame ==
    ASSUME NEW d \in Seq(Byte), NEW x \in Byte, x < 251, NEW y \in Byte, y < 251
    PROVE  mbus_data_variable_parse(d, x) = mbus_data_variable_parse(d, y)
<1>1. ASSUME NEW i \in 0..(Len(d) - 1) PROVE ParseRecord(d, x, i) = ParseRecord(d, y, i)
  <2>1. i \in Nat /\ i < Len(d)
    OBVIOUS
  <2>2. QED
    BY <2>1, TurnSame
<1>2. Turns(d, x) = Turns(d, y)
  BY <1>1, Zenon DEF Turns
<1>3. QED
  BY <1>2, Zenon DEF mbus_data_variable_parse
-----------------------------------------------------------------------------
(***************************************************************************)
(* The records of the data and their types.                                *)
(***************************************************************************)
(***************************************************************************)
(* The records of the variable data.  Only those without data, with an     *)
(* unknown type or with data of variable length may have no data.          *)
(***************************************************************************)
TypedRecords ==
    {r \in [dif : Byte, dife : Seq(Byte), vif : Byte, vife : Seq(Byte),
            custom_vif : Seq(Byte), data : Seq(Byte)] :
        DataField(r) \notin {0, 8, 13, 15} => r.data # <<>>}

ParsedRecords == {Failed} \cup [code : {0}, records : Seq(TypedRecords)]

\* A turn of the loop fails or moves on, with a typed record.
LEMMA TurnType ==
    ASSUME NEW d \in Seq(Byte), NEW t \in Byte, t < 251, NEW i \in Nat, i < Len(d)
    PROVE  \/ ParseRecord(d, t, i).code = -1
           \/ /\ ParseRecord(d, t, i).code = 0
              /\ ParseRecord(d, t, i).next \in Nat
              /\ ParseRecord(d, t, i).next > i
              /\ ParseRecord(d, t, i).record \in TypedRecords
<1>1. CASE IsRefused(d, t, i)
  <2>1. ParseRecord(d, t, i) = Failed
    BY <1>1, TurnParts, Zenon
  <2>2. QED
    BY <2>1 DEF Failed
<1>2. CASE ~IsRefused(d, t, i)
  <2> DEFINE p == ParseRecord(d, t, i)
             r == RecordAt(d, t, i)
             c == Slice(d, t, VifesAt(d, t, i) - CustomLength(d, t, i), CustomLength(d, t, i))
  <2>1. p = [code |-> 0, next |-> DataAt(d, t, i) + DataLength(d, t, i).length, record |-> r]
    BY <1>2, TurnParts, Zenon
  <2>2. p.code = 0 /\ p.next = DataAt(d, t, i) + DataLength(d, t, i).length /\ p.record = r
    <3> HIDE DEF p, r
    <3>1. QED
      BY <2>1
  <2>3. /\ d[i + 1] \in Byte
        /\ Extensions(d, i) \in Nat
        /\ VifAt(d, i) \in Nat /\ i + 1 + Extensions(d, i) = VifAt(d, i)
        /\ CustomLength(d, t, i) \in Nat
        /\ VifesAt(d, t, i) \in Nat /\ VifesAt(d, t, i) > VifAt(d, i)
        /\ VifesAt(d, t, i) - CustomLength(d, t, i) \in Nat
        /\ Vifes(d, t, i) \in Nat
        /\ LengthAt(d, t, i) \in Nat /\ LengthAt(d, t, i) = VifesAt(d, t, i) + Vifes(d, t, i)
        /\ DataLength(d, t, i).length \in Nat /\ DataLength(d, t, i).size \in {0, 1}
        /\ DataAt(d, t, i) \in Nat /\ DataAt(d, t, i) = LengthAt(d, t, i) + DataLength(d, t, i).size
    BY PartsFollow
  <2>4. DataAt(d, t, i) + DataLength(d, t, i).length \in Nat
        /\ DataAt(d, t, i) + DataLength(d, t, i).length > i
    <3>1. VifAt(d, i) > i
      BY <2>3
    <3>2. LengthAt(d, t, i) > i
      BY <2>3, <3>1
    <3>3. DataAt(d, t, i) > i
      BY <2>3, <3>2, SMTT(30)
    <3>4. DataAt(d, t, i) \in Nat /\ DataLength(d, t, i).length \in Nat
      BY <2>3
    <3>5. QED
      BY <3>3, <3>4
  <2>5. /\ r.dif = d[i + 1] /\ r.dife = Slice(d, t, i + 1, Extensions(d, i))
        /\ r.vif = At(d, t, VifAt(d, i)) /\ r.vife = Slice(d, t, VifesAt(d, t, i), Vifes(d, t, i))
        /\ r.custom_vif = Reverse(c)
        /\ r.data = Slice(d, t, DataAt(d, t, i), DataLength(d, t, i).length)
        /\ r = [dif |-> r.dif, dife |-> r.dife, vif |-> r.vif, vife |-> r.vife,
                custom_vif |-> r.custom_vif, data |-> r.data]
    BY DEF RecordAt
  <2>6. i + 1 \in Nat
    OBVIOUS
  <2> HIDE DEF p, r, c
  <2>7. r.dife \in Seq(Byte) /\ r.vife \in Seq(Byte)
    BY <2>3, <2>5, <2>6, SliceHolds, SMTT(30)
  <2>8. r.data \in Seq(Byte) /\ Len(r.data) = DataLength(d, t, i).length
    <3> DEFINE l == DataLength(d, t, i).length
    <3>1. DataAt(d, t, i) \in Nat /\ l \in Nat /\ r.data = Slice(d, t, DataAt(d, t, i), l)
      BY <2>3, <2>5
    <3> HIDE DEF l
    <3>2. Slice(d, t, DataAt(d, t, i), l) \in Seq(Byte) /\ Len(Slice(d, t, DataAt(d, t, i), l)) = l
      BY <3>1, SliceHolds, Zenon
    <3>3. QED
      BY <3>1, <3>2, Zenon DEF l
  <2>9. r.custom_vif \in Seq(Byte)
    <3>1. c \in Seq(Byte)
      BY <2>3, SliceHolds DEF c
    <3>2. Reverse(c) \in Seq(Byte)
      BY <3>1 DEF Reverse
    <3>3. QED
      BY <2>5, <3>2
  <2>10. r.vif \in Byte /\ r.dif \in Byte
    BY <2>3, <2>5, AtHolds
  <2>11. ASSUME DataField(r) \notin {0, 8, 13, 15} PROVE r.data # <<>>
    <3>1. d[i + 1] % 16 \notin {0, 8, 13}
      BY <2>5, <2>11 DEF DataField
    <3>2. DataLength(d, t, i).length = mbus_dif_datalength_lookup(d[i + 1])
      BY <3>1 DEF DataLength
    <3>3. mbus_dif_datalength_lookup(d[i + 1]) >= 1
      BY <2>3, <3>1, LengthsOfData
    <3>4. Len(r.data) # 0
      BY <2>8, <2>3, <3>2, <3>3
    <3>5. QED
      BY <2>8, <3>4
  <2>12. r \in TypedRecords
    <3>1. r \in [dif : Byte, dife : Seq(Byte), vif : Byte, vife : Seq(Byte),
                 custom_vif : Seq(Byte), data : Seq(Byte)]
      BY <2>5, <2>7, <2>8, <2>9, <2>10
    <3>2. QED
      BY <2>11, <3>1 DEF TypedRecords
  <2>13. QED
    BY <2>2, <2>4, <2>12 DEF p
<1>3. QED
  BY <1>1, <1>2

\* The record that holds the rest of the data is typed.
LEMMA RestType ==
    ASSUME NEW d \in Seq(Byte), NEW i \in Nat, i < Len(d),
           d[i + 1] \in {DIF_MANUFACTURER_SPECIFIC, DIF_MORE_RECORDS_FOLLOW}
    PROVE  RestRecord(d, i) \in TypedRecords
<1> DEFINE r == RestRecord(d, i)
<1>1. r = [dif |-> d[i + 1], dife |-> <<>>, vif |-> 0, vife |-> <<>>, custom_vif |-> <<>>,
           data |-> SubSeq(d, i + 2, Len(d))]
  BY DEF RestRecord
<1>2. d[i + 1] \in Byte /\ 0 \in Byte /\ <<>> \in Seq(Byte) /\ SubSeq(d, i + 2, Len(d)) \in Seq(Byte)
  <2>1. i + 1 \in 1..Len(d) /\ i + 2 \in Nat
    OBVIOUS
  <2>2. SubSeq(d, i + 2, Len(d)) \in Seq(Byte)
    BY <2>1
  <2>3. d[i + 1] \in Byte /\ <<>> \in Seq(Byte)
    BY <2>1
  <2>4. 0 \in Byte
    BY DEF Byte
  <2>5. QED
    BY <2>2, <2>3, <2>4, Zenon
<1> HIDE DEF r
<1>3. r \in [dif : Byte, dife : Seq(Byte), vif : Byte, vife : Seq(Byte),
             custom_vif : Seq(Byte), data : Seq(Byte)]
  BY <1>1, <1>2
<1>4. DataField(r) = 15
  BY <1>1 DEF DataField, DIF_MANUFACTURER_SPECIFIC, DIF_MORE_RECORDS_FOLLOW
<1>5. QED
  BY <1>3, <1>4 DEF TypedRecords, r

\* The records from i on, when f has those from any place behind it.
RecordsFrom(d, turns, f, i) ==
    CASE i = Len(d) -> [code |-> 0, records |-> <<>>]
      [] i < Len(d) /\ d[i + 1] = DIF_IDLE_FILLER -> f[i + 1]
      [] i < Len(d) /\ d[i + 1] \in {DIF_MANUFACTURER_SPECIFIC, DIF_MORE_RECORDS_FOLLOW} ->
            [code |-> 0, records |-> <<RestRecord(d, i)>>]
      [] OTHER ->
            IF turns[i].code = -1 THEN Failed
            ELSE LET rest == f[IF turns[i].next < Len(d) THEN turns[i].next ELSE Len(d)]
                 IN  IF rest.code = -1 THEN Failed
                     ELSE [rest EXCEPT !.records = <<turns[i].record>> \o @]

TurnsTyped(d, turns) ==
    \A i \in 0..(Len(d) - 1) :
        \/ turns[i].code = -1
        \/ /\ turns[i].code = 0 /\ turns[i].next \in Nat /\ turns[i].next > i
           /\ turns[i].record \in TypedRecords

\* Every turn that does not fail moves on.
TurnsOn(d, turns) ==
    \A i \in 0..(Len(d) - 1) :
        turns[i].code = -1 \/ (turns[i].next \in Nat /\ turns[i].next > i)

\* One step of the recursion keeps the type.
LEMMA RecordsFromType ==
    ASSUME NEW d \in Seq(Byte), NEW turns, TurnsTyped(d, turns), NEW i \in 0..Len(d),
           NEW f, \A j \in (i + 1)..Len(d) : f[j] \in ParsedRecords
    PROVE  RecordsFrom(d, turns, f, i) \in ParsedRecords
<1> DEFINE n == Len(d)
           R == RecordsFrom(d, turns, f, i)
<1>1. n \in Nat /\ i \in Nat
  OBVIOUS
<1>2. R = CASE i = n -> [code |-> 0, records |-> <<>>]
            [] i < n /\ d[i + 1] = DIF_IDLE_FILLER -> f[i + 1]
            [] i < n /\ d[i + 1] \in {DIF_MANUFACTURER_SPECIFIC, DIF_MORE_RECORDS_FOLLOW} ->
                  [code |-> 0, records |-> <<RestRecord(d, i)>>]
            [] OTHER ->
                  IF turns[i].code = -1 THEN Failed
                  ELSE IF f[IF turns[i].next < n THEN turns[i].next ELSE n].code = -1 THEN Failed
                  ELSE [f[IF turns[i].next < n THEN turns[i].next ELSE n]
                          EXCEPT !.records = <<turns[i].record>> \o @]
  BY Zenon DEF RecordsFrom
<1> HIDE DEF n, R
<1>3. CASE i = n
  <2>1. R = [code |-> 0, records |-> <<>>]
    BY <1>1, <1>2, <1>3
  <2>2. QED
    BY <2>1 DEF ParsedRecords, R
<1>4. CASE i < n /\ d[i + 1] = DIF_IDLE_FILLER
  <2>1. R = f[i + 1]
    BY <1>1, <1>2, <1>4 DEF DIF_IDLE_FILLER, DIF_MANUFACTURER_SPECIFIC, DIF_MORE_RECORDS_FOLLOW
  <2>2. i + 1 \in (i + 1)..Len(d)
    BY <1>1, <1>4 DEF n
  <2>3. QED
    BY <2>1, <2>2, Zenon DEF R
<1>5. CASE i < n /\ d[i + 1] \in {DIF_MANUFACTURER_SPECIFIC, DIF_MORE_RECORDS_FOLLOW}
  <2>1. R = [code |-> 0, records |-> <<RestRecord(d, i)>>]
    BY <1>1, <1>2, <1>5 DEF DIF_IDLE_FILLER, DIF_MANUFACTURER_SPECIFIC, DIF_MORE_RECORDS_FOLLOW
  <2>2. RestRecord(d, i) \in TypedRecords
    BY <1>1, <1>5, RestType DEF n
  <2>3. QED
    BY <2>1, <2>2 DEF ParsedRecords, R
<1>6. CASE i < n /\ d[i + 1] \notin {DIF_IDLE_FILLER, DIF_MANUFACTURER_SPECIFIC, DIF_MORE_RECORDS_FOLLOW}
  <2> DEFINE k == IF turns[i].next < n THEN turns[i].next ELSE n
  <2>1. R = IF turns[i].code = -1 THEN Failed
            ELSE IF f[k].code = -1 THEN Failed
            ELSE [f[k] EXCEPT !.records = <<turns[i].record>> \o @]
    BY <1>1, <1>2, <1>6
  <2>2. i \in 0..(Len(d) - 1)
    BY <1>1, <1>6 DEF n
  <2>3. CASE turns[i].code = -1
    BY <2>1, <2>3 DEF ParsedRecords, R
  <2>4. CASE turns[i].code # -1
    <3>1. turns[i].next \in Nat /\ turns[i].next > i /\ turns[i].record \in TypedRecords
      BY <2>2, <2>4 DEF TurnsTyped
    <3>2. k \in (i + 1)..Len(d)
      BY <1>1, <1>6, <3>1 DEF n
    <3> HIDE DEF k
    <3>3. f[k] \in ParsedRecords
      BY <3>2
    <3>4. CASE f[k].code = -1
      BY <2>1, <3>4, <2>4 DEF ParsedRecords, R
    <3>5. CASE f[k].code # -1
      <4>1. f[k] \in [code : {0}, records : Seq(TypedRecords)]
        BY <3>3, <3>5 DEF ParsedRecords, Failed
      <4>2. R = [f[k] EXCEPT !.records = <<turns[i].record>> \o @]
        BY <2>1, <2>4, <3>5, Zenon
      <4>3. <<turns[i].record>> \o f[k].records \in Seq(TypedRecords)
        BY <3>1, <4>1
      <4>4. R \in [code : {0}, records : Seq(TypedRecords)]
        BY <4>1, <4>2, <4>3
      <4>5. QED
        BY <4>4 DEF ParsedRecords, R
    <3>6. QED
      BY <3>4, <3>5
  <2>5. QED
    BY <2>3, <2>4
<1>7. i < n \/ i = n
  BY <1>1 DEF n
<1>8. QED
  BY <1>3, <1>4, <1>5, <1>6, <1>7

\* The records from i on depend on those behind it only.
LEMMA RecordsFromSame ==
    ASSUME NEW d \in Seq(Byte), NEW turns, TurnsOn(d, turns), NEW i \in 0..Len(d),
           NEW f, NEW g, \A j \in (i + 1)..Len(d) : f[j] = g[j]
    PROVE  RecordsFrom(d, turns, f, i) = RecordsFrom(d, turns, g, i)
<1> DEFINE n == Len(d)
           k == IF turns[i].next < n THEN turns[i].next ELSE n
<1>1. n \in Nat /\ i \in Nat
  OBVIOUS
<1>2. CASE i < n /\ d[i + 1] = DIF_IDLE_FILLER
  <2>1. f[i + 1] = g[i + 1]
    BY <1>1, <1>2
  <2>2. ASSUME NEW h PROVE RecordsFrom(d, turns, h, i) = h[i + 1]
    BY <1>1, <1>2
    DEF RecordsFrom, DIF_IDLE_FILLER, DIF_MANUFACTURER_SPECIFIC, DIF_MORE_RECORDS_FOLLOW
  <2>3. QED
    BY <2>1, <2>2, Zenon
<1>3. CASE i < n /\ d[i + 1] \notin {DIF_IDLE_FILLER, DIF_MANUFACTURER_SPECIFIC, DIF_MORE_RECORDS_FOLLOW}
  <2>1. ASSUME NEW h PROVE RecordsFrom(d, turns, h, i) =
            IF turns[i].code = -1 THEN Failed
            ELSE IF h[k].code = -1 THEN Failed
            ELSE [h[k] EXCEPT !.records = <<turns[i].record>> \o @]
    <3> HIDE DEF k
    <3>1. RecordsFrom(d, turns, h, i) =
            CASE i = n -> [code |-> 0, records |-> <<>>]
              [] i < n /\ d[i + 1] = DIF_IDLE_FILLER -> h[i + 1]
              [] i < n /\ d[i + 1] \in {DIF_MANUFACTURER_SPECIFIC, DIF_MORE_RECORDS_FOLLOW} ->
                    [code |-> 0, records |-> <<RestRecord(d, i)>>]
              [] OTHER ->
                    IF turns[i].code = -1 THEN Failed
                    ELSE IF h[k].code = -1 THEN Failed
                    ELSE [h[k] EXCEPT !.records = <<turns[i].record>> \o @]
      BY Zenon DEF RecordsFrom, k
    <3>2. QED
      BY <1>1, <1>3, <3>1
  <2>2. CASE turns[i].code = -1
    BY <2>1, <2>2
  <2>3. CASE turns[i].code # -1
    <3>1. i \in 0..(Len(d) - 1)
      BY <1>1, <1>3
    <3>2. turns[i].next \in Nat /\ turns[i].next > i
      BY <2>3, <3>1 DEF TurnsOn
    <3>3. k \in (i + 1)..Len(d)
      BY <1>1, <1>3, <3>2
    <3> HIDE DEF k
    <3>4. f[k] = g[k]
      BY <3>3
    <3>5. QED
      BY <2>1, <3>4
  <2>4. QED
    BY <2>2, <2>3
<1>4. CASE ~(i < n) \/ (i < n /\ d[i + 1] \in {DIF_MANUFACTURER_SPECIFIC, DIF_MORE_RECORDS_FOLLOW})
  <2>1. i = n \/ (i < n /\ d[i + 1] \in {DIF_MANUFACTURER_SPECIFIC, DIF_MORE_RECORDS_FOLLOW})
    BY <1>1, <1>4
  <2>2. ASSUME NEW h PROVE RecordsFrom(d, turns, h, i) =
            IF i = n THEN [code |-> 0, records |-> <<>>]
            ELSE [code |-> 0, records |-> <<RestRecord(d, i)>>]
    BY <1>1, <2>1
    DEF RecordsFrom, DIF_IDLE_FILLER, DIF_MANUFACTURER_SPECIFIC, DIF_MORE_RECORDS_FOLLOW
  <2>3. QED
    BY <2>2, Zenon
<1>5. QED
  BY <1>2, <1>3, <1>4

(***************************************************************************)
(* A function whose value at i depends on those behind i only exists, and  *)
(* so does the one ParseRecords is defined with.                           *)
(***************************************************************************)
AreRecords(f, d, turns) ==
    f = [i \in 0..Len(d) |-> RecordsFrom(d, turns, f, i)]

\* There is a function of the records from each position on.
LEMMA RecordsExist ==
    ASSUME NEW d \in Seq(Byte), NEW turns, TurnsOn(d, turns)
    PROVE  \E f : AreRecords(f, d, turns)
<1> DEFINE n == Len(d)
           G(f) == [i \in 0..n |-> RecordsFrom(d, turns, f, i)]
           Agree(f, k) == \A i \in 0..n : i + k >= n => f[i] = G(f)[i]
           T == {k \in 0..n : \E f : f = [i \in 0..n |-> f[i]] /\ Agree(f, k)}
<1>1. n \in Nat /\ n = Len(d)
  OBVIOUS
<1>2. ASSUME NEW f, NEW i \in 0..n PROVE G(f)[i] = RecordsFrom(d, turns, f, i)
  OBVIOUS
<1> HIDE DEF G
<1>3. ASSUME NEW f, NEW g, NEW i \in 0..n, \A j \in (i + 1)..n : f[j] = g[j]
      PROVE  G(f)[i] = G(g)[i]
  <2>1. i \in 0..Len(d) /\ \A j \in (i + 1)..Len(d) : f[j] = g[j]
    BY <1>1, <1>3, Zenon
  <2>2. RecordsFrom(d, turns, f, i) = RecordsFrom(d, turns, g, i)
    BY <2>1, RecordsFromSame, Zenon
  <2>3. QED
    BY <1>2, <2>2, Zenon
<1> HIDE DEF n
<1>4. 0 \in T
  <2> DEFINE f == [i \in 0..n |-> G(<<>>)[i]]
  <2>1. f = [i \in 0..n |-> f[i]]
    OBVIOUS
  <2>2. ASSUME NEW i \in 0..n, i + 0 >= n PROVE f[i] = G(f)[i]
    <3>1. (i + 1)..n = {}
      BY <1>1, <2>2
    <3>2. G(<<>>)[i] = G(f)[i]
      <4> HIDE DEF f
      <4>1. QED
        BY <1>3, <3>1
    <3>3. QED
      BY <3>2
  <2>3. 0 \in 0..n
    BY <1>1
  <2> HIDE DEF f
  <2>4. QED
    BY <2>1, <2>2, <2>3
<1>5. ASSUME NEW k \in 1..n, k - 1 \in T PROVE k \in T
  <2>1. PICK g : g = [i \in 0..n |-> g[i]] /\ Agree(g, k - 1)
    BY <1>5
  <2> DEFINE m == n - k
             f == [i \in 0..n |-> IF i = m THEN G(g)[m] ELSE g[i]]
  <2>2. m \in 0..n /\ k \in 0..n /\ m \in Int
    BY <1>1
  <2>3. \A i \in 0..n : (i + k >= n => i >= m) /\ (i > m => i + (k - 1) >= n)
    BY <1>1
  <2>4. f = [i \in 0..n |-> f[i]] /\ f[m] = G(g)[m] /\ \A i \in 0..n : i # m => f[i] = g[i]
    BY <2>2
  <2> HIDE DEF f, m
  <2>5. ASSUME NEW i \in 0..n, i >= m PROVE G(f)[i] = G(g)[i]
    <3>1. \A j \in (i + 1)..n : j \in 0..n /\ j # m
      BY <1>1, <2>2, <2>5
    <3>2. \A j \in (i + 1)..n : f[j] = g[j]
      BY <2>4, <3>1
    <3>3. QED
      BY <1>3, <3>2
  <2>6. ASSUME NEW i \in 0..n, i + k >= n PROVE f[i] = G(f)[i]
    <3>1. i >= m
      BY <2>3, <2>6
    <3>2. G(f)[i] = G(g)[i]
      BY <2>5, <3>1
    <3>3. CASE i = m
      BY <2>4, <3>2, <3>3
    <3>4. CASE i # m
      <4>1. i + (k - 1) >= n
        BY <2>2, <2>3, <3>1, <3>4
      <4>2. g[i] = G(g)[i]
        BY <2>1, <4>1
      <4>3. QED
        BY <2>4, <3>2, <3>4, <4>2
    <3>5. QED
      BY <3>3, <3>4
  <2>7. QED
    BY <2>2, <2>4, <2>6
<1> HIDE DEF T
<1>6. n \in T
  BY <1>1, <1>4, <1>5, Upto, n \in 0..n
<1>7. PICK f : f = [i \in 0..n |-> f[i]] /\ Agree(f, n)
  BY <1>6 DEF T
<1>8. \A i \in 0..n : f[i] = RecordsFrom(d, turns, f, i)
  <2>1. \A i \in 0..n : i + n >= n
    BY <1>1
  <2>2. QED
    BY <1>2, <1>7, <2>1
<1>9. f = [i \in 0..n |-> RecordsFrom(d, turns, f, i)]
  BY <1>7, <1>8
<1>10. QED
  BY <1>9 DEF AreRecords, n

\* What is parsed is typed.
LEMMA ParsedType ==
    ASSUME NEW d \in Seq(Byte), NEW turns, TurnsTyped(d, turns), NEW start \in 0..Len(d)
    PROVE  ParseRecords(d, turns, start) \in ParsedRecords
<1> DEFINE n == Len(d)
           F(f) == [i \in 0..n |-> RecordsFrom(d, turns, f, i)]
           it == CHOOSE f : f = F(f)
<1>1. ParseRecords(d, turns, start) = it[start]
  BY Zenon DEF ParseRecords, RecordsFrom
<1>2. n \in Nat /\ n = Len(d)
  OBVIOUS
<1>3. \E f : f = F(f)
  <2>1. TurnsOn(d, turns)
    BY Zenon DEF TurnsTyped, TurnsOn
  <2>2. QED
    BY <2>1, RecordsExist, Zenon DEF AreRecords
<1> HIDE DEF F
<1>4. it = F(it)
  BY <1>3, Zenon
<1> HIDE DEF it
<1>5. \A i \in 0..n : it[i] = RecordsFrom(d, turns, it, i)
  BY <1>4 DEF F
<1> HIDE DEF n
<1> DEFINE T == {k \in 0..n : \A i \in 0..n : i + k >= n => it[i] \in ParsedRecords}
<1>6. ASSUME NEW i \in 0..n, \A j \in (i + 1)..n : it[j] \in ParsedRecords
      PROVE  it[i] \in ParsedRecords
  BY <1>2, <1>5, <1>6, RecordsFromType
<1>7. 0 \in T
  <2>1. ASSUME NEW i \in 0..n, i + 0 >= n PROVE it[i] \in ParsedRecords
    <3>1. (i + 1)..n = {}
      BY <1>2, <2>1
    <3>2. QED
      BY <1>6, <3>1
  <2>2. 0 \in 0..n
    BY <1>2
  <2>3. QED
    BY <2>1, <2>2
<1>8. ASSUME NEW k \in 1..n, k - 1 \in T PROVE k \in T
  <2>1. ASSUME NEW i \in 0..n, i + k >= n PROVE it[i] \in ParsedRecords
    <3>1. \A j \in (i + 1)..n : j \in 0..n /\ j + (k - 1) >= n
      BY <1>2, <2>1
    <3>2. \A j \in (i + 1)..n : it[j] \in ParsedRecords
      BY <1>8, <3>1
    <3>3. QED
      BY <1>6, <3>2
  <2>2. k \in 0..n
    BY <1>2
  <2>3. QED
    BY <2>1, <2>2
<1> HIDE DEF T
<1>9. n \in T
  BY <1>2, <1>7, <1>8, Upto, n \in 0..n
<1>10. \A i \in 0..n : it[i] \in ParsedRecords
  <2>1. \A i \in 0..n : i + n >= n
    BY <1>2
  <2>2. QED
    BY <1>9, <2>1 DEF T
<1>11. QED
  BY <1>1, <1>2, <1>10
-----------------------------------------------------------------------------
(***************************************************************************)
(* The number in a record, and the record of a register.                   *)
(***************************************************************************)
\* mbus_data_variable_parse fails or returns typed records.
LEMMA VariableType ==
    ASSUME NEW d \in Seq(Byte)
    PROVE  mbus_data_variable_parse(d, 0) \in ParsedRecords
<1>1. 0 \in Byte /\ 0 < 251
  BY DEF Byte
<1>2. TurnsTyped(d, Turns(d, 0))
  <2>1. ASSUME NEW i \in 0..(Len(d) - 1)
        PROVE  \/ Turns(d, 0)[i].code = -1
               \/ /\ Turns(d, 0)[i].code = 0
                  /\ Turns(d, 0)[i].next \in Nat /\ Turns(d, 0)[i].next > i
                  /\ Turns(d, 0)[i].record \in TypedRecords
    <3>1. i \in Nat /\ i < Len(d)
      OBVIOUS
    <3>2. Turns(d, 0)[i] = ParseRecord(d, 0, i)
      BY DEF Turns
    <3>3. QED
      BY <1>1, <3>1, <3>2, TurnType
  <2>2. QED
    BY <2>1, Zenon DEF TurnsTyped
<1>3. CASE Len(d) < HEADER_LENGTH
  BY <1>3 DEF mbus_data_variable_parse, ParsedRecords
<1>4. CASE ~(Len(d) < HEADER_LENGTH)
  <2>1. HEADER_LENGTH \in 0..Len(d)
    BY <1>4 DEF HEADER_LENGTH
  <2>2. ParseRecords(d, Turns(d, 0), HEADER_LENGTH) \in ParsedRecords
    BY <1>2, <2>1, ParsedType
  <2>3. QED
    BY <1>4, <2>2, Zenon DEF mbus_data_variable_parse
<1>5. QED
  BY <1>3, <1>4

\* Neither data without a number nor an opaque one is an integer.
LEMMA NumberFields ==
    ASSUME NEW r \in TypedRecords, mbus_variable_value_decode(r).kind = "integer",
           DataField(r) \notin BcdFields
    PROVE  /\ r.data \in Seq(Byte) /\ r.data # <<>>
           /\ mbus_data_record_decode(r) = Integer(mbus_data_int_decode(r.data))
           /\ mbus_variable_value_decode(r) = Integer(mbus_data_int_decode(r.data))
<1>1. mbus_variable_value_decode(r) = Decoded(r) /\ mbus_data_record_decode(r) = Decoded(r)
  BY DEF mbus_variable_value_decode, mbus_data_record_decode
<1>2. Decoded(r).kind = "integer"
  BY <1>1, Zenon
<1>3. Decoded(r) = Integer(mbus_data_int_decode(r.data)) /\ DataField(r) \notin {0, 8, 13, 15}
  <2>1. Decoded(r) =
          CASE DataField(r) = 0 -> Characters(<<>>)
            [] DataField(r) = 2 /\ r.vif % 128 = 108 -> Date(mbus_data_tm_decode(r.data))
            [] DataField(r) \in {4, 6} /\ IsTimePoint(r) -> Date(mbus_data_tm_decode(r.data))
            [] DataField(r) \in {5, 15} -> Opaque(r.data)
            [] DataField(r) = 8 -> UnknownDif
            [] DataField(r) = 13 -> Characters(Reverse(r.data))
            [] OTHER -> Integer(mbus_data_int_decode(r.data))
    BY DEF Decoded
  <2>2. /\ \A x : Characters(x).kind # "integer" /\ Date(x).kind # "integer" /\ Opaque(x).kind # "integer"
        /\ UnknownDif.kind # "integer"
    BY DEF Characters, Date, Opaque, UnknownDif
  <2>3. ASSUME DataField(r) \in {0, 5, 8, 13, 15} PROVE FALSE
    BY <1>2, <2>1, <2>2, <2>3
  <2>4. ASSUME \/ DataField(r) = 2 /\ r.vif % 128 = 108
               \/ DataField(r) \in {4, 6} /\ IsTimePoint(r)
        PROVE  FALSE
    BY <1>2, <2>1, <2>2, <2>4
  <2>5. QED
    BY <2>1, <2>3, <2>4
<1>4. r.data \in Seq(Byte) /\ r.data # <<>>
  BY <1>3 DEF TypedRecords
<1>5. QED
  BY <1>1, <1>3, <1>4

\* Every BCD record has data.
LEMMA BcdFieldsData ==
    ASSUME NEW r \in TypedRecords, DataField(r) \in BcdFields
    PROVE  /\ r.data \in Seq(Byte) /\ r.data # <<>>
           /\ mbus_data_record_decode(r) = Digits(Nibbles(r.data))
           /\ mbus_variable_value_decode(r) = Integer(mbus_data_bcd_decode(r.data))
<1>1. DataField(r) \notin {0, 8, 13, 15}
  BY DEF BcdFields
<1>2. QED
  BY <1>1 DEF TypedRecords, mbus_data_record_decode, mbus_variable_value_decode

\* The value of the other reader is the decoded one.
LEMMA ValueOfRecord ==
    ASSUME NEW r
    PROVE  mbus_parse_variable_record(r).value = mbus_variable_value_decode(r)
  BY DEF mbus_parse_variable_record

(***************************************************************************)
(* The number of a record of any width is to both readers what its bytes   *)
(* stand for, the one that goes over mbus_data_record_decode and strtod    *)
(* and the one of mbus_variable_value_decode; a negative BCD number is a   *)
(* zero to the former.                                                     *)
(***************************************************************************)
THEOREM RecordExact ==
    ASSUME NEW r \in TypedRecords, mbus_variable_value_decode(r).kind = "integer"
    PROVE  IF DataField(r) \in BcdFields /\ ~IsDecimal(r)
           THEN Nibbles(r.data)[1] = 15 => strtod(mbus_data_record_decode(r)) = Number(0, FALSE)
           ELSE /\ strtod(mbus_data_record_decode(r)) = Number(Meant(r), TRUE)
                /\ mbus_parse_variable_record(r).value = Integer(Meant(r))
<1>1. ASSUME NEW ds PROVE strtod(Digits(ds)) = StrtodDigits(ds)
  BY DEF strtod, Digits
<1>2. ASSUME NEW n PROVE strtod(Integer(n)) = Number(n, TRUE)
  BY DEF strtod, Integer
<1>3. CASE DataField(r) \notin BcdFields
  <2>1. /\ r.data \in Seq(Byte) /\ r.data # <<>>
        /\ mbus_data_record_decode(r) = Integer(mbus_data_int_decode(r.data))
        /\ mbus_variable_value_decode(r) = Integer(mbus_data_int_decode(r.data))
    BY <1>3, NumberFields
  <2>2. mbus_data_int_decode(r.data) = Meant(r)
    BY <1>3, <2>1, TwosComplementDecoded DEF Meant
  <2>3. QED
    BY <1>2, <1>3, <2>1, <2>2, ValueOfRecord, Zenon
<1>4. CASE DataField(r) \in BcdFields
  <2>1. /\ r.data \in Seq(Byte) /\ r.data # <<>>
        /\ mbus_data_record_decode(r) = Digits(Nibbles(r.data))
        /\ mbus_variable_value_decode(r) = Integer(mbus_data_bcd_decode(r.data))
    BY <1>4, BcdFieldsData
  <2>2. CASE IsDecimal(r)
    <3>1. Meant(r) = Decimal(Nibbles(r.data))
      BY <1>4 DEF Meant
    <3>2. /\ mbus_data_bcd_decode(r.data) = Meant(r)
          /\ StrtodDigits(Nibbles(r.data)) = Number(Meant(r), TRUE)
      BY <2>1, <2>2, <3>1, BcdDecoded DEF IsDecimal
    <3>3. QED
      BY <1>1, <2>1, <2>2, <3>2, ValueOfRecord, Zenon
  <2>3. CASE ~IsDecimal(r)
    <3>1. Nibbles(r.data) \in Seq(Nat) /\ Nibbles(r.data) # <<>>
      <4>1. Nibbles(r.data) \in Seq(Nat) /\ Len(Nibbles(r.data)) = 2 * Len(r.data)
        BY <2>1, NibblesType
      <4>2. Len(r.data) \in Nat /\ Len(r.data) # 0
        BY <2>1
      <4>3. QED
        BY <4>1, <4>2
    <3>2. Nibbles(r.data)[1] = 15 => StrtodDigits(Nibbles(r.data)) = Number(0, FALSE)
      BY <3>1, StrtodNegative
    <3>3. QED
      BY <1>1, <1>4, <2>1, <2>3, <3>2, Zenon
  <2>4. QED
    BY <2>2, <2>3
<1>5. QED
  BY <1>3, <1>4

\* A register has the record of its number.
LEMMA RegisterSet ==
    ASSUME NEW records \in Seq(TypedRecords), NEW k \in DOMAIN Registers, Named(k, records)
    PROVE  /\ records[Registers[k] + 1] \in TypedRecords
           /\ process_mbus_data_variable(Registers, records)[k]
                = mbus_data_record_decode(records[Registers[k] + 1])
<1>1. Registers[k] \in Nat /\ Registers[k] < Len(records)
  BY RegistersAssumption DEF Named
<1>2. Registers[k] + 1 \in DOMAIN records /\ (Registers[k] + 1) - 1 = Registers[k]
  BY <1>1
<1>3. k \in SetRegister(Registers, Registers[k])
  BY DEF SetRegister, Named
<1>4. \E n \in DOMAIN records : k \in SetRegister(Registers, n - 1)
  BY <1>2, <1>3
<1>5. QED
  BY <1>2, <1>4 DEF process_mbus_data_variable
-----------------------------------------------------------------------------
(***************************************************************************)
(* Types of the frames that mbus_parse leaves.                             *)
(***************************************************************************)
\* A new frame is a frame.
LEMMA NewType ==
    ASSUME NEW type \in {"ANY", "SHORT"}
    PROVE  mbus_frame_new(type) \in Frames
<1>1. /\ 0 \in Byte /\ SHORT_START \in Byte /\ STOP \in Byte /\ <<>> \in Seq(Byte)
  <2>1. <<>> \in Seq(Byte)
    OBVIOUS
  <2>2. QED
    BY <2>1 DEF Byte, SHORT_START, STOP
<1>2. mbus_frame_new(type) =
        [type |-> type, start1 |-> IF type = "SHORT" THEN SHORT_START ELSE 0, start2 |-> 0,
         length1 |-> 0, length2 |-> 0, control |-> 0, address |-> 0, control_information |-> 0,
         data |-> <<>>, checksum |-> 0, stop |-> IF type = "SHORT" THEN STOP ELSE 0]
  BY DEF mbus_frame_new
<1>3. QED
  BY <1>1, <1>2 DEF Frames

\* mbus_parse assigns bytes to the fields of a frame.
LEMMA ParseShortType ==
    ASSUME NEW f \in Frames, NEW b \in Seq(Byte), b # <<>>
    PROVE  /\ ParseShort(f, b).code \in Int /\ ParseShort(f, b).frame \in Frames
<1> DEFINE g == [f EXCEPT !.type = "SHORT", !.start1 = b[1], !.control = b[2],
                          !.address = b[3], !.checksum = b[4], !.stop = b[5]]
<1>1. Len(b) \in Nat /\ \A i \in 1..Len(b) : b[i] \in Byte
  OBVIOUS
<1>2. ParseShort(f, b) = CASE Len(b) < 5 -> Parsed(5 - Len(b), f)
                           [] Len(b) > 5 -> Parsed(-2, f)
                           [] OTHER -> Verified(g)
  BY DEF ParseShort
<1>3. ASSUME Len(b) = 5 PROVE g \in Frames
  <2>1. b[1] \in Byte /\ b[2] \in Byte /\ b[3] \in Byte /\ b[4] \in Byte /\ b[5] \in Byte
    BY <1>1, <1>3
  <2>2. QED
    BY <2>1 DEF Frames
<1> HIDE DEF g
<1>4. CASE Len(b) < 5
  <2>1. ParseShort(f, b) = Parsed(5 - Len(b), f)
    BY <1>1, <1>2, <1>4
  <2>2. QED
    BY <1>1, <2>1 DEF Parsed
<1>5. CASE Len(b) > 5
  <2>1. ParseShort(f, b) = Parsed(-2, f)
    BY <1>1, <1>2, <1>5
  <2>2. QED
    BY <2>1 DEF Parsed
<1>6. CASE Len(b) = 5
  <2>1. ParseShort(f, b) = Verified(g)
    BY <1>2, <1>6
  <2>2. QED
    BY <1>3, <1>6, <2>1 DEF Verified, Parsed
<1>7. Len(b) < 5 \/ Len(b) > 5 \/ Len(b) = 5
  BY <1>1, SMTT(30)
<1>8. QED
  BY <1>4, <1>5, <1>6, <1>7, Zenon

\* The same of control and long frames.
LEMMA ParseLongType ==
    ASSUME NEW f \in Frames, NEW b \in Seq(Byte), b # <<>>
    PROVE  /\ ParseLong(f, b).code \in Int /\ ParseLong(f, b).frame \in Frames
<1> DEFINE h == [f EXCEPT !.start1 = b[1], !.length1 = b[2], !.length2 = b[3]]
           n == b[2]
           w == 6 + n
           k == [type |-> IF n = 3 THEN "CONTROL" ELSE "LONG",
                 start1 |-> b[1], length1 |-> n, length2 |-> b[3], start2 |-> b[4],
                 control |-> b[5], address |-> b[6], control_information |-> b[7],
                 data |-> SubSeq(b, 8, w - 2),
                 checksum |-> b[w - 1], stop |-> b[w]]
<1>1. Len(b) \in Nat /\ \A i \in 1..Len(b) : b[i] \in Byte
  OBVIOUS
<1>2. ParseLong(f, b) =
        IF Len(b) < 3 THEN Parsed(3 - Len(b), f)
        ELSE IF n < 3 \/ n # b[3] \/ Len(b) > w THEN Parsed(-2, h)
        ELSE IF Len(b) < w THEN Parsed(w - Len(b), h)
        ELSE Verified(k)
  BY DEF ParseLong
<1>3. /\ k.type = IF n = 3 THEN "CONTROL" ELSE "LONG"
      /\ k.data = SubSeq(b, 8, w - 2)
      /\ k = [type |-> k.type, start1 |-> b[1], length1 |-> n, length2 |-> b[3], start2 |-> b[4],
              control |-> b[5], address |-> b[6], control_information |-> b[7],
              data |-> k.data, checksum |-> b[w - 1], stop |-> b[w]]
  OBVIOUS
<1>4. ASSUME Len(b) >= 3 PROVE h \in Frames /\ n \in Byte /\ n \in 0..255
  <2>1. b[1] \in Byte /\ b[2] \in Byte /\ b[3] \in Byte
    BY <1>1, <1>4
  <2>2. h \in Frames
    BY <2>1 DEF Frames
  <2>3. QED
    BY <2>1, <2>2 DEF Byte
<1>n. n = b[2]
  OBVIOUS
<1> HIDE DEF h, k, n
<1>5. CASE Len(b) < 3
  <2>1. ParseLong(f, b) = Parsed(3 - Len(b), f)
    BY <1>2, <1>5, Zenon
  <2>2. 3 - Len(b) \in Int
    BY <1>1
  <2>3. QED
    BY <2>1, <2>2 DEF Parsed
<1>6. CASE ~(Len(b) < 3)
  <2>1. h \in Frames /\ n \in Byte /\ n \in 0..255
    BY <1>1, <1>4, <1>6
  <2>2. CASE n < 3 \/ n # b[3] \/ Len(b) > w
    <3>1. ParseLong(f, b) = Parsed(-2, h)
      BY <1>2, <1>6, <2>2, Zenon
    <3>2. QED
      BY <2>1, <3>1 DEF Parsed
  <2>3. CASE ~(n < 3 \/ n # b[3] \/ Len(b) > w) /\ Len(b) < w
    <3>1. ParseLong(f, b) = Parsed(w - Len(b), h)
      BY <1>2, <1>6, <2>3, Zenon
    <3>2. w - Len(b) \in Int
      BY <1>1, <2>1
    <3> HIDE DEF w
    <3>3. QED
      BY <2>1, <3>1, <3>2 DEF Parsed
  <2>4. CASE ~(n < 3 \/ n # b[3] \/ Len(b) > w) /\ ~(Len(b) < w)
    <3>1. ParseLong(f, b) = Verified(k)
      BY <1>2, <1>6, <2>4, Zenon
    <3>2. Len(b) = w /\ n >= 3
      BY <1>1, <2>1, <2>4
    <3>3. /\ 1 \in 1..w /\ 3 \in 1..w /\ 4 \in 1..w /\ 5 \in 1..w
          /\ 6 \in 1..w /\ 7 \in 1..w /\ w - 1 \in 1..w /\ w \in 1..w
      BY <2>1, <3>2
    <3>4. SubSeq(b, 8, w - 2) \in Seq(Byte)
      BY <2>1, <3>2
    <3>5. /\ b[1] \in Byte /\ b[3] \in Byte /\ b[4] \in Byte
          /\ b[5] \in Byte /\ b[6] \in Byte /\ b[7] \in Byte
          /\ b[w - 1] \in Byte /\ b[w] \in Byte
      BY <1>1, <3>2, <3>3, Zenon
    <3>6. k.type \in {"ANY", "ACK", "SHORT", "CONTROL", "LONG"}
      BY <1>3
    <3>7. k \in Frames
      <4> HIDE DEF w
      <4>1. QED
        BY <1>3, <2>1, <3>4, <3>5, <3>6 DEF Frames, k
    <3>8. QED
      BY <3>1, <3>7 DEF Verified, Parsed
  <2>5. QED
    BY <2>2, <2>3, <2>4
<1>7. QED
  BY <1>5, <1>6

\* The same of any bytes.
LEMMA ParseType ==
    ASSUME NEW f \in Frames, NEW b \in Seq(Byte)
    PROVE  /\ mbus_parse(f, b).code \in Int /\ mbus_parse(f, b).frame \in Frames
<1>1. CASE b = <<>>
  BY <1>1 DEF mbus_parse, Parsed
<1>2. CASE b # <<>> /\ b[1] = ACK_START
  <2>1. mbus_parse(f, b) = Parsed(0, [f EXCEPT !.type = "ACK", !.start1 = ACK_START])
    BY <1>2 DEF mbus_parse, ACK_START, SHORT_START, LONG_START
  <2>2. ACK_START \in Byte
    BY DEF ACK_START, Byte
  <2>3. [f EXCEPT !.type = "ACK", !.start1 = ACK_START] \in Frames
    BY <2>2 DEF Frames
  <2>4. QED
    BY <2>1, <2>3 DEF Parsed
<1>3. CASE b # <<>> /\ b[1] = SHORT_START
  <2>1. mbus_parse(f, b) = ParseShort(f, b)
    BY <1>3 DEF mbus_parse, ACK_START, SHORT_START, LONG_START
  <2>2. QED
    BY <1>3, <2>1, ParseShortType
<1>4. CASE b # <<>> /\ b[1] = LONG_START
  <2>1. mbus_parse(f, b) = ParseLong(f, b)
    BY <1>4 DEF mbus_parse, ACK_START, SHORT_START, LONG_START
  <2>2. QED
    BY <1>4, <2>1, ParseLongType
<1>5. CASE b # <<>> /\ b[1] \notin {ACK_START, SHORT_START, LONG_START}
  <2>1. mbus_parse(f, b) = Parsed(-4, f)
    BY <1>5 DEF mbus_parse
  <2>2. QED
    BY <2>1 DEF Parsed
<1>6. QED
  BY <1>1, <1>2, <1>3, <1>4, <1>5

\* The sum of bytes is a number.
LEMMA SumOfType ==
    ASSUME NEW b \in Seq(Byte)
    PROVE  SumOf(b) \in Nat
<1> DEFINE n == Len(b)
           F(g) == [k \in 0..n |-> IF k = 0 THEN 0 ELSE g[k - 1] + b[k]]
           it == CHOOSE g : g = F(g)
<1>1. SumOf(b) = it[n]
  BY DEF SumOf
<1>2. n \in Nat /\ b \in [1..n -> Nat]
  <2>1. n \in Nat /\ b \in [1..n -> Byte] /\ \A i \in 1..n : b[i] \in Byte
    OBVIOUS
  <2>2. \A i \in 1..n : b[i] \in Nat
    BY <2>1, ByteIsNat, Zenon
  <2>3. QED
    BY <2>1, <2>2
<1>3. PICK r : IsValue(r, n, 0, 1, b)
  BY <1>2, ValueExists, 0 \in Nat, 1 \in Nat, Zenon
<1> HIDE DEF n
<1>4. \A i \in 1..n : i \in 0..n /\ i - 1 \in 0..n /\ i # 0
  BY <1>2
<1>5. r = F(r)
  <2>1. r \in [0..n -> Nat] /\ r[0] = 0
    BY <1>3 DEF IsValue
  <2>2. ASSUME NEW k \in 0..n, k # 0 PROVE r[k] = r[k - 1] + b[k]
    <3>1. k \in 1..n
      BY <1>2, <2>2
    <3>2. r[k] = b[k] + 1 * r[k - 1]
      BY <1>3, <3>1 DEF IsValue
    <3>3. b[k] \in Nat /\ r[k - 1] \in Nat
      BY <1>2, <1>4, <2>1, <3>1
    <3>4. QED
      BY <3>2, <3>3
  <2>3. \A k \in 0..n : r[k] = IF k = 0 THEN 0 ELSE r[k - 1] + b[k]
    BY <2>1, <2>2
  <2>4. QED
    BY <2>1, <2>3
<1> HIDE DEF F
<1>6. it = F(it)
  BY <1>5, Zenon
<1> HIDE DEF it
<1>7. it[0] = r[0]
  BY <1>2, <1>5, <1>6 DEF F
<1>8. ASSUME NEW i \in 1..n, it[i - 1] = r[i - 1] PROVE it[i] = r[i]
  <2>1. it[i] = it[i - 1] + b[i] /\ r[i] = r[i - 1] + b[i]
    BY <1>4, <1>5, <1>6 DEF F
  <2>2. QED
    BY <1>8, <2>1, Zenon
<1>9. it[n] = r[n]
  BY <1>2, <1>7, <1>8, SameSteps
<1>10. r[n] \in Nat
  BY <1>2, <1>3, n \in 0..n DEF IsValue
<1>11. QED
  BY <1>1, <1>9, <1>10
-----------------------------------------------------------------------------
(***************************************************************************)
(* Types of what is on the line.                                           *)
(***************************************************************************)
\* Min of two numbers is the smaller one of them.
LEMMA LeastOfTwo ==
    ASSUME NEW a \in Int, NEW b \in Int
    PROVE  Min({a, b}) \in {a, b} /\ Min({a, b}) <= a /\ Min({a, b}) <= b
<1>1. \E x \in {a, b} : \A y \in {a, b} : x <= y
  OBVIOUS
<1>2. Min({a, b}) \in {a, b} /\ \A y \in {a, b} : Min({a, b}) <= y
  BY <1>1, Zenon DEF Min
<1>3. QED
  BY <1>2

(***************************************************************************)
(* What is on the line: bytes, and the silences of the wire.               *)
(***************************************************************************)
Telegrams == {t \in [ci : Byte, data : Seq(Byte)] : Len(t.data) <= MaxData}
MeterStates == {m \in [telegrams : Seq(Telegrams), at : Nat, fcb : Int] : m.at <= Len(m.telegrams)}
Signals == Byte \cup {GAP}

\* Bytes can be on the line.
LEMMA BytesAreSignals == ASSUME NEW b \in Seq(Byte) PROVE b \in Seq(Signals)
  BY DEF Signals

\* The type and length of one sequence behind another one.
LEMMA Joined ==
    ASSUME NEW S, NEW s \in Seq(S), NEW t \in Seq(S)
    PROVE  s \o t \in Seq(S) /\ Len(s \o t) = Len(s) + Len(t) /\ Len(t) \in Nat
  OBVIOUS

\* A telegram becomes bytes: its length fits in one.
LEMMA TelegramType ==
    ASSUME NEW t \in Telegrams
    PROVE  TelegramBytes(t) \in Seq(Byte)
<1> DEFINE h == <<RSP_UD, Address, t.ci>>
           c == h \o t.data
           l == Len(c)
           start == <<LONG_START, l, l, LONG_START>>
           end == <<SumOf(c) % 256, STOP>>
<1>1. t.ci \in Byte /\ t.data \in Seq(Byte) /\ Len(t.data) <= 252
  BY DEF Telegrams, MaxData
<1>2. RSP_UD \in Byte /\ Address \in Byte /\ LONG_START \in Byte /\ STOP \in Byte
  BY DEF RSP_UD, Address, LONG_START, STOP, Byte
<1>3. h \in Seq(Byte) /\ Len(h) = 3
  BY <1>1, <1>2
<1> HIDE DEF h
<1>4. c \in Seq(Byte) /\ l \in 0..255
  <2> DEFINE x == t.data
  <2>1. x \in Seq(Byte) /\ Len(x) <= 252 /\ x = t.data
    BY <1>1
  <2> HIDE DEF x
  <2>2. h \o x \in Seq(Byte) /\ Len(h \o x) = 3 + Len(x) /\ Len(x) \in Nat
    <3>1. h \in Seq(Byte) /\ x \in Seq(Byte)
      BY <1>3, <2>1
    <3>2. h \o x \in Seq(Byte) /\ Len(h \o x) = Len(h) + Len(x) /\ Len(x) \in Nat
      BY <3>1, Joined
    <3>3. QED
      BY <1>3, <3>2
  <2>3. Len(h \o x) \in 0..255
    <3> DEFINE m == Len(x)
               q == Len(h \o x)
    <3>1. m \in Nat /\ m <= 252 /\ q = 3 + m
      BY <2>1, <2>2
    <3> HIDE DEF m, q
    <3>2. q \in 0..255
      BY <3>1
    <3>3. QED
      BY <3>2 DEF q
  <2>4. QED
    BY <2>1, <2>2, <2>3
<1>5. l \in Byte
  BY <1>4, Zenon DEF Byte
<1> HIDE DEF l
<1>6. start \in Seq(Byte)
  BY <1>2, <1>5
<1>7. SumOf(c) % 256 \in Byte
  <2>1. SumOf(c) \in Nat
    BY <1>4, SumOfType
  <2>2. \A n \in Nat : n % 256 \in Byte
    BY DEF Byte
  <2>3. QED
    BY <2>1, <2>2
<1> HIDE DEF c
<1>8. end \in Seq(Byte)
  BY <1>2, <1>7
<1> HIDE DEF start, end
<1>9. (start \o c) \o end \in Seq(Byte)
  BY <1>4, <1>6, <1>8, Joined
<1>10. TelegramBytes(t) = (start \o c) \o end
  BY Zenon DEF TelegramBytes, start, end, c, h, l
<1>11. QED
  BY <1>9, <1>10

\* So does the answer of a meter.
LEMMA AnswerType ==
    ASSUME NEW m \in MeterStates
    PROVE  Answer(m) \in Seq(Byte)
<1>1. m.telegrams \in Seq(Telegrams) /\ m.at \in Nat /\ m.at <= Len(m.telegrams)
  BY DEF MeterStates
<1>2. CASE m.at = 0
  BY <1>2 DEF Answer
<1>3. CASE m.at # 0
  <2>1. m.at \in 1..Len(m.telegrams)
    BY <1>1, <1>3
  <2>2. m.telegrams[m.at] \in Telegrams
    BY <1>1, <2>1
  <2>3. QED
    BY <1>3, <2>2, TelegramType DEF Answer
<1>4. QED
  BY <1>2, <1>3

\* A meter that is asked is a meter.
LEMMA AskedType ==
    ASSUME NEW m \in MeterStates, fcb \in {0, FCB}
    PROVE  Asked(m) \in MeterStates
<1> DEFINE at == IF fcb = m.fcb \/ m.at = Len(m.telegrams) THEN m.at ELSE m.at + 1
<1>1. m \in [telegrams : Seq(Telegrams), at : Nat, fcb : Int] /\ m.at <= Len(m.telegrams)
  BY DEF MeterStates
<1>2. m.telegrams \in Seq(Telegrams) /\ m.at \in Nat /\ Len(m.telegrams) \in Nat
  BY <1>1
<1>3. at \in Nat /\ at <= Len(m.telegrams)
  BY <1>1, <1>2
<1>4. fcb \in Int
  BY DEF FCB
<1>5. Asked(m) = [m EXCEPT !.fcb = fcb, !.at = at]
  BY DEF Asked
<1> HIDE DEF at
<1>6. Asked(m) \in [telegrams : Seq(Telegrams), at : Nat, fcb : Int]
      /\ Asked(m).at = at /\ Asked(m).telegrams = m.telegrams
  BY <1>1, <1>3, <1>4, <1>5
<1>7. QED
  BY <1>3, <1>6 DEF MeterStates

\* A fault hits a byte that is there.
LEMMA HitWithin ==
    ASSUME NEW b \in Seq(Byte), NEW i \in Hit(b)
    PROVE  i \in 1..Len(b)
<1>1. Len(b) \in Int /\ DOMAIN b = 1..Len(b)
  OBVIOUS
<1>2. Min({7, Len(b)}) <= Len(b) /\ Min({7, Len(b)}) \in {7, Len(b)}
  BY <1>1, LeastOfTwo, 7 \in Int
<1>3. Min({7, Len(b)}) \in Int
  BY <1>1, <1>2
<1>4. QED
  BY <1>1, <1>2, <1>3 DEF Hit

\* A damaged answer is bytes still.
LEMMA DamagedType ==
    ASSUME NEW b \in Seq(Byte), NEW c \in Damaged(b)
    PROVE  c \in Seq(Byte)
<1>1. ASSUME NEW i \in Hit(b), NEW v \in Noise PROVE ReplaceAt(b, i, v) \in Seq(Byte)
  <2>1. i \in 1..Len(b) /\ v \in Byte
    BY HitWithin, LinkAssumption
  <2>2. QED
    BY <2>1 DEF ReplaceAt
<1>2. ASSUME NEW i \in Hit(b)
      PROVE  /\ SubSeq(b, 1, i - 1) \in Seq(Byte)
             /\ SubSeq(b, i + 1, Len(b)) \in Seq(Byte)
             /\ SubSeq(b, i, Len(b)) \in Seq(Byte)
  <2>1. i \in 1..Len(b)
    BY HitWithin
  <2>2. QED
    BY <2>1
<1>3. ASSUME NEW i \in Hit(b)
      PROVE  RemoveAt(b, i) \in Seq(Byte)
  BY <1>2, Joined DEF RemoveAt
<1>4. ASSUME NEW i \in Hit(b), NEW v \in Noise
      PROVE  InsertAt(b, i, v) \in Seq(Byte)
  <2>1. <<v>> \in Seq(Byte)
    BY LinkAssumption
  <2>2. SubSeq(b, 1, i - 1) \o <<v>> \in Seq(Byte)
    BY <1>2, <2>1, Joined
  <2>3. QED
    BY <1>2, <2>2, Joined DEF InsertAt
<1>5. \/ c \in {ReplaceAt(b, i, v) : i \in Hit(b), v \in Noise}
      \/ c \in {RemoveAt(b, i) : i \in Hit(b)}
      \/ c \in {InsertAt(b, i, v) : i \in Hit(b), v \in Noise}
  BY DEF Damaged
<1>6. CASE c \in {ReplaceAt(b, i, v) : i \in Hit(b), v \in Noise}
  BY <1>1, <1>6
<1>7. CASE c \in {RemoveAt(b, i) : i \in Hit(b)}
  BY <1>3, <1>7
<1>8. CASE c \in {InsertAt(b, i, v) : i \in Hit(b), v \in Noise}
  BY <1>4, <1>8
<1>9. QED
  BY <1>5, <1>6, <1>7, <1>8

\* A delayed answer is bytes and silences.
LEMMA DelayedType ==
    ASSUME NEW b \in Seq(Byte), NEW c \in Delayed(b)
    PROVE  c \in Seq(Signals)
<1>1. PICK i \in Hit(b), n \in 1..MaxSilence : c = Late(b, i, n)
  BY DEF Delayed
<1>2. i \in 1..Len(b) /\ n \in Nat
  BY HitWithin, LinkAssumption
<1>3. SubSeq(b, 1, i - 1) \in Seq(Byte) /\ SubSeq(b, i, Len(b)) \in Seq(Byte)
  BY <1>2
<1>4. Gaps(n) \in Seq(Signals)
  BY <1>2 DEF Gaps, Signals
<1>5. SubSeq(b, 1, i - 1) \in Seq(Signals) /\ SubSeq(b, i, Len(b)) \in Seq(Signals)
  BY <1>3, BytesAreSignals
<1>6. SubSeq(b, 1, i - 1) \o Gaps(n) \in Seq(Signals)
  BY <1>4, <1>5, Joined
<1>7. QED
  BY <1>1, <1>5, <1>6, Joined DEF Late

\* The echo of a request is bytes.
LEMMA EchoType ==
    ASSUME fcb \in {0, FCB}
    PROVE  Echo \in Seq(Byte)
<1> DEFINE g == RequestFrame
<1>1. mbus_frame_new("SHORT") \in Frames
  BY NewType
<1>2. g = [mbus_frame_new("SHORT") EXCEPT !.control = REQ_UD2 + fcb, !.address = Address]
  BY DEF RequestFrame
<1>3. REQ_UD2 + fcb \in Byte /\ Address \in Byte
  BY DEF REQ_UD2, FCB, Address, Byte
<1>4. mbus_frame_new("SHORT").type = "SHORT"
  BY DEF mbus_frame_new
<1> HIDE DEF g
<1>5. g \in Frames /\ g.type = "SHORT" /\ g.control \in Byte /\ g.address \in Byte
  BY <1>1, <1>2, <1>3, <1>4 DEF Frames
<1>6. calc_checksum(g) \in Byte
  <2>1. calc_checksum(g) = (g.control + g.address) % 256
    BY <1>5 DEF calc_checksum
  <2>2. g.control \in Nat /\ g.address \in Nat
    BY <1>5, ByteIsNat, Zenon
  <2>3. \A x, y \in Nat : (x + y) % 256 \in 0..255
    OBVIOUS
  <2>4. (g.control + g.address) % 256 \in 0..255
    BY <2>2, <2>3
  <2>5. QED
    BY <2>1, <2>4, Zenon DEF Byte
<1>7. mbus_frame_pack(g) = <<g.start1, g.control, g.address, calc_checksum(g), g.stop>>
  BY <1>5 DEF mbus_frame_pack
<1>8. g.start1 \in Byte /\ g.control \in Byte /\ g.address \in Byte /\ g.stop \in Byte
  BY <1>5, FrameFields
<1>9. mbus_frame_pack(g) \in Seq(Byte)
  BY <1>6, <1>7, <1>8
<1>10. Echo = IF handle.echo THEN mbus_frame_pack(g) ELSE <<>>
  BY DEF Echo, g
<1>11. <<>> \in Seq(Byte)
  OBVIOUS
<1>12. QED
  BY <1>9, <1>10, <1>11

\* What is read at once is bytes: a silence ends it.
LEMMA ArrivedType ==
    ASSUME wire \in Seq(Signals), remaining \in Nat
    PROVE  /\ Arrived \in Seq(Byte) /\ Len(Arrived) \in 0..Len(wire)
<1> DEFINE gaps == {i \in DOMAIN wire : wire[i] = GAP}
           available == IF gaps = {} THEN Len(wire) ELSE Min(gaps) - 1
           k == Min({remaining, available})
<1>1. Len(wire) \in Nat /\ DOMAIN wire = 1..Len(wire) /\ \A i \in 1..Len(wire) : wire[i] \in Signals
  OBVIOUS
<1>2. Arrived = SubSeq(wire, 1, k)
  BY Zenon DEF Arrived
<1>3. available \in 0..Len(wire) /\ \A i \in 1..available : wire[i] # GAP
  <2>1. CASE gaps = {}
    BY <1>1, <2>1
  <2>2. CASE gaps # {}
    <3>1. gaps \in SUBSET Nat
      BY <1>1
    <3>2. \E m \in gaps : \A i \in gaps : m <= i
      BY <2>2, <3>1, LeastOf, Zenon
    <3>3. Min(gaps) \in gaps /\ \A i \in gaps : Min(gaps) <= i
      BY <3>2, Zenon DEF Min
    <3>4. available = Min(gaps) - 1
      BY <2>2
    <3>5. Min(gaps) \in 1..Len(wire)
      BY <1>1, <3>3
    <3>6. ASSUME NEW i \in 1..available PROVE wire[i] # GAP
      <4>1. i \in DOMAIN wire /\ ~(Min(gaps) <= i)
        BY <1>1, <3>4, <3>5
      <4>2. i \notin gaps
        BY <3>3, <4>1
      <4>3. QED
        BY <4>1, <4>2
    <3>7. available \in 0..Len(wire)
      BY <1>1, <3>4, <3>5
    <3>8. QED
      BY <3>6, <3>7, Zenon
  <2>3. QED
    BY <2>1, <2>2
<1> HIDE DEF gaps, available
<1>4. k \in {remaining, available} /\ k <= available
  <2>1. remaining \in Int /\ available \in Int
    BY <1>1, <1>3
  <2>2. QED
    BY <2>1, LeastOfTwo, Zenon
<1>5. k \in 0..Len(wire) /\ k <= available
  BY <1>1, <1>3, <1>4
<1> HIDE DEF k
<1>6. Len(Arrived) = k /\ DOMAIN Arrived = 1..k /\ \A i \in 1..k : Arrived[i] = wire[i]
  BY <1>1, <1>2, <1>5
<1>7. ASSUME NEW i \in 1..k PROVE Arrived[i] \in Byte
  <2>1. i \in 1..Len(wire) /\ i \in 1..available
    BY <1>1, <1>3, <1>5
  <2>2. wire[i] \in Signals /\ wire[i] # GAP
    BY <1>1, <1>3, <2>1
  <2>3. QED
    BY <1>6, <2>2 DEF Signals
<1>8. Arrived \in Seq(Signals)
  BY <1>1, <1>2, <1>5
<1>9. Arrived \in Seq(Byte)
  BY <1>6, <1>7, <1>8, <1>5
<1>10. QED
  BY <1>5, <1>6, <1>9
-----------------------------------------------------------------------------
(***************************************************************************)
(* The steps of FrameLink: its inductive invariant, which is about the     *)
(* memory of the frames and the line, and the invariants of Readout that   *)
(* follow.                                                                 *)
(***************************************************************************)
LinkInv ==
    /\ meter \in MeterStates
    /\ fcb \in {0, FCB}
    /\ frame \in Frames /\ scrap \in Frames /\ frames \in Seq(Frames)
    /\ wire \in Seq(Signals) /\ buff \in Seq(Byte) /\ remaining \in Nat

\* An element of a sequence.
LEMMA Element ==
    ASSUME NEW S, NEW s \in Seq(S), NEW i \in 1..Len(s)
    PROVE  s[i] \in S /\ i \in DOMAIN s
  OBVIOUS

\* One more element.
LEMMA Appended ==
    ASSUME NEW S, NEW s \in Seq(S), NEW e \in S
    PROVE  Append(s, e) \in Seq(S)
  OBVIOUS

\* It holds at first.
LEMMA InitTyped == Init => LinkInv
<1> SUFFICES ASSUME Init PROVE LinkInv
  OBVIOUS
<1>1. PICK m \in Meters : meter = [telegrams |-> m.telegrams, at |-> 0, fcb |-> -1]
  BY DEF Init
<1>2. m.telegrams \in Seq(Telegrams)
  <2>1. /\ m.telegrams \in Seq([ci : Byte, data : Seq(Byte)])
        /\ \A i \in DOMAIN m.telegrams : Len(m.telegrams[i].data) <= MaxData
    BY LinkAssumption
  <2> DEFINE s == m.telegrams
  <2>2. ASSUME NEW i \in 1..Len(s) PROVE s[i] \in Telegrams
    <3>1. s[i] \in [ci : Byte, data : Seq(Byte)] /\ i \in DOMAIN s
      BY <2>1, Element, Zenon
    <3>2. Len(s[i].data) <= MaxData
      BY <2>1, <3>1
    <3>3. QED
      BY <3>1, <3>2, Zenon DEF Telegrams
  <2>3. Len(s) \in Nat /\ s = [i \in 1..Len(s) |-> s[i]]
    BY <2>1
  <2> HIDE DEF s
  <2>4. s \in Seq(Telegrams)
    BY <2>2, <2>3
  <2>5. QED
    BY <2>4 DEF s
<1>3. meter \in MeterStates
  BY <1>1, <1>2 DEF MeterStates
<1>4. mbus_frame_new("ANY") \in Frames
  BY NewType
<1>5. QED
  BY <1>3, <1>4 DEF Init, LinkInv

\* The end of a receive leaves frames in the memory and an empty buffer.
LEMMA ReturnedTyped ==
    ASSUME LinkInv, NEW f \in Frames, NEW result \in {"OK", "INVALID", "TIMEOUT", "RESET"},
           Returned(result, f)
    PROVE  frame' \in Frames /\ scrap' \in Frames /\ buff' = <<>> /\ remaining' = 1
<1>1. mbus_frame_new("ANY") \in Frames
  BY NewType
<1>2. frame \in Frames /\ scrap \in Frames
  BY DEF LinkInv
<1>3. buff' = <<>> /\ remaining' = 1
  BY DEF Returned, Fresh
<1>4. CASE ~again /\ mbus_frame_direction(f) = handle.purge
  BY <1>2, <1>3, <1>4 DEF Returned
<1>5. CASE ~(~again /\ mbus_frame_direction(f) = handle.purge) /\ purging = NoPurge
  <2>1. Answered(result, f)
    BY <1>5 DEF Returned
  <2>2. frame' = f
    BY <2>1 DEF Answered
  <2>3. scrap' = scrap \/ scrap' = mbus_frame_new("ANY")
    BY <2>1 DEF Answered, Purge
  <2>4. QED
    BY <1>1, <1>2, <1>3, <2>2, <2>3
<1>6. CASE ~(~again /\ mbus_frame_direction(f) = handle.purge) /\ purging # NoPurge
  <2>1. Purged(result, f)
    BY <1>6 DEF Returned
  <2>2. frame' = frame /\ (scrap' = f \/ scrap' = mbus_frame_new("ANY"))
    BY <2>1 DEF Purged
  <2>3. QED
    BY <1>1, <1>2, <1>3, <2>2
<1>7. QED
  BY <1>4, <1>5, <1>6

\* A request leaves bytes and silences on the line, whatever becomes of it.
LEMMA SendTyped == ASSUME LinkInv, SendRequest PROVE LinkInv'
<1> DEFINE bytes == Answer(Asked(meter))
<1>1. Asked(meter) \in MeterStates
  BY AskedType DEF LinkInv
<1>2. bytes \in Seq(Byte)
  BY <1>1, AnswerType
<1>3. Echo \in Seq(Signals)
  BY EchoType, BytesAreSignals DEF LinkInv
<1>4. wire \o Echo \in Seq(Signals)
  <2>1. wire \in Seq(Signals)
    BY DEF LinkInv
  <2>2. QED
    BY <1>3, <2>1, Joined
<1>5. meter' \in {meter, Asked(meter)} /\
      \/ wire' = wire \o Echo
      \/ wire' = (wire \o Echo) \o bytes
      \/ \E b \in Damaged(bytes) \cup Delayed(bytes) : wire' = (wire \o Echo) \o b
      \/ \E n \in {0, Min({4, Len(bytes)})} : wire' = wire \o SubSeq(bytes, 1, n)
  <2>1. \/ /\ meter' = Asked(meter)
           /\ wire' = wire \o Echo \o bytes
        \/ /\ meter' = meter \/ meter' = Asked(meter)
           /\ wire' = wire \o Echo
        \/ /\ meter' = Asked(meter)
           /\ \E b \in Damaged(bytes) \cup Delayed(bytes) : wire' = wire \o Echo \o b
        \/ /\ meter' = Asked(meter)
           /\ \E n \in {0, Min({4, Len(bytes)})} : wire' = wire \o SubSeq(bytes, 1, n)
    BY Zenon DEF SendRequest, bytes
  <2> HIDE DEF bytes
  <2>2. QED
    BY <2>1, Zenon
<1>6. /\ UNCHANGED <<fcb, frame, scrap, frames>>
      /\ buff' = <<>> /\ remaining' = 1
  BY DEF SendRequest, Sent, Fresh, request
<1> HIDE DEF bytes
<1>7. wire' \in Seq(Signals)
  <2>1. CASE wire' = wire \o Echo
    BY <1>4, <2>1
  <2>2. CASE wire' = (wire \o Echo) \o bytes
    BY <1>2, <1>4, <2>2, BytesAreSignals, Joined
  <2>3. CASE \E b \in Damaged(bytes) \cup Delayed(bytes) : wire' = (wire \o Echo) \o b
    <3>1. PICK b \in Damaged(bytes) \cup Delayed(bytes) : wire' = (wire \o Echo) \o b
      BY <2>3
    <3>2. b \in Seq(Signals)
      <4>1. CASE b \in Damaged(bytes)
        BY <1>2, <4>1, DamagedType, BytesAreSignals
      <4>2. CASE b \in Delayed(bytes)
        BY <1>2, <4>2, DelayedType
      <4>3. QED
        BY <3>1, <4>1, <4>2
    <3>3. QED
      BY <1>4, <3>1, <3>2, Joined
  <2>4. CASE \E n \in {0, Min({4, Len(bytes)})} : wire' = wire \o SubSeq(bytes, 1, n)
    <3>1. PICK n \in {0, Min({4, Len(bytes)})} : wire' = wire \o SubSeq(bytes, 1, n)
      BY <2>4
    <3>2. Len(bytes) \in Nat
      BY <1>2
    <3>3. n \in 0..Len(bytes)
      <4>1. Min({4, Len(bytes)}) \in {4, Len(bytes)} /\ Min({4, Len(bytes)}) <= Len(bytes)
        <5>1. 4 \in Int /\ Len(bytes) \in Int
          BY <3>2
        <5>2. QED
          BY <5>1, LeastOfTwo, Zenon
      <4>2. QED
        BY <3>1, <3>2, <4>1
    <3>4. SubSeq(bytes, 1, n) \in Seq(Byte)
      BY <1>2, <3>3
    <3>5. wire \in Seq(Signals)
      BY DEF LinkInv
    <3>6. QED
      BY <3>1, <3>4, <3>5, BytesAreSignals, Joined
  <2>5. QED
    BY <1>5, <2>1, <2>2, <2>3, <2>4
<1>8. meter' \in MeterStates
  BY <1>1, <1>5 DEF LinkInv
<1>9. QED
  BY <1>6, <1>7, <1>8 DEF LinkInv

\* A read moves bytes from the line to the buffer and to the memory.
LEMMA ReadTyped == ASSUME LinkInv, Read PROVE LinkInv'
<1>1. /\ Arrived \in Seq(Byte) /\ Len(Arrived) \in 0..Len(wire)
  BY ArrivedType DEF LinkInv
<1>2. wire' \in Seq(Signals)
  <2>1. wire \in Seq(Signals) /\ wire' = SubSeq(wire, Len(Arrived) + 1, Len(wire))
    BY DEF LinkInv, Read
  <2>2. Len(wire) \in Nat /\ Len(Arrived) + 1 \in Nat /\ Len(Arrived) + 1 >= 1
    BY <1>1, <2>1
  <2>3. QED
    BY <2>1, <2>2
<1>3. buff \o Arrived \in Seq(Byte)
  BY <1>1, Joined DEF LinkInv
<1>4. Memory \in Frames
  BY DEF LinkInv, Memory
<1> DEFINE p == mbus_parse(Memory, buff \o Arrived)
<1>5. p.code \in Int /\ p.frame \in Frames
  BY <1>3, <1>4, ParseType
<1>6. /\ UNCHANGED <<meter, fcb, frames>>
      /\ IF p.code > 0
         THEN /\ buff' = buff \o Arrived /\ remaining' = p.code
              /\ IF purging = NoPurge THEN frame' = p.frame /\ UNCHANGED scrap
                 ELSE scrap' = p.frame /\ UNCHANGED frame
         ELSE Returned(IF p.code < 0 THEN "INVALID" ELSE "OK", p.frame)
  BY DEF Read, line, p
<1> HIDE DEF p
<1>7. CASE p.code > 0
  <2>1. frame' \in Frames /\ scrap' \in Frames
    BY <1>5, <1>6, <1>7 DEF LinkInv
  <2>2. buff' \in Seq(Byte) /\ remaining' \in Nat
    <3>1. buff' = buff \o Arrived /\ remaining' = p.code
      BY <1>6, <1>7
    <3>2. p.code \in Nat
      BY <1>5, <1>7
    <3>3. QED
      BY <1>3, <3>1, <3>2, Zenon
  <2>3. QED
    BY <1>2, <1>6, <2>1, <2>2 DEF LinkInv
<1>8. CASE ~(p.code > 0)
  <2>1. Returned(IF p.code < 0 THEN "INVALID" ELSE "OK", p.frame)
    BY <1>6, <1>8
  <2>2. (IF p.code < 0 THEN "INVALID" ELSE "OK") \in {"OK", "INVALID", "TIMEOUT", "RESET"}
    OBVIOUS
  <2>3. frame' \in Frames /\ scrap' \in Frames /\ buff' = <<>> /\ remaining' = 1
    BY <1>5, <2>1, <2>2, ReturnedTyped, Zenon
  <2>4. QED
    BY <1>2, <1>6, <2>3 DEF LinkInv
<1>9. QED
  BY <1>7, <1>8

\* A silence changes the memory as the end of a receive does.
LEMMA SilenceTyped == ASSUME LinkInv, Silence PROVE LinkInv'
<1>1. wire' \in Seq(Signals)
  <2>1. wire \in Seq(Signals) /\ wire' = IF wire = <<>> THEN wire ELSE Tail(wire)
    BY DEF LinkInv, Silence
  <2>2. QED
    BY <2>1
<1>2. Memory \in Frames
  BY DEF LinkInv, Memory
<1>3. UNCHANGED <<meter, fcb, frames>>
  BY DEF Silence, line
<1>4. \/ \E result \in {"OK", "INVALID", "TIMEOUT", "RESET"} : Returned(result, Memory)
      \/ UNCHANGED <<frame, scrap, buff, remaining>>
  <2>1. CASE handle.transport = "tcp"
    <3>1. Returned(IF wire = <<>> /\ ~up THEN "RESET" ELSE "TIMEOUT", Memory)
      BY <2>1 DEF Silence
    <3>2. QED
      BY <3>1
  <2>2. CASE handle.transport = "serial" /\ buff = <<>>
    <3>1. Returned("TIMEOUT", Memory)
      BY <2>2 DEF Silence
    <3>2. QED
      BY <3>1
  <2>3. CASE handle.transport = "serial" /\ buff # <<>> /\ timeouts = 2
    <3>1. Returned("INVALID", Memory)
      BY <2>3 DEF Silence
    <3>2. QED
      BY <3>1
  <2>4. CASE /\ handle.transport # "tcp" /\ ~(handle.transport = "serial" /\ buff = <<>>)
             /\ ~(handle.transport = "serial" /\ buff # <<>> /\ timeouts = 2)
    BY <2>4 DEF Silence
  <2>5. QED
    BY <2>1, <2>2, <2>3, <2>4
<1>5. frame' \in Frames /\ scrap' \in Frames /\ buff' \in Seq(Byte) /\ remaining' \in Nat
  <2>1. CASE UNCHANGED <<frame, scrap, buff, remaining>>
    BY <2>1 DEF LinkInv
  <2>2. CASE \E result \in {"OK", "INVALID", "TIMEOUT", "RESET"} : Returned(result, Memory)
    <3>1. PICK result \in {"OK", "INVALID", "TIMEOUT", "RESET"} : Returned(result, Memory)
      BY <2>2
    <3>2. frame' \in Frames /\ scrap' \in Frames /\ buff' = <<>> /\ remaining' = 1
      BY <1>2, <3>1, ReturnedTyped, Zenon
    <3>3. QED
      BY <3>2
  <2>3. QED
    BY <1>4, <2>1, <2>2
<1>6. QED
  BY <1>1, <1>3, <1>5 DEF LinkInv

\* An answer is kept as it is in memory.
LEMMA ProcessTyped == ASSUME LinkInv, Process PROVE LinkInv'
<1>1. mbus_frame_new("ANY") \in Frames
  BY NewType
<1>2. UNCHANGED <<meter, wire, scrap, buff, remaining>>
  BY DEF Process, line, reading
<1>3. /\ frames' = frames \/ frames' = Append(frames, frame)
      /\ frame' = frame \/ frame' = mbus_frame_new("ANY")
      /\ fcb' = fcb \/ fcb' = FCB - fcb
  BY SMTT(20) DEF Process, ProcessFails, ProcessVariable, ProcessOther, NextFcb
<1>4. fcb' \in {0, FCB}
  BY <1>3 DEF LinkInv, FCB
<1>5. frames' \in Seq(Frames) /\ frame' \in Frames
  <2>1. frame \in Frames /\ frames \in Seq(Frames)
    BY Zenon DEF LinkInv
  <2>2. Append(frames, frame) \in Seq(Frames)
    BY <2>1, Appended, Zenon
  <2>3. QED
    BY <1>1, <1>3, <2>1, <2>2, Zenon
<1>6. meter \in MeterStates /\ scrap \in Frames /\ wire \in Seq(Signals) /\ buff \in Seq(Byte)
      /\ remaining \in Nat
  BY DEF LinkInv
<1>7. QED
  BY <1>2, <1>4, <1>5, <1>6 DEF LinkInv

(***************************************************************************)
(* The memory of the frames, the buffers, the line and the meter always    *)
(* hold what the code can put there: bytes, whole frames, signals.         *)
(***************************************************************************)
THEOREM LinkTyped == Spec => []LinkInv
<1>1. Init => LinkInv
  BY InitTyped
<1>2. LinkInv /\ [Next]_vars => LinkInv'
  <2> SUFFICES ASSUME LinkInv, [Next]_vars PROVE LinkInv'
    OBVIOUS
  <2>1. CASE SendRequest
    BY <2>1, SendTyped
  <2>2. CASE SendClosed
    <3>1. UNCHANGED <<meter, fcb, frame, scrap, frames, wire>>
      BY <2>2 DEF SendClosed, Sent, line, request, reading
    <3>2. \/ buff' = <<>> /\ remaining' = 1
          \/ buff' = buff /\ remaining' = remaining
      BY <2>2 DEF SendClosed, Sent, Fresh, reading
    <3>3. buff' \in Seq(Byte) /\ remaining' \in Nat
      <4>1. <<>> \in Seq(Byte) /\ 1 \in Nat
        OBVIOUS
      <4>2. QED
        BY <3>2, <4>1 DEF LinkInv
    <3>4. QED
      BY <3>1, <3>3 DEF LinkInv
  <2>3. CASE GiveUp
    BY <2>3 DEF GiveUp, line, request, reading, LinkInv
  <2>4. CASE Read
    BY <2>4, ReadTyped
  <2>5. CASE Silence
    BY <2>5, SilenceTyped
  <2>6. CASE Process
    BY <2>6, ProcessTyped
  <2>7. CASE UNCHANGED vars
    BY <2>7 DEF vars, line, request, reading, LinkInv
  <2>8. CASE SendFails
    BY <2>8 DEF SendFails, request, reading, LinkInv
  <2>9. QED
    BY <2>1, <2>2, <2>3, <2>4, <2>5, <2>6, <2>7, <2>8 DEF Next, Step, Done
<1>3. QED
  BY <1>1, <1>2, PTL DEF Spec

(***************************************************************************)
(* mbus_data_variable_parse never takes a byte from behind the data.       *)
(***************************************************************************)
THEOREM StaleBytesAreUnused == Spec => []StaleBytesUnused
<1>1. ASSUME LinkInv PROVE StaleBytesUnused
  <2>1. frame.data \in Seq(Byte)
    BY <1>1, FrameFields DEF LinkInv
  <2>2. ASSUME NEW d \in Prefixes(frame.data), NEW tail \in StaleBytes, tail < 251
        PROVE  mbus_data_variable_parse(d, tail) = mbus_data_variable_parse(d, 0)
    <3>1. PICK l \in 0..Len(frame.data) : d = SubSeq(frame.data, 1, l)
      BY DEF Prefixes
    <3>2. d \in Seq(Byte)
      BY <2>1, <3>1
    <3>3. tail \in Byte /\ 0 \in Byte /\ 0 < 251
      BY LinkAssumption DEF Byte
    <3>4. QED
      BY <2>2, <3>2, <3>3, TurnsSame, Zenon
  <2>3. QED
    BY <2>2 DEF StaleBytesUnused
<1>2. QED
  BY <1>1, LinkTyped, PTL

(***************************************************************************)
(* The numbers in the registers are those the bytes stand for.             *)
(***************************************************************************)
THEOREM NumbersAreExact == Spec => []NumbersExact
<1>1. ASSUME LinkInv PROVE NumbersExact
  <2> SUFFICES ASSUME NEW f \in VariableFrames, NEW k \in DOMAIN Registers,
                      Named(k, RecordsOf(f)), IsNumber(RecordsOf(f)[Registers[k] + 1])
               PROVE  LET r == RecordsOf(f)[Registers[k] + 1]
                          value == process_mbus_data_variable(Registers, RecordsOf(f))[k] IN
                      IF DataField(r) \in BcdFields /\ ~IsDecimal(r)
                      THEN Nibbles(r.data)[1] = 15 => strtod(value) = Number(0, FALSE)
                      ELSE /\ strtod(value) = Number(Meant(r), TRUE)
                           /\ mbus_parse_variable_record(r).value = Integer(Meant(r))
    BY DEF NumbersExact
  <2>1. f \in Frames
    <3>1. frames \in Seq(Frames)
      BY <1>1 DEF LinkInv
    <3>2. Accepted \in Seq(Frames)
      BY <3>1 DEF Accepted
    <3>3. f \in Range(Accepted)
      BY DEF VariableFrames
    <3>4. QED
      BY <3>2, <3>3 DEF Range
  <2>2. f.data \in Seq(Byte)
    BY <2>1, FrameFields
  <2>3. ParsedOf(f) = mbus_data_variable_parse(f.data, 0) /\ ParsedOf(f).code = 0
    BY DEF VariableFrames, ParsedOf, mbus_frame_data_parse
  <2>4. RecordsOf(f) \in Seq(TypedRecords)
    <3>1. ParsedOf(f) \in ParsedRecords
      BY <2>2, <2>3, VariableType
    <3>2. Failed.code = -1
      BY DEF Failed
    <3>3. QED
      BY <2>3, <3>1, <3>2 DEF ParsedRecords, RecordsOf
  <2> DEFINE r == RecordsOf(f)[Registers[k] + 1]
             value == process_mbus_data_variable(Registers, RecordsOf(f))[k]
  <2>5. r \in TypedRecords /\ value = mbus_data_record_decode(r)
    BY <2>4, RegisterSet, Zenon
  <2>6. mbus_variable_value_decode(r).kind = "integer"
    BY Zenon DEF IsNumber
  <2> HIDE DEF r, value
  <2>7. IF DataField(r) \in BcdFields /\ ~IsDecimal(r)
        THEN Nibbles(r.data)[1] = 15 => strtod(value) = Number(0, FALSE)
        ELSE /\ strtod(value) = Number(Meant(r), TRUE)
             /\ mbus_parse_variable_record(r).value = Integer(Meant(r))
    BY <2>5, <2>6, RecordExact, Zenon
  <2>8. QED
    BY <2>7, Zenon DEF r, value
<1>2. QED
  BY <1>1, LinkTyped, PTL
-----------------------------------------------------------------------------
\* The elements of one sequence behind another one.
LEMMA Concatenated ==
    ASSUME NEW S, NEW a \in Seq(S), NEW b \in Seq(S)
    PROVE  /\ a \o b \in Seq(S) /\ Len(a \o b) = Len(a) + Len(b)
           /\ Len(a) \in Nat /\ Len(b) \in Nat
           /\ \A i \in 1..Len(a) : (a \o b)[i] = a[i]
           /\ \A i \in 1..Len(b) : (a \o b)[Len(a) + i] = b[i]
  OBVIOUS

\* The elements of a piece of a sequence.
LEMMA Sliced ==
    ASSUME NEW S, NEW s \in Seq(S), NEW i \in Nat, NEW j \in Nat, 1 <= i, i <= j + 1, j <= Len(s)
    PROVE  /\ SubSeq(s, i, j) \in Seq(S) /\ Len(SubSeq(s, i, j)) = j - i + 1
           /\ \A k \in 1..(j - i + 1) : SubSeq(s, i, j)[k] = s[i + k - 1]
<1>1. CASE i <= j
  <2>1. i \in 1..Len(s) /\ j \in 1..Len(s)
    BY <1>1
  <2>2. QED
    BY <1>1, <2>1
<1>2. CASE i = j + 1
  BY <1>2
<1>3. QED
  BY <1>1, <1>2
-----------------------------------------------------------------------------
(***************************************************************************)
(* What a receive comes to (Returned), one case at a time.                 *)
(***************************************************************************)
Ends == buff' = <<>> /\ remaining' = 1 /\ timeouts' = 0

\* The frame is thrown away and another one is received.
ReceivesAgain(f) ==
    /\ Ends /\ ~again /\ mbus_frame_direction(f) = handle.purge /\ again' = TRUE
    /\ UNCHANGED <<pc, retval, retry, purging, history>>
    /\ purging # NoPurge => UNCHANGED frame

\* The request has its answer, or none.
IsAnswered(result, f) ==
    /\ Ends /\ purging = NoPurge /\ again' = FALSE /\ frame' = f /\ strayed' = strayed
    /\ again \/ mbus_frame_direction(f) # handle.purge
    /\ \/ /\ result = "OK" /\ pc' = "read" /\ purging' = "process" /\ retry' = 0
          /\ misread' = (misread \/ f.type = "ACK") /\ UNCHANGED retval
       \/ /\ result = "INVALID" /\ pc' = "read" /\ purging' = "send" /\ retry' = retry + 1
          /\ UNCHANGED <<retval, misread>>
       \/ /\ result = "TIMEOUT" /\ pc' = "send" /\ purging' = NoPurge /\ retry' = retry + 1
          /\ UNCHANGED <<retval, misread>>
       \/ /\ result = "RESET" /\ pc' = "done" /\ purging' = NoPurge /\ retry' = retry
          /\ retval' = 1 /\ UNCHANGED misread

\* A purge throws a frame away, or ends.
PurgesOn == /\ Ends /\ purging # NoPurge /\ again' = FALSE
            /\ UNCHANGED <<pc, purging, frame, retry, retval, misread, strayed>>
PurgeEnds == /\ Ends /\ purging # NoPurge /\ again' = FALSE
             /\ pc' = purging /\ purging' = NoPurge
             /\ strayed' = (strayed \/ wire' # <<>>)
             /\ UNCHANGED <<frame, retry, retval, misread>>

Results == {"OK", "INVALID", "TIMEOUT", "RESET"}
PhaseInv ==
    /\ pc \in {"send", "read", "process", "done"}
    /\ purging \in {NoPurge, "send", "process"}
    /\ pc # "read" => purging = NoPurge /\ ~again
    /\ again \in BOOLEAN /\ misread \in BOOLEAN /\ strayed \in BOOLEAN
    /\ retry \in Nat /\ faults \in Nat /\ handle \in Handles
    /\ \E m \in Meters : meter.telegrams = m.telegrams

\* One of them it is.
LEMMA ReturnedCases ==
    ASSUME PhaseInv, NEW f, NEW result \in Results, Returned(result, f)
    PROVE  ReceivesAgain(f) \/ IsAnswered(result, f) \/ PurgesOn \/ PurgeEnds
<1>1. Ends
  BY DEF Returned, Fresh, Ends
<1>2. again \in BOOLEAN /\ strayed \in BOOLEAN /\ misread \in BOOLEAN
  BY DEF PhaseInv
<1>3. CASE ~again /\ mbus_frame_direction(f) = handle.purge
  <2>1. again' = TRUE /\ UNCHANGED <<pc, retval, retry, purging, history>>
        /\ (purging # NoPurge => UNCHANGED frame)
    BY <1>3 DEF Returned
  <2>2. QED
    BY <1>1, <1>3, <2>1 DEF ReceivesAgain
<1>4. CASE (again \/ mbus_frame_direction(f) # handle.purge) /\ purging = NoPurge
  <2>1. Answered(result, f) /\ again' = FALSE
    BY <1>2, <1>4 DEF Returned
  <2>2. frame' = f /\ strayed' = strayed
    BY <2>1 DEF Answered
  <2>3. CASE result = "OK"
    <3>1. retry' = 0 /\ Purge("process") /\ UNCHANGED retval
          /\ misread' = (misread \/ (result = "OK" /\ f.type = "ACK"))
      BY <2>1, <2>3 DEF Answered
    <3>2. QED
      BY <1>1, <1>4, <2>1, <2>2, <2>3, <3>1 DEF Purge, IsAnswered
  <2>4. CASE result = "INVALID"
    <3>1. retry' = retry + 1 /\ Purge("send") /\ UNCHANGED retval /\ misread' = misread
      BY <1>2, <2>1, <2>4 DEF Answered, CountRetry
    <3>2. QED
      BY <1>1, <1>4, <2>1, <2>2, <2>4, <3>1 DEF Purge, IsAnswered
  <2>5. CASE result = "TIMEOUT"
    <3>1. pc' = "send" /\ retry' = retry + 1 /\ purging' = purging /\ UNCHANGED retval
          /\ misread' = misread
      BY <1>2, <2>1, <2>5 DEF Answered, CountRetry
    <3>2. QED
      BY <1>1, <1>4, <2>1, <2>2, <2>5, <3>1 DEF IsAnswered
  <2>6. CASE result = "RESET"
    <3>1. pc' = "done" /\ retry' = retry /\ purging' = purging /\ retval' = 1
          /\ misread' = misread
      BY <1>2, <2>1, <2>6 DEF Answered
    <3>2. QED
      BY <1>1, <1>4, <2>1, <2>2, <2>6, <3>1 DEF IsAnswered
  <2>7. QED
    BY <2>3, <2>4, <2>5, <2>6 DEF Results
<1>5. CASE (again \/ mbus_frame_direction(f) # handle.purge) /\ purging # NoPurge
  <2>1. Purged(result, f) /\ again' = FALSE
    BY <1>2, <1>5 DEF Returned
  <2>2. CASE Accepts(result)
    <3>1. UNCHANGED <<pc, purging, frame, retry, retval, misread>> /\ strayed' = strayed
      BY <1>2, <2>1, <2>2 DEF Purged
    <3>2. QED
      BY <1>1, <1>5, <2>1, <3>1 DEF PurgesOn
  <2>3. CASE ~Accepts(result)
    <3>1. pc' = purging /\ purging' = NoPurge /\ strayed' = (strayed \/ wire' # <<>>)
          /\ UNCHANGED <<frame, retry, retval, misread>>
      BY <1>2, <2>1, <2>3 DEF Purged
    <3>2. QED
      BY <1>1, <1>5, <2>1, <3>1 DEF PurgeEnds
  <2>4. QED
    BY <2>2, <2>3
<1>6. QED
  BY <1>2, <1>3, <1>4, <1>5

\* The end of a receive keeps what the phases say of each other.
LEMMA ReturnedPhase ==
    ASSUME PhaseInv, pc = "read", NEW f, NEW result \in Results, Returned(result, f)
    PROVE  /\ pc' \in {"send", "read", "process", "done"}
           /\ purging' \in {NoPurge, "send", "process"}
           /\ pc' # "read" => purging' = NoPurge /\ ~again'
           /\ again' \in BOOLEAN /\ misread' \in BOOLEAN /\ strayed' \in BOOLEAN
           /\ retry' \in Nat
<1>1. ReceivesAgain(f) \/ IsAnswered(result, f) \/ PurgesOn \/ PurgeEnds
  BY ReturnedCases
<1>2. retry \in Nat /\ misread \in BOOLEAN /\ strayed \in BOOLEAN /\ purging \in {NoPurge, "send", "process"}
  BY DEF PhaseInv
<1>3. CASE ReceivesAgain(f)
  BY <1>2, <1>3 DEF ReceivesAgain, history
<1>4. CASE IsAnswered(result, f)
  <2>1. /\ again' = FALSE /\ strayed' = strayed /\ misread' \in BOOLEAN
        /\ pc' \in {"send", "read", "done"} /\ purging' \in {NoPurge, "send", "process"}
        /\ retry' \in {0, retry, retry + 1}
    BY <1>2, <1>4 DEF IsAnswered
  <2>2. pc' # "read" => purging' = NoPurge
    BY <1>4 DEF IsAnswered
  <2>3. retry' \in Nat
    BY <1>2, <2>1
  <2>4. QED
    BY <1>2, <2>1, <2>2, <2>3
<1>5. CASE PurgesOn
  BY <1>2, <1>5 DEF PurgesOn
<1>6. CASE PurgeEnds
  BY <1>2, <1>6 DEF PurgeEnds, NoPurge
<1>7. QED
  BY <1>1, <1>3, <1>4, <1>5, <1>6

\* What a read comes to.
ReadOn(p) ==
    /\ p.code > 0 /\ buff' = buff \o Arrived /\ remaining' = p.code
    /\ UNCHANGED <<pc, retval, retry, timeouts, again, purging, history>>
    /\ purging # NoPurge => UNCHANGED frame

\* A read goes on, or ends the receive with what mbus_parse makes of the bytes.
LEMMA ReadCases ==
    ASSUME LinkInv, Read
    PROVE  /\ pc = "read" /\ ~Silent
           /\ wire' = SubSeq(wire, Len(Arrived) + 1, Len(wire))
           /\ UNCHANGED <<line, fcb, frames, held>>
           /\ LET p == mbus_parse(Memory, buff \o Arrived) IN
              \/ ReadOn(p)
              \/ p.code < 0 /\ Returned("INVALID", p.frame)
              \/ p.code = 0 /\ Returned("OK", p.frame)
<1> DEFINE p == mbus_parse(Memory, buff \o Arrived)
<1>1. /\ pc = "read" /\ ~Silent
      /\ wire' = SubSeq(wire, Len(Arrived) + 1, Len(wire))
      /\ UNCHANGED <<line, fcb, frames, held>>
      /\ IF p.code > 0
         THEN /\ buff' = buff \o Arrived /\ remaining' = p.code
              /\ IF purging = NoPurge THEN frame' = p.frame /\ UNCHANGED scrap
                 ELSE scrap' = p.frame /\ UNCHANGED frame
              /\ UNCHANGED <<pc, retval, retry, timeouts, again, purging, history>>
         ELSE Returned(IF p.code < 0 THEN "INVALID" ELSE "OK", p.frame)
  BY DEF Read, p
<1>2. p.code \in Int
  <2>1. Arrived \in Seq(Byte)
    BY ArrivedType DEF LinkInv
  <2>2. buff \o Arrived \in Seq(Byte)
    BY <2>1, Joined DEF LinkInv
  <2>3. Memory \in Frames
    BY DEF LinkInv, Memory
  <2>4. QED
    BY <2>2, <2>3, ParseType
<1> HIDE DEF p
<1>3. CASE p.code > 0
  <2>1. ReadOn(p)
    BY <1>1, <1>3 DEF ReadOn
  <2>2. QED
    BY <1>1, <2>1 DEF p
<1>4. CASE p.code < 0
  <2>1. ~(p.code > 0)
    BY <1>2, <1>4
  <2>2. Returned("INVALID", p.frame)
    BY <1>1, <1>4, <2>1
  <2>3. QED
    BY <1>1, <1>4, <2>2 DEF p
<1>5. CASE p.code = 0
  <2>1. Returned("OK", p.frame)
    BY <1>1, <1>5
  <2>2. QED
    BY <1>1, <1>5, <2>1 DEF p
<1>6. QED
  BY <1>2, <1>3, <1>4, <1>5

\* What a silence comes to.
Waits ==
    /\ handle.transport = "serial" /\ buff # <<>>
    /\ UNCHANGED <<pc, retval, retry, frame, buff, remaining, again, purging, history>>

\* A silence ends the receive, or the serial transport waits for more.
LEMMA SilenceCases ==
    ASSUME PhaseInv, Silence
    PROVE  /\ pc = "read" /\ Silent
           /\ wire' = IF wire = <<>> THEN wire ELSE Tail(wire)
           /\ UNCHANGED <<line, fcb, frames, held>>
           /\ \/ Returned("TIMEOUT", Memory)
              \/ wire = <<>> /\ ~up /\ Returned("RESET", Memory)
              \/ buff # <<>> /\ Returned("INVALID", Memory)
              \/ Waits
<1>1. /\ pc = "read" /\ Silent
      /\ wire' = IF wire = <<>> THEN wire ELSE Tail(wire)
      /\ UNCHANGED <<line, fcb, frames, held>>
  BY DEF Silence
<1>2. handle.transport \in {"serial", "tcp"}
  BY LinkAssumption DEF PhaseInv
<1>3. CASE handle.transport = "tcp"
  <2>1. Returned(IF wire = <<>> /\ ~up THEN "RESET" ELSE "TIMEOUT", Memory)
    BY <1>3 DEF Silence
  <2>2. CASE wire = <<>> /\ ~up
    BY <1>1, <2>1, <2>2
  <2>3. CASE ~(wire = <<>> /\ ~up)
    BY <1>1, <2>1, <2>3
  <2>4. QED
    BY <2>2, <2>3
<1>4. CASE handle.transport = "serial" /\ buff = <<>>
  <2>1. Returned("TIMEOUT", Memory)
    BY <1>4 DEF Silence
  <2>2. QED
    BY <1>1, <2>1
<1>5. CASE handle.transport = "serial" /\ buff # <<>> /\ timeouts = 2
  <2>1. Returned("INVALID", Memory)
    BY <1>5 DEF Silence
  <2>2. QED
    BY <1>1, <1>5, <2>1
<1>6. CASE handle.transport = "serial" /\ buff # <<>> /\ timeouts # 2
  <2>1. UNCHANGED <<pc, retval, retry, frame, buff, remaining, again, purging, history>>
    BY <1>6 DEF Silence
  <2>2. Waits
    BY <1>6, <2>1 DEF Waits
  <2>3. QED
    BY <1>1, <2>2
<1>7. QED
  BY <1>2, <1>3, <1>4, <1>5, <1>6

\* A request that is sent begins to receive.
LEMMA SendPhase == ASSUME LinkInv, PhaseInv, SendRequest PROVE PhaseInv'
<1>1. /\ pc' = "read" /\ UNCHANGED <<handle, retry, purging, again, misread, strayed>>
      /\ meter' = meter \/ meter' = Asked(meter)
      /\ faults' = faults \/ faults' = faults + 1
  BY DEF SendRequest, Sent, request, history
<1>2. meter'.telegrams = meter.telegrams
  BY <1>1 DEF Asked, LinkInv, MeterStates
<1>3. faults' \in Nat
  BY <1>1 DEF PhaseInv
<1>4. QED
  BY <1>1, <1>2, <1>3 DEF PhaseInv

\* What the phases say of each other holds from step to step.
LEMMA PhaseStep == ASSUME LinkInv, PhaseInv, [Next]_vars PROVE PhaseInv'
<1>1. CASE SendRequest
  BY <1>1, SendPhase
<1>2. CASE SendClosed
  <2>1. /\ pc' \in {"read", "done"}
        /\ UNCHANGED <<purging, again, handle, meter, faults, retry, misread, strayed>>
    BY <1>2 DEF SendClosed, Sent, line, request, reading, history
  <2>2. pc = "send"
    BY <1>2 DEF SendClosed
  <2>3. QED
    BY <2>1, <2>2 DEF PhaseInv
<1>3. CASE GiveUp
  <2>1. /\ pc' = "done" /\ pc = "send"
        /\ UNCHANGED <<purging, again, handle, meter, faults, retry, misread, strayed>>
    BY <1>3 DEF GiveUp, line, request, reading, history
  <2>2. QED
    BY <2>1 DEF PhaseInv
<1>4. CASE Read
  <2> DEFINE p == mbus_parse(Memory, buff \o Arrived)
  <2>1. /\ pc = "read" /\ UNCHANGED <<handle, meter, faults>>
        /\ \/ ReadOn(p)
           \/ Returned("INVALID", p.frame)
           \/ Returned("OK", p.frame)
    BY <1>4, ReadCases DEF line
  <2> HIDE DEF p
  <2>2. CASE ReadOn(p)
    <3>1. UNCHANGED <<pc, retry, again, purging, misread, strayed>>
      BY <2>2 DEF ReadOn, history
    <3>2. QED
      BY <2>1, <3>1 DEF PhaseInv
  <2>3. CASE \E result \in Results : Returned(result, p.frame)
    BY <2>1, <2>3, ReturnedPhase DEF PhaseInv
  <2>4. QED
    BY <2>1, <2>2, <2>3 DEF Results
<1>5. CASE Silence
  <2>1. /\ pc = "read" /\ UNCHANGED <<handle, meter, faults>>
        /\ \/ Returned("TIMEOUT", Memory) \/ Returned("RESET", Memory)
           \/ Returned("INVALID", Memory) \/ Waits
    BY <1>5, SilenceCases DEF line
  <2>2. CASE Waits
    <3>1. UNCHANGED <<pc, retry, again, purging, misread, strayed>>
      BY <2>2 DEF Waits, history
    <3>2. QED
      BY <2>1, <3>1 DEF PhaseInv
  <2>3. CASE \E result \in Results : Returned(result, Memory)
    BY <2>1, <2>3, ReturnedPhase DEF PhaseInv
  <2>4. QED
    BY <2>1, <2>2, <2>3 DEF Results
<1>6. CASE Process
  <2>1. pc = "process" /\ pc' \in {"send", "done"}
    BY <1>6 DEF Process, ProcessFails, ProcessVariable, ProcessOther
  <2>2. UNCHANGED <<purging, again, handle, meter, faults, retry, misread, strayed>>
    BY <1>6 DEF Process, line, reading, history
  <2>3. QED
    BY <2>1, <2>2 DEF PhaseInv
<1>7. CASE UNCHANGED vars
  BY <1>7 DEF vars, line, request, reading, history, PhaseInv
<1>8. CASE SendFails
  <2>1. /\ pc' = "done" /\ pc = "send" /\ (faults' = faults \/ faults' = faults + 1)
        /\ UNCHANGED <<purging, again, handle, meter, retry, misread, strayed>>
    BY <1>8 DEF SendFails, request, reading, history
  <2>2. faults' \in Nat
    BY <2>1 DEF PhaseInv
  <2>3. QED
    BY <2>1, <2>2 DEF PhaseInv
<1>9. QED
  BY <1>1, <1>2, <1>3, <1>4, <1>5, <1>6, <1>7, <1>8 DEF Next, Step, Done

\* The phases agree in the beginning.
LEMMA PhaseInit == ASSUME Init PROVE PhaseInv
<1>1. PICK m \in Meters : /\ meter = [telegrams |-> m.telegrams, at |-> 0, fcb |-> -1]
                          /\ faults = m.faults
  BY DEF Init
<1>2. faults \in Nat
  BY <1>1, LinkAssumption
<1>3. \E k \in Meters : meter.telegrams = k.telegrams
  BY <1>1
<1>4. QED
  BY <1>2, <1>3 DEF Init, PhaseInv

\* The receive functions, the purge and the request take turns as they should.
LEMMA PhaseTyped == Spec => [](LinkInv /\ PhaseInv)
<1>1. Init => PhaseInv
  BY PhaseInit
<1>2. LinkInv /\ PhaseInv /\ [Next]_vars => PhaseInv'
  BY PhaseStep
<1>3. QED
  BY <1>1, <1>2, LinkTyped, PTL DEF Spec
-----------------------------------------------------------------------------
(***************************************************************************)
(* A frame that comes in undisturbed: bytes that mbus_parse accepts as a   *)
(* whole, and asks for while they are not.                                 *)
(***************************************************************************)
IsFrame(p) ==
    /\ p \in Seq(Byte) /\ p # <<>>
    /\ \A f \in Frames : /\ mbus_parse(f, p).code = 0
                         /\ \A k \in 1..(Len(p) - 1) :
                              mbus_parse(f, SubSeq(p, 1, k)).code \in 1..(Len(p) - k)

\* The first k of its bytes are in the buffer, the others and x on the line.
Left(p, x, k) == SubSeq(p, k + 1, Len(p)) \o x
Coming(p, x, k) ==
    /\ buff = SubSeq(p, 1, k) /\ wire = Left(p, x, k)
    /\ remaining \in 1..(Len(p) - k)

\* Bytes are read up to the number asked for.
LEMMA ArrivedBytes ==
    ASSUME wire \in Seq(Byte), remaining \in 1..Len(wire)
    PROVE  Arrived = SubSeq(wire, 1, remaining)
<1> DEFINE gaps == {i \in DOMAIN wire : wire[i] = GAP}
           available == IF gaps = {} THEN Len(wire) ELSE Min(gaps) - 1
<1>1. gaps = {}
  <2>1. DOMAIN wire = 1..Len(wire) /\ \A i \in 1..Len(wire) : wire[i] \in Byte
    OBVIOUS
  <2>2. GAP \notin Byte
    BY DEF GAP, Byte
  <2>3. QED
    BY <2>1, <2>2
<1>2. available = Len(wire)
  BY <1>1
<1>3. Min({remaining, Len(wire)}) = remaining
  <2>1. remaining \in Int /\ Len(wire) \in Int /\ remaining <= Len(wire)
    OBVIOUS
  <2>2. Min({remaining, Len(wire)}) \in {remaining, Len(wire)} /\ Min({remaining, Len(wire)}) <= remaining
    BY <2>1, LeastOfTwo, Zenon
  <2>3. QED
    BY <2>1, <2>2
<1>4. Arrived = SubSeq(wire, 1, Min({remaining, available}))
  BY Zenon DEF Arrived
<1>5. QED
  BY <1>2, <1>3, <1>4

\* What is read of a sequence in pieces.
ArePieces(S, p, x, k, n) ==
    /\ Left(p, x, k) \in Seq(S) /\ n \in 0..Len(Left(p, x, k))
    /\ SubSeq(p, 1, k) \o SubSeq(Left(p, x, k), 1, n) = SubSeq(p, 1, k + n)
    /\ SubSeq(Left(p, x, k), n + 1, Len(Left(p, x, k))) = Left(p, x, k + n)
    /\ Len(SubSeq(Left(p, x, k), 1, n)) = n
\* The parts of a frame that is coming in make up the frame.
LEMMA Pieces ==
    ASSUME NEW S, NEW p \in Seq(S), NEW x \in Seq(S), NEW k \in Nat, NEW n \in Nat,
           k + n <= Len(p)
    PROVE  ArePieces(S, p, x, k, n)
<1> DEFINE w == Left(p, x, k)
           q == SubSeq(p, k + 1, Len(p))
           l == Len(p)
<1>0. l \in Nat /\ Len(x) \in Nat /\ k \in Nat /\ n \in Nat /\ k + n <= l
  OBVIOUS
<1>1. q \in Seq(S) /\ Len(q) = l - k /\ \A i \in 1..(l - k) : q[i] = p[k + i]
  <2>1. k + 1 \in Nat /\ 1 <= k + 1 /\ k + 1 <= l + 1 /\ l <= Len(p) /\ l - (k + 1) + 1 = l - k
    BY <1>0
  <2>2. /\ q \in Seq(S) /\ Len(q) = l - (k + 1) + 1
        /\ \A i \in 1..(l - (k + 1) + 1) : q[i] = p[(k + 1) + i - 1]
    BY <1>0, <2>1, Sliced, ZenonT(60)
  <2>3. \A i \in 1..(l - k) : (k + 1) + i - 1 = k + i
    BY <1>0
  <2>4. QED
    BY <2>1, <2>2, <2>3, Zenon
<1> HIDE DEF q
<1>2. /\ w \in Seq(S) /\ Len(w) = (l - k) + Len(x)
      /\ \A i \in 1..(l - k) : w[i] = q[i]
      /\ \A i \in 1..Len(x) : w[(l - k) + i] = x[i]
  <2>1. w = q \o x
    BY DEF q, Left
  <2>2. /\ q \o x \in Seq(S) /\ Len(q \o x) = Len(q) + Len(x)
        /\ \A i \in 1..Len(q) : (q \o x)[i] = q[i]
        /\ \A i \in 1..Len(x) : (q \o x)[Len(q) + i] = x[i]
    <3>1. q \in Seq(S)
      BY <1>1
    <3>2. x \in Seq(S)
      OBVIOUS
    <3>3. QED
      BY <3>1, <3>2, Concatenated
  <2>3. QED
    BY <1>1, <2>1, <2>2, Zenon
<1> HIDE DEF l, w
<1>4. n \in 0..Len(w) /\ Len(w) \in Nat /\ n <= Len(w)
  BY <1>2, <1>0
<1> DEFINE a == SubSeq(p, 1, k)
           b == SubSeq(w, 1, n)
           c == SubSeq(p, 1, k + n)
           d == SubSeq(w, n + 1, Len(w))
           e == SubSeq(p, k + n + 1, Len(p))
<1>5. a \in Seq(S) /\ Len(a) = k /\ \A i \in 1..k : a[i] = p[i]
  <2>1. 1 \in Nat /\ 1 <= 1 /\ 1 <= k + 1 /\ k <= Len(p) /\ k - 1 + 1 = k
    BY <1>0 DEF l
  <2>2. a \in Seq(S) /\ Len(a) = k - 1 + 1 /\ \A i \in 1..(k - 1 + 1) : a[i] = p[1 + i - 1]
    BY <2>1, Sliced, ZenonT(60)
  <2>3. \A i \in 1..k : 1 + i - 1 = i
    OBVIOUS
  <2>4. QED
    BY <2>1, <2>2, <2>3, Zenon
<1>6. b \in Seq(S) /\ Len(b) = n /\ \A i \in 1..n : b[i] = w[i]
  <2>1. 1 \in Nat /\ 1 <= 1 /\ 1 <= n + 1 /\ n <= Len(w) /\ n - 1 + 1 = n
    BY <1>0, <1>4
  <2>2. b \in Seq(S) /\ Len(b) = n - 1 + 1 /\ \A i \in 1..(n - 1 + 1) : b[i] = w[1 + i - 1]
    <3>1. w \in Seq(S)
      BY <1>2
    <3>2. n \in Nat
      OBVIOUS
    <3>3. QED
      BY <2>1, <3>1, <3>2, Sliced, ZenonT(60)
  <2>3. \A i \in 1..n : 1 + i - 1 = i
    OBVIOUS
  <2>4. QED
    BY <2>1, <2>2, <2>3, Zenon
<1>7. c \in Seq(S) /\ Len(c) = k + n /\ \A i \in 1..(k + n) : c[i] = p[i]
  <2> DEFINE m == k + n
  <2>1. m \in Nat /\ 1 \in Nat /\ 1 <= 1 /\ 1 <= m + 1 /\ m <= Len(p) /\ m - 1 + 1 = m
    BY <1>0 DEF l
  <2>2. c = SubSeq(p, 1, m) /\ m = k + n
    OBVIOUS
  <2> HIDE DEF m
  <2>3. c \in Seq(S) /\ Len(c) = m - 1 + 1 /\ \A i \in 1..(m - 1 + 1) : c[i] = p[1 + i - 1]
    <3> DEFINE y == SubSeq(p, 1, m)
    <3>1. y \in Seq(S) /\ Len(y) = m - 1 + 1 /\ \A i \in 1..(m - 1 + 1) : y[i] = p[1 + i - 1]
      BY <2>1, Sliced, ZenonT(60)
    <3>2. QED
      BY <2>2, <3>1, Zenon
  <2>4. \A i \in 1..m : 1 + i - 1 = i
    OBVIOUS
  <2>5. QED
    BY <2>1, <2>2, <2>3, <2>4, Zenon
<1>8. d \in Seq(S) /\ Len(d) = Len(w) - n /\ \A i \in 1..(Len(w) - n) : d[i] = w[n + i]
  <2> DEFINE j == n + 1
  <2>1. j \in Nat /\ 1 <= j /\ j <= Len(w) + 1 /\ Len(w) <= Len(w) /\ Len(w) \in Nat
        /\ Len(w) - j + 1 = Len(w) - n
    BY <1>0, <1>4
  <2>5. \A i \in 1..(Len(w) - n) : j + i - 1 = n + i
    BY <1>0, <1>4
  <2>2. d = SubSeq(w, j, Len(w))
    OBVIOUS
  <2> HIDE DEF j
  <2>3. d \in Seq(S) /\ Len(d) = Len(w) - j + 1 /\ \A i \in 1..(Len(w) - j + 1) : d[i] = w[j + i - 1]
    <3> DEFINE m == Len(w)
               y == SubSeq(w, j, m)
    <3>1. w \in Seq(S) /\ m \in Nat /\ m <= Len(w) /\ j \in Nat /\ 1 <= j /\ j <= m + 1
      BY <1>2, <2>1
    <3>2. y = d
      BY <2>2, Zenon
    <3> HIDE DEF m
    <3>3. y \in Seq(S) /\ Len(y) = m - j + 1 /\ \A i \in 1..(m - j + 1) : y[i] = w[j + i - 1]
      BY <3>1, Sliced, ZenonT(60)
    <3>4. QED
      BY <3>2, <3>3, Zenon DEF m
  <2>4. QED
    BY <2>1, <2>3, <2>5, Zenon
<1>9. e \in Seq(S) /\ Len(e) = l - (k + n) /\ \A i \in 1..(l - (k + n)) : e[i] = p[k + n + i]
  <2> DEFINE j == k + n + 1
  <2>1. j \in Nat /\ 1 <= j /\ j <= Len(p) + 1 /\ Len(p) <= Len(p) /\ Len(p) \in Nat
        /\ Len(p) - j + 1 = l - (k + n)
    BY <1>0 DEF l
  <2>5. \A i \in 1..(l - (k + n)) : j + i - 1 = k + n + i
    BY <1>0
  <2>2. e = SubSeq(p, j, Len(p))
    OBVIOUS
  <2> HIDE DEF j, e
  <2>3. e \in Seq(S) /\ Len(e) = Len(p) - j + 1 /\ \A i \in 1..(Len(p) - j + 1) : e[i] = p[j + i - 1]
    BY <2>1, <2>2, Sliced, ZenonT(60)
  <2>4. QED
    BY <2>1, <2>3, <2>5, Zenon
<1> HIDE DEF a, b, c, d, e
<1>10. a \o b = c
  <2>1. /\ a \o b \in Seq(S) /\ Len(a \o b) = k + n
        /\ \A i \in 1..k : (a \o b)[i] = a[i]
        /\ \A i \in 1..n : (a \o b)[k + i] = b[i]
    <3>1. /\ a \o b \in Seq(S) /\ Len(a \o b) = Len(a) + Len(b)
          /\ \A i \in 1..Len(a) : (a \o b)[i] = a[i]
          /\ \A i \in 1..Len(b) : (a \o b)[Len(a) + i] = b[i]
      <4>1. a \in Seq(S) /\ b \in Seq(S)
        BY <1>5, <1>6
      <4>2. QED
        BY <4>1, Concatenated
    <3>2. QED
      BY <1>5, <1>6, <3>1, Zenon
  <2>2. ASSUME NEW i \in 1..(k + n) PROVE (a \o b)[i] = c[i]
    <3>1. CASE i \in 1..k
      BY <1>5, <1>7, <2>1, <3>1, Zenon
    <3>2. CASE i \notin 1..k
      <4>1. i - k \in 1..n /\ k + (i - k) = i /\ i - k \in 1..(l - k)
        BY <1>0, <3>2
      <4>2. (a \o b)[i] = b[i - k]
        BY <2>1, <4>1, Zenon
      <4>3. b[i - k] = q[i - k]
        BY <1>2, <1>6, <4>1, Zenon
      <4>4. q[i - k] = p[i]
        BY <1>1, <4>1, Zenon
      <4>5. QED
        BY <1>7, <4>2, <4>3, <4>4, Zenon
    <3>3. QED
      BY <3>1, <3>2
  <2>3. QED
    BY <1>7, <2>1, <2>2, SameSequence, Zenon
<1>11. d = e \o x
  <2>1. /\ e \o x \in Seq(S) /\ Len(e \o x) = (l - (k + n)) + Len(x)
        /\ \A i \in 1..(l - (k + n)) : (e \o x)[i] = e[i]
        /\ \A i \in 1..Len(x) : (e \o x)[(l - (k + n)) + i] = x[i]
    <3>1. /\ e \o x \in Seq(S) /\ Len(e \o x) = Len(e) + Len(x)
          /\ \A i \in 1..Len(e) : (e \o x)[i] = e[i]
          /\ \A i \in 1..Len(x) : (e \o x)[Len(e) + i] = x[i]
      <4>1. e \in Seq(S) /\ x \in Seq(S)
        BY <1>9
      <4>2. QED
        BY <4>1, Concatenated
    <3>2. QED
      BY <1>9, <3>1, Zenon
  <2>2. Len(d) = Len(e \o x)
    BY <1>2, <1>0, <1>8, <2>1
  <2>3. ASSUME NEW i \in 1..Len(d) PROVE d[i] = (e \o x)[i]
    <3>1. CASE i <= l - (k + n)
      <4>1. i \in 1..(l - (k + n)) /\ n + i \in 1..(l - k) /\ k + (n + i) = k + n + i
            /\ i \in 1..(Len(w) - n)
        BY <1>0, <1>8, <1>2, <3>1
      <4>2. d[i] = w[n + i]
        BY <1>8, <4>1, Zenon
      <4>3. w[n + i] = q[n + i]
        BY <1>2, <4>1, Zenon
      <4>4. q[n + i] = p[k + n + i]
        BY <1>1, <4>1, Zenon
      <4>5. QED
        BY <1>9, <2>1, <4>1, <4>2, <4>3, <4>4, Zenon
    <3>2. CASE ~(i <= l - (k + n))
      <4> DEFINE j == i - (l - (k + n))
      <4>1. j \in 1..Len(x) /\ (l - (k + n)) + j = i /\ n + i = (l - k) + j
            /\ i \in 1..(Len(w) - n)
        BY <1>2, <1>0, <1>8, <3>2
      <4> HIDE DEF j
      <4>2. d[i] = w[(l - k) + j]
        BY <1>8, <4>1, Zenon
      <4>3. w[(l - k) + j] = x[j]
        BY <1>2, <4>1, Zenon
      <4>4. (e \o x)[i] = x[j]
        BY <2>1, <4>1, Zenon
      <4>5. QED
        BY <4>2, <4>3, <4>4
    <3>3. QED
      BY <3>1, <3>2
  <2>4. QED
    BY <1>8, <2>1, <2>2, <2>3, SameSequence, Zenon
<1>12. Left(p, x, k + n) = e \o x
  BY DEF Left, e
<1>13. QED
  BY <1>2, <1>4, <1>6, <1>10, <1>11, <1>12, Zenon DEF ArePieces, a, b, c, d, w

\* A read brings more of the frame, or the rest of it.
LEMMA ComingRead ==
    ASSUME LinkInv, PhaseInv, Read, NEW p, IsFrame(p), NEW x \in Seq(Byte),
           NEW k \in 0..(Len(p) - 1), Coming(p, x, k)
    PROVE  \/ /\ UNCHANGED <<pc, retval, retry, again, purging, history>>
              /\ \E j \in 0..(Len(p) - 1) : Coming(p, x, j)'
           \/ wire' = x /\ Returned("OK", mbus_parse(Memory, p).frame)
<1>1. p \in Seq(Byte) /\ k \in Nat /\ k < Len(p) /\ remaining \in 1..(Len(p) - k)
      /\ wire = Left(p, x, k) /\ buff = SubSeq(p, 1, k)
  BY DEF IsFrame, Coming
<1>0. PICK n \in Nat : n = remaining /\ n >= 1 /\ k + n <= Len(p) /\ n <= Len(p) - k
  BY <1>1
<1>2. /\ wire \in Seq(Byte) /\ n \in 0..Len(wire)
      /\ SubSeq(p, 1, k) \o SubSeq(wire, 1, n) = SubSeq(p, 1, k + n)
      /\ SubSeq(wire, n + 1, Len(wire)) = Left(p, x, k + n)
      /\ Len(SubSeq(wire, 1, n)) = n
  <2>1. n \in Nat /\ k + n <= Len(p)
    BY <1>0
  <2>2. /\ Left(p, x, k) \in Seq(Byte) /\ n \in 0..Len(Left(p, x, k))
        /\ SubSeq(p, 1, k) \o SubSeq(Left(p, x, k), 1, n) = SubSeq(p, 1, k + n)
        /\ SubSeq(Left(p, x, k), n + 1, Len(Left(p, x, k))) = Left(p, x, k + n)
        /\ Len(SubSeq(Left(p, x, k), 1, n)) = n
    <3>1. p \in Seq(Byte) /\ k \in Nat
      BY <1>1
    <3>2. ArePieces(Byte, p, x, k, n)
      BY <2>1, <3>1, Pieces, Zenon
    <3>3. QED
      BY <3>2 DEF ArePieces
  <2>3. QED
    BY <1>1, <2>2, Zenon
<1>3. Arrived = SubSeq(wire, 1, n)
  <2>1. remaining \in 1..Len(wire)
    BY <1>0, <1>2
  <2>2. QED
    BY <1>0, <1>2, <2>1, ArrivedBytes, Zenon
<1>4. wire' = Left(p, x, k + n) /\ buff \o Arrived = SubSeq(p, 1, k + n)
  <2>1. wire' = SubSeq(wire, Len(Arrived) + 1, Len(wire))
    BY ReadCases
  <2>2. QED
    BY <1>1, <1>2, <1>3, <2>1, Zenon
<1> DEFINE r == mbus_parse(Memory, SubSeq(p, 1, k + n))
<1>5. \/ ReadOn(r)
      \/ r.code < 0 /\ Returned("INVALID", r.frame)
      \/ r.code = 0 /\ Returned("OK", r.frame)
  <2>1. r = mbus_parse(Memory, buff \o Arrived)
    BY <1>4
  <2> HIDE DEF r
  <2>2. QED
    BY <2>1, ReadCases, Zenon
<1>6. Memory \in Frames
  BY DEF LinkInv, Memory
<1>7. Len(p) \in Nat /\ k \in Nat /\ n \in Nat /\ k + n \in 1..Len(p)
  BY <1>0, <1>1
<1>8. CASE k + n < Len(p)
  <2>1. k + n \in 1..(Len(p) - 1)
    BY <1>7, <1>8
  <2>2. r.code \in 1..(Len(p) - (k + n))
    BY <1>6, <2>1 DEF IsFrame
  <2>3. ~(r.code < 0) /\ r.code # 0
    BY <1>7, <2>1, <2>2
  <2>4. ReadOn(r)
    BY <1>5, <2>3
  <2> HIDE DEF r
  <2>5. buff' = SubSeq(p, 1, k + n) /\ remaining' = r.code
        /\ UNCHANGED <<pc, retval, retry, again, purging, history>>
    BY <1>4, <2>4 DEF ReadOn
  <2>6. Coming(p, x, k + n)'
    <3>1. (buff' = SubSeq(p, 1, k + n) /\ wire' = Left(p, x, k + n))
          /\ remaining' \in 1..(Len(p) - (k + n))
      BY <1>4, <2>2, <2>5, Zenon
    <3>2. QED
      BY <3>1 DEF Coming
  <2>7. k + n \in 0..(Len(p) - 1)
    BY <1>7, <2>1
  <2> DEFINE j == k + n
  <2>8. Coming(p, x, j)' /\ j \in 0..(Len(p) - 1)
    BY <2>6, <2>7
  <2> HIDE DEF j
  <2>9. \E i \in 0..(Len(p) - 1) : Coming(p, x, i)'
    BY <2>8
  <2>10. QED
    BY <2>5, <2>9, Zenon
<1>9. CASE ~(k + n < Len(p))
  <2>1. k + n = Len(p)
    BY <1>7, <1>9
  <2>2. SubSeq(p, 1, k + n) = p
    BY <1>1, <2>1
  <2>3. Left(p, x, k + n) = x
    <3>1. SubSeq(p, Len(p) + 1, Len(p)) = <<>>
      BY <1>1
    <3>2. <<>> \o x = x
      OBVIOUS
    <3>3. QED
      BY <2>1, <3>1, <3>2, Zenon DEF Left
  <2>4. wire' = x
    BY <1>4, <2>3
  <2>5. r = mbus_parse(Memory, p) /\ mbus_parse(Memory, p).code = 0
    BY <1>6, <2>2 DEF IsFrame
  <2>6. Returned("OK", mbus_parse(Memory, p).frame)
    <3>1. ~(r.code > 0) /\ ~(r.code < 0)
      BY <2>5
    <3>2. ~ReadOn(r)
      BY <3>1 DEF ReadOn
    <3>3. QED
      BY <1>5, <2>5, <3>1, <3>2
  <2>7. QED
    BY <2>4, <2>6
<1>10. QED
  BY <1>8, <1>9

\* While it comes, there is no silence.
LEMMA ComingIsLoud ==
    ASSUME NEW p, IsFrame(p), NEW x \in Seq(Byte), NEW k \in 0..(Len(p) - 1), Coming(p, x, k)
    PROVE  ~Silent
<1>1. p \in Seq(Byte) /\ wire = SubSeq(p, k + 1, Len(p)) \o x
  BY DEF IsFrame, Coming, Left
<1> DEFINE q == SubSeq(p, k + 1, Len(p))
<1>2. q \in Seq(Byte) /\ Len(q) = Len(p) - k /\ Len(p) - k >= 1
  BY <1>1
<1> HIDE DEF q
<1>3. wire # <<>> /\ Head(wire) = q[1]
  <2>1. wire = q \o x
    BY <1>1 DEF q
  <2>2. QED
    BY <1>2, <2>1
<1>4. q[1] \in Byte
  BY <1>2
<1>5. QED
  <2>1. GAP \notin Byte
    BY DEF GAP, Byte
  <2>2. QED
    BY <1>3, <1>4, <2>1, Zenon DEF Silent
-----------------------------------------------------------------------------
\* The sum of bytes is the last value of the recursion that adds them up.
LEMMA SumOfIs ==
    ASSUME NEW b \in Seq(Byte), NEW r, IsValue(r, Len(b), 0, 1, b)
    PROVE  SumOf(b) = r[Len(b)]
<1> DEFINE n == Len(b)
           F(g) == [k \in 0..n |-> IF k = 0 THEN 0 ELSE g[k - 1] + b[k]]
           it == CHOOSE g : g = F(g)
<1>1. SumOf(b) = it[n]
  BY DEF SumOf
<1>2. n \in Nat /\ b \in [1..n -> Nat]
  <2>1. n \in Nat /\ b \in [1..n -> Byte] /\ \A i \in 1..n : b[i] \in Byte
    OBVIOUS
  <2>2. \A i \in 1..n : b[i] \in Nat
    BY <2>1, ByteIsNat, Zenon
  <2>3. QED
    BY <2>1, <2>2
<1>3. IsValue(r, n, 0, 1, b)
  OBVIOUS
<1> HIDE DEF n
<1>4. \A i \in 1..n : i \in 0..n /\ i - 1 \in 0..n /\ i # 0
  BY <1>2
<1>5. r = F(r)
  <2>1. r \in [0..n -> Nat] /\ r[0] = 0
    BY <1>3 DEF IsValue
  <2>2. ASSUME NEW k \in 0..n, k # 0 PROVE r[k] = r[k - 1] + b[k]
    <3>1. k \in 1..n
      BY <1>2, <2>2
    <3>2. r[k] = b[k] + 1 * r[k - 1]
      BY <1>3, <3>1 DEF IsValue
    <3>3. b[k] \in Nat /\ r[k - 1] \in Nat
      BY <1>2, <1>4, <2>1, <3>1
    <3>4. QED
      BY <3>2, <3>3
  <2>3. \A k \in 0..n : r[k] = IF k = 0 THEN 0 ELSE r[k - 1] + b[k]
    BY <2>1, <2>2
  <2>4. QED
    BY <2>1, <2>3
<1> HIDE DEF F
<1>6. it = F(it)
  BY <1>5, Zenon
<1> HIDE DEF it
<1>7. it[0] = r[0]
  BY <1>2, <1>5, <1>6 DEF F
<1>8. ASSUME NEW i \in 1..n, it[i - 1] = r[i - 1] PROVE it[i] = r[i]
  <2>1. it[i] = it[i - 1] + b[i] /\ r[i] = r[i - 1] + b[i]
    BY <1>4, <1>5, <1>6 DEF F
  <2>2. QED
    BY <1>8, <2>1, Zenon
<1>9. it[n] = r[n]
  BY <1>2, <1>7, <1>8, SameSteps
<1>10. QED
  BY <1>1, <1>9 DEF n

\* There is such a recursion.
LEMMA SumExists ==
    ASSUME NEW b \in Seq(Byte)
    PROVE  \E r : IsValue(r, Len(b), 0, 1, b) /\ SumOf(b) = r[Len(b)]
<1>1. Len(b) \in Nat /\ b \in [1..Len(b) -> Nat]
  <2>1. Len(b) \in Nat /\ b \in [1..Len(b) -> Byte] /\ \A i \in 1..Len(b) : b[i] \in Byte
    OBVIOUS
  <2>2. \A i \in 1..Len(b) : b[i] \in Nat
    BY <2>1, ByteIsNat, Zenon
  <2>3. QED
    BY <2>1, <2>2
<1>2. PICK r : IsValue(r, Len(b), 0, 1, b)
  BY <1>1, ValueExists, 0 \in Nat, 1 \in Nat, Zenon
<1>3. QED
  BY <1>2, SumOfIs

\* Three bytes more at the front add to the sum.
LEMMA SumOfThree ==
    ASSUME NEW c \in Seq(Byte), NEW s \in Seq(Byte), Len(c) = 3 + Len(s),
           \A i \in 1..Len(s) : c[3 + i] = s[i]
    PROVE  SumOf(c) = c[1] + c[2] + c[3] + SumOf(s)
<1> DEFINE n == Len(s)
<1>1. n \in Nat /\ Len(c) = 3 + n
  OBVIOUS
<1>2. PICK r : IsValue(r, Len(c), 0, 1, c) /\ SumOf(c) = r[Len(c)]
  BY SumExists
<1>3. PICK q : IsValue(q, n, 0, 1, s) /\ SumOf(s) = q[n]
  BY SumExists
<1>4. \A i \in 1..n : c[3 + i] = s[i]
  OBVIOUS
<1>5. c[1] \in Byte /\ c[2] \in Byte /\ c[3] \in Byte
  BY <1>1
<1>6. c[1] \in Nat /\ c[2] \in Nat /\ c[3] \in Nat
  BY <1>5, ByteIsNat, Zenon
<1>7. \A i \in 1..n : s[i] \in Nat
  <2>1. \A i \in 1..n : s[i] \in Byte
    OBVIOUS
  <2>2. QED
    BY <2>1, ByteIsNat, Zenon
<1> HIDE DEF n
<1> DEFINE m == 3 + n
<1>8. r \in [0..m -> Nat] /\ r[0] = 0 /\ \A i \in 1..m : r[i] = c[i] + 1 * r[i - 1]
  BY <1>1, <1>2 DEF IsValue
<1>9. q \in [0..n -> Nat] /\ q[0] = 0 /\ \A i \in 1..n : q[i] = s[i] + 1 * q[i - 1]
  BY <1>3 DEF IsValue
<1>10. r[3] = c[1] + c[2] + c[3]
  <2>1. r[1] = c[1] + 1 * r[0]
    BY <1>1, <1>8
  <2>2. r[2] = c[2] + 1 * r[1]
    BY <1>1, <1>8
  <2>3. r[3] = c[3] + 1 * r[2]
    BY <1>1, <1>8
  <2>4. r[0] = 0
    BY <1>8
  <2>5. QED
    BY <1>6, <2>1, <2>2, <2>3, <2>4
<1> DEFINE T == {i \in 0..n : r[3 + i] = r[3] + q[i]}
<1>11. 0 \in T
  <2>1. r[3] \in Nat /\ q[0] = 0 /\ 0 \in 0..n
    BY <1>1, <1>6, <1>9, <1>10
  <2>2. QED
    BY <2>1
<1>12. \A i \in 1..n : i - 1 \in T => i \in T
  <2> SUFFICES ASSUME NEW i \in 1..n, i - 1 \in T PROVE i \in T
    OBVIOUS
  <2>1. /\ 3 + i \in 1..m /\ (3 + i) - 1 = 3 + (i - 1) /\ i \in 0..n /\ i - 1 \in 0..n
        /\ 3 + (i - 1) \in 0..m
    BY <1>1
  <2>2. r[3 + i] = c[3 + i] + 1 * r[3 + (i - 1)]
    BY <1>8, <2>1
  <2>3. q[i] = s[i] + 1 * q[i - 1]
    BY <1>9
  <2>4. r[3 + (i - 1)] = r[3] + q[i - 1]
    OBVIOUS
  <2>5. q[i - 1] \in Nat /\ r[3] \in Nat
    <3>1. q[i - 1] \in Nat
      BY <1>9, <2>1
    <3>2. r[3] \in Nat
      BY <1>6, <1>10
    <3>3. QED
      BY <3>1, <3>2
  <2>6. s[i] \in Nat /\ c[3 + i] = s[i]
    BY <1>4, <1>7
  <2>7. r[3 + i] = r[3] + q[i]
    BY <2>2, <2>3, <2>4, <2>5, <2>6
  <2>8. QED
    BY <2>1, <2>7
<1> HIDE DEF T
<1>13. n \in T
  BY <1>1, <1>11, <1>12, Upto, n \in 0..n
<1>14. r[m] = r[3] + q[n]
  BY <1>13 DEF T
<1>15. QED
  BY <1>1, <1>2, <1>3, <1>10, <1>14

\* The bytes of a telegram.
IsTelegram(b, t) ==
    LET n == Len(t.data) IN
    /\ b \in Seq(Byte) /\ n \in 0..252 /\ Len(b) = n + 9
    /\ b[1] = LONG_START /\ b[2] = n + 3 /\ b[3] = n + 3 /\ b[4] = LONG_START
    /\ b[5] = RSP_UD /\ b[6] = Address /\ b[7] = t.ci
    /\ \A i \in 1..n : b[7 + i] = t.data[i]
    /\ b[n + 8] = (RSP_UD + Address + t.ci + SumOf(t.data)) % 256 /\ b[n + 9] = STOP

\* The bytes of a telegram, one by one.
LEMMA TelegramIs ==
    ASSUME NEW t \in Telegrams
    PROVE  IsTelegram(TelegramBytes(t), t)
<1> DEFINE h == <<RSP_UD, Address, t.ci>>
           d == t.data
           n == Len(d)
           c == h \o d
           l == Len(c)
           start == <<LONG_START, l, l, LONG_START>>
           sum == SumOf(c) % 256
           end == <<sum, STOP>>
<1>1. t.ci \in Byte /\ d \in Seq(Byte) /\ n \in Nat /\ n <= 252
  BY DEF Telegrams, MaxData
<1>2. RSP_UD \in Byte /\ Address \in Byte /\ LONG_START \in Byte /\ STOP \in Byte
  BY DEF RSP_UD, Address, LONG_START, STOP, Byte
<1>3. h \in Seq(Byte) /\ Len(h) = 3 /\ h[1] = RSP_UD /\ h[2] = Address /\ h[3] = t.ci
  BY <1>1, <1>2
<1>10. TelegramBytes(t) = (start \o c) \o end
  BY Zenon DEF TelegramBytes
<1> HIDE DEF h, d
<1>4. /\ c \in Seq(Byte) /\ Len(c) = Len(h) + Len(d)
      /\ \A i \in 1..Len(h) : c[i] = h[i]
      /\ \A i \in 1..Len(d) : c[Len(h) + i] = d[i]
  <2>1. h \in Seq(Byte) /\ d \in Seq(Byte)
    BY <1>1, <1>3
  <2>2. QED
    BY <2>1, Concatenated
<1> HIDE DEF c
<1>5. /\ l = n + 3 /\ c[1] = RSP_UD /\ c[2] = Address /\ c[3] = t.ci
      /\ \A i \in 1..n : c[3 + i] = d[i]
  <2>1. Len(h) = 3 /\ 1 \in 1..Len(h) /\ 2 \in 1..Len(h) /\ 3 \in 1..Len(h)
    BY <1>3
  <2>2. c[1] = h[1] /\ c[2] = h[2] /\ c[3] = h[3]
    BY <1>4, <2>1, Zenon
  <2>3. \A i \in 1..n : c[3 + i] = d[i]
    BY <1>4, <2>1, Zenon
  <2>4. l = n + 3
    BY <1>1, <1>4, <2>1
  <2>5. QED
    BY <1>3, <2>2, <2>3, <2>4
<1>6. SumOf(c) = RSP_UD + Address + t.ci + SumOf(d)
  <2>1. c \in Seq(Byte) /\ d \in Seq(Byte)
    BY <1>1, <1>4
  <2>2. Len(c) = 3 + Len(d)
    BY <1>1, <1>5
  <2>3. SumOf(c) = c[1] + c[2] + c[3] + SumOf(d)
    BY <1>5, <2>1, <2>2, SumOfThree, Zenon
  <2>4. QED
    BY <1>5, <2>3
<1>7. sum = (RSP_UD + Address + t.ci + SumOf(d)) % 256 /\ sum \in Byte
  <2>1. SumOf(c) \in Nat
    BY <1>4, SumOfType
  <2>2. \A k \in Nat : k % 256 \in Byte
    BY DEF Byte
  <2>3. QED
    BY <1>6, <2>1, <2>2
<1> HIDE DEF sum
<1>8. l \in Byte
  <2> HIDE DEF l, n
  <2>1. l \in 0..255
    BY <1>1, <1>5
  <2>2. QED
    BY <2>1, Zenon DEF Byte
<1> HIDE DEF l, n
<1>9. /\ start \in Seq(Byte) /\ Len(start) = 4 /\ start[1] = LONG_START /\ start[2] = l
      /\ start[3] = l /\ start[4] = LONG_START
      /\ end \in Seq(Byte) /\ Len(end) = 2 /\ end[1] = sum /\ end[2] = STOP
  BY <1>2, <1>7, <1>8
<1> HIDE DEF start, end
<1> DEFINE s == start \o c
<1>11. /\ s \in Seq(Byte) /\ Len(s) = Len(start) + Len(c)
       /\ \A i \in 1..Len(start) : s[i] = start[i]
       /\ \A i \in 1..Len(c) : s[Len(start) + i] = c[i]
  <2>1. start \in Seq(Byte) /\ c \in Seq(Byte)
    BY <1>4, <1>9
  <2>2. QED
    BY <2>1, Concatenated
<1> HIDE DEF s
<1> DEFINE b == s \o end
<1>12. /\ b \in Seq(Byte) /\ Len(b) = Len(s) + Len(end)
       /\ \A i \in 1..Len(s) : b[i] = s[i]
       /\ \A i \in 1..Len(end) : b[Len(s) + i] = end[i]
  <2>1. s \in Seq(Byte) /\ end \in Seq(Byte)
    BY <1>9, <1>11
  <2>2. QED
    BY <2>1, Concatenated
<1> HIDE DEF b
<1>13. Len(start) = 4 /\ Len(end) = 2 /\ Len(c) = n + 3 /\ Len(s) = n + 7 /\ Len(b) = n + 9
  <2>1. Len(start) = 4 /\ Len(end) = 2 /\ Len(c) = n + 3
    BY <1>5, <1>9 DEF l
  <2>2. Len(s) = n + 7
    BY <1>1, <1>11, <2>1 DEF n
  <2>3. QED
    BY <1>1, <1>12, <2>1, <2>2 DEF n
<1>14. \A i \in 1..4 : b[i] = start[i]
  <2>1. \A i \in 1..4 : i \in 1..Len(s) /\ i \in 1..Len(start)
    BY <1>1, <1>13 DEF n
  <2>2. QED
    BY <1>11, <1>12, <2>1, Zenon
<1>15. \A i \in 1..(n + 3) : b[4 + i] = c[i]
  <2>1. \A i \in 1..(n + 3) : 4 + i \in 1..Len(s) /\ i \in 1..Len(c)
    BY <1>1, <1>13 DEF n
  <2>2. \A i \in 1..(n + 3) : s[4 + i] = c[i]
    BY <1>11, <1>13, <2>1, Zenon
  <2>3. QED
    BY <1>12, <2>1, <2>2, Zenon
<1>16. b[1] = LONG_START /\ b[2] = l /\ b[3] = l /\ b[4] = LONG_START
  BY <1>9, <1>14
<1>17. b[5] = RSP_UD /\ b[6] = Address /\ b[7] = t.ci
  <2>1. 1 \in 1..(n + 3) /\ 2 \in 1..(n + 3) /\ 3 \in 1..(n + 3)
        /\ 4 + 1 = 5 /\ 4 + 2 = 6 /\ 4 + 3 = 7
    BY <1>1 DEF n
  <2>2. b[4 + 1] = c[1] /\ b[4 + 2] = c[2] /\ b[4 + 3] = c[3]
    BY <1>15, <2>1, Zenon
  <2>3. QED
    BY <1>5, <2>1, <2>2
<1>18. \A i \in 1..n : b[7 + i] = d[i]
  <2>1. \A i \in 1..n : 3 + i \in 1..(n + 3) /\ 4 + (3 + i) = 7 + i
    BY <1>1 DEF n
  <2>2. \A i \in 1..n : b[4 + (3 + i)] = c[3 + i]
    BY <1>15, <2>1, Zenon
  <2> SUFFICES ASSUME NEW i \in 1..n PROVE b[7 + i] = d[i]
    OBVIOUS
  <2>3. QED
    BY <1>5, <2>1, <2>2
<1>19. b[n + 8] = sum /\ b[n + 9] = STOP
  <2>1. 1 \in 1..2 /\ 2 \in 1..2 /\ (n + 7) + 1 = n + 8 /\ (n + 7) + 2 = n + 9
    BY <1>1 DEF n
  <2>2. b[(n + 7) + 1] = end[1] /\ b[(n + 7) + 2] = end[2]
    BY <1>12, <1>13, <2>1, Zenon
  <2>3. QED
    BY <1>9, <2>1, <2>2
<1>20. TelegramBytes(t) = b
  BY <1>10 DEF b, s
<1>21. n \in 0..252 /\ n = Len(t.data) /\ l = n + 3
  <2>1. n \in 0..252
    BY <1>1
  <2>2. n = Len(t.data)
    BY DEF n, d
  <2>3. QED
    BY <1>5, <2>1, <2>2
<1>22. sum = (RSP_UD + Address + t.ci + SumOf(t.data)) % 256 /\ \A i \in 1..n : b[7 + i] = t.data[i]
  BY <1>7, <1>18 DEF d
<1>23. b \in Seq(Byte) /\ Len(b) = n + 9
  BY <1>12, <1>13
<1>24. IsTelegram(b, t)
  BY <1>16, <1>17, <1>19, <1>21, <1>22, <1>23, Zenon DEF IsTelegram
<1>25. QED
  BY <1>20, <1>24
-----------------------------------------------------------------------------
\* What a telegram is parsed as.
AnswerFrame(t) ==
    [type |-> IF t.data = <<>> THEN "CONTROL" ELSE "LONG",
     start1 |-> LONG_START, length1 |-> Len(t.data) + 3, length2 |-> Len(t.data) + 3,
     start2 |-> LONG_START, control |-> RSP_UD, address |-> Address,
     control_information |-> t.ci, data |-> t.data,
     checksum |-> (RSP_UD + Address + t.ci + SumOf(t.data)) % 256, stop |-> STOP]

\* The frame of a telegram passes mbus_frame_verify.
LEMMA AnswerVerified ==
    ASSUME NEW t \in Telegrams
    PROVE  mbus_frame_verify(AnswerFrame(t))
<1> DEFINE g == AnswerFrame(t)
           n == Len(t.data)
<1>1. t.data \in Seq(Byte) /\ n \in Nat /\ n <= 252 /\ t.ci \in Byte
  BY DEF Telegrams, MaxData
<1>2. /\ g.start1 = LONG_START /\ g.start2 = LONG_START /\ g.control = RSP_UD
      /\ g.length1 = n + 3 /\ g.length2 = n + 3 /\ g.stop = STOP /\ g.data = t.data
      /\ g.address = Address /\ g.control_information = t.ci
      /\ g.checksum = (RSP_UD + Address + t.ci + SumOf(t.data)) % 256
      /\ g.type = IF t.data = <<>> THEN "CONTROL" ELSE "LONG"
  BY DEF AnswerFrame
<1>3. RSP_UD \in LongControls
  BY DEF LongControls
<1> HIDE DEF g
<1>4. CASE t.data = <<>>
  <2>1. n = 0 /\ g.type = "CONTROL"
    BY <1>2, <1>4
  <2>2. SumOf(t.data) = 0
    <3>1. IsValue([i \in 0..0 |-> 0], 0, 0, 1, <<>>)
      <4>1. 1..0 = {} /\ 0 \in 0..0
        OBVIOUS
      <4>2. QED
        BY <4>1 DEF IsValue
    <3>2. <<>> \in Seq(Byte) /\ Len(<<>>) = 0
      OBVIOUS
    <3> DEFINE r == [i \in 0..0 |-> 0]
    <3>3. r[0] = 0
      OBVIOUS
    <3> HIDE DEF r
    <3>4. IsValue(r, Len(<<>>), 0, 1, <<>>)
      BY <3>1, <3>2 DEF r
    <3>5. SumOf(<<>>) = r[Len(<<>>)]
      BY <3>2, <3>4, SumOfIs, Zenon
    <3>6. QED
      BY <1>4, <3>2, <3>3, <3>5, Zenon
  <2>3. t.ci \in Nat /\ RSP_UD \in Nat /\ Address \in Nat
    BY <1>1, ByteIsNat DEF RSP_UD, Address
  <2>4. calc_checksum(g) = (g.control + g.address + g.control_information) % 256 /\ calc_length(g) = 3
    BY <2>1 DEF calc_checksum, calc_length
  <2>5. g.checksum = calc_checksum(g)
    BY <1>2, <2>2, <2>3, <2>4
  <2>6. g.length1 = 3
    BY <1>2, <2>1
  <2>7. g.length1 = calc_length(g)
    BY <2>4, <2>6
  <2>8. g.type \in {"CONTROL", "LONG"}
    BY <2>1
  <2>9. mbus_frame_verify(g)
    BY <1>2, <1>3, <2>5, <2>7, <2>8, Zenon DEF mbus_frame_verify
  <2>10. QED
    BY <2>9 DEF g
<1>5. CASE t.data # <<>>
  <2>1. g.type = "LONG"
    BY <1>2, <1>5
  <2>2. calc_checksum(g) = (g.control + g.address + g.control_information + SumOf(g.data)) % 256
        /\ calc_length(g) = (Len(g.data) + 3) % 256
    BY <2>1 DEF calc_checksum, calc_length
  <2>3. (n + 3) % 256 = n + 3
    <3> HIDE DEF n
    <3>1. \A k \in 0..252 : (k + 3) % 256 = k + 3
      OBVIOUS
    <3>2. n \in 0..252
      BY <1>1
    <3>3. QED
      BY <3>1, <3>2
  <2>4. g.length1 = calc_length(g) /\ g.checksum = calc_checksum(g)
    BY <1>2, <2>2, <2>3, Zenon
  <2>5. g.type \in {"CONTROL", "LONG"}
    BY <2>1
  <2>6. mbus_frame_verify(g)
    BY <1>2, <1>3, <2>4, <2>5, Zenon DEF mbus_frame_verify
  <2>7. QED
    BY <2>6 DEF g
<1>6. QED
  BY <1>4, <1>5

\* A telegram that has come in whole is accepted.
LEMMA TelegramParsed ==
    ASSUME NEW f \in Frames, NEW t \in Telegrams, NEW b, IsTelegram(b, t)
    PROVE  mbus_parse(f, b) = Parsed(0, AnswerFrame(t))
<1> DEFINE n == Len(t.data)
           w == 6 + b[2]
           g == [type |-> IF b[2] = 3 THEN "CONTROL" ELSE "LONG",
                 start1 |-> b[1], length1 |-> b[2], length2 |-> b[3], start2 |-> b[4],
                 control |-> b[5], address |-> b[6], control_information |-> b[7],
                 data |-> SubSeq(b, 8, w - 2),
                 checksum |-> b[w - 1], stop |-> b[w]]
           h == [f EXCEPT !.start1 = b[1], !.length1 = b[2], !.length2 = b[3]]
<1>1. /\ b \in Seq(Byte) /\ n \in 0..252 /\ Len(b) = n + 9
      /\ b[1] = LONG_START /\ b[2] = n + 3 /\ b[3] = n + 3 /\ b[4] = LONG_START
      /\ b[5] = RSP_UD /\ b[6] = Address /\ b[7] = t.ci
      /\ \A i \in 1..n : b[7 + i] = t.data[i]
      /\ b[n + 8] = (RSP_UD + Address + t.ci + SumOf(t.data)) % 256 /\ b[n + 9] = STOP
  BY DEF IsTelegram
<1>2. t.data \in Seq(Byte)
  BY DEF Telegrams
<1>3. w = n + 9 /\ w - 1 = n + 8 /\ w - 2 = n + 7 /\ n \in Nat
  BY <1>1
<1>4. SubSeq(b, 8, w - 2) = t.data
  <2> DEFINE m == n + 7
             s == SubSeq(b, 8, m)
  <2>1. m \in Nat /\ 8 \in Nat /\ 1 <= 8 /\ 8 <= m + 1 /\ m <= Len(b) /\ m - 8 + 1 = n /\ w - 2 = m
    BY <1>1, <1>3
  <2>2. b \in Seq(Byte)
    BY <1>1
  <2> HIDE DEF m, w, n
  <2>9. m \in Nat /\ 8 \in Nat /\ 1 <= 8 /\ 8 <= m + 1 /\ m <= Len(b)
    BY <2>1
  <2>3. s \in Seq(Byte) /\ Len(s) = m - 8 + 1 /\ \A k \in 1..(m - 8 + 1) : s[k] = b[8 + k - 1]
    BY <2>2, <2>9, Sliced, ZenonT(60)
  <2> HIDE DEF s
  <2>4. Len(s) = n /\ \A k \in 1..n : s[k] = b[8 + k - 1]
    BY <2>1, <2>3, Zenon
  <2>5. \A k \in 1..n : s[k] = t.data[k]
    <3> SUFFICES ASSUME NEW k \in 1..n PROVE s[k] = t.data[k]
      OBVIOUS
    <3>1. 8 + k - 1 = 7 + k
      BY <1>3
    <3>2. b[7 + k] = t.data[k]
      BY <1>1, Zenon DEF n
    <3>3. s[k] = b[8 + k - 1]
      BY <2>4, Zenon
    <3>4. QED
      BY <3>1, <3>2, <3>3, Zenon
  <2>6. Len(s) = Len(t.data) /\ \A k \in 1..Len(s) : s[k] = t.data[k]
    BY <2>4, <2>5, Zenon DEF n
  <2>7. s = t.data
    BY <1>2, <2>3, <2>6, SameSequence, Zenon
  <2>8. QED
    BY <2>1, <2>7 DEF s
<1>5. (IF b[2] = 3 THEN "CONTROL" ELSE "LONG") = IF t.data = <<>> THEN "CONTROL" ELSE "LONG"
  <2>1. (t.data = <<>>) <=> n = 0
    BY <1>2
  <2>2. b[2] = 3 <=> n = 0
    <3>1. b[2] = n + 3 /\ n \in Nat
      BY <1>1, <1>3
    <3> HIDE DEF n
    <3>2. QED
      BY <3>1
  <2>3. QED
    BY <2>1, <2>2
<1>6. g = AnswerFrame(t)
  BY <1>1, <1>3, <1>4, <1>5, Zenon DEF AnswerFrame
<1> HIDE DEF g, h
<1>7. mbus_parse(f, b) = ParseLong(f, b)
  <2>1. b # <<>>
    BY <1>1
  <2>2. QED
    BY <1>1, <2>1 DEF mbus_parse, ACK_START, SHORT_START, LONG_START
<1>8. ParseLong(f, b) = Verified(g)
  <2>1. ~(Len(b) < 3) /\ ~(b[2] < 3 \/ b[2] # b[3] \/ Len(b) > 6 + b[2]) /\ ~(Len(b) < 6 + b[2])
    BY <1>1, <1>3
  <2>2. QED
    BY <2>1, Zenon DEF ParseLong, g
<1>9. mbus_frame_verify(g)
  BY <1>6, AnswerVerified
<1>10. QED
  BY <1>6, <1>7, <1>8, <1>9 DEF Verified

\* So a telegram is a frame.
LEMMA TelegramIsFrame ==
    ASSUME NEW t \in Telegrams
    PROVE  /\ IsFrame(TelegramBytes(t))
           /\ \A f \in Frames : mbus_parse(f, TelegramBytes(t)) = Parsed(0, AnswerFrame(t))
<1> DEFINE b == TelegramBytes(t)
           n == Len(t.data)
<1>1. IsTelegram(b, t)
  BY TelegramIs
<1> HIDE DEF b
<1>2. /\ b \in Seq(Byte) /\ n \in 0..252 /\ Len(b) = n + 9
      /\ b[1] = LONG_START /\ b[2] = n + 3 /\ b[3] = n + 3
  BY <1>1 DEF IsTelegram
<1>3. \A f \in Frames : mbus_parse(f, b) = Parsed(0, AnswerFrame(t))
  BY <1>1, TelegramParsed
<1>4. \A f \in Frames : mbus_parse(f, b).code = 0
  BY <1>3 DEF Parsed
<1>5. ASSUME NEW f \in Frames, NEW k \in 1..(Len(b) - 1)
      PROVE  mbus_parse(f, SubSeq(b, 1, k)).code \in 1..(Len(b) - k)
  <2> HIDE DEF n
  <2>1. k \in 1..(n + 8)
    BY <1>2
  <2>2. mbus_parse(f, SubSeq(b, 1, k)).code \in 1..((n + 9) - k)
    BY <1>2, <2>1, PrefixAsksFor, Zenon
  <2>3. QED
    BY <1>2, <2>2
<1>6. b # <<>>
  BY <1>2
<1>7. QED
  BY <1>2, <1>3, <1>4, <1>5, <1>6 DEF IsFrame, b
-----------------------------------------------------------------------------
\* The echo of a request, and what it is parsed as.
RequestBytes(c) == <<SHORT_START, REQ_UD2 + c, Address, REQ_UD2 + c + Address, STOP>>

\* The echo of a line is the request.
LEMMA EchoIs ==
    ASSUME fcb \in {0, FCB}, handle.echo = TRUE
    PROVE  Echo = RequestBytes(fcb)
<1> DEFINE g == RequestFrame
<1>1. g.type = "SHORT" /\ g.start1 = SHORT_START /\ g.control = REQ_UD2 + fcb
      /\ g.address = Address /\ g.stop = STOP
  BY DEF RequestFrame, mbus_frame_new
<1> HIDE DEF g
<1>2. calc_checksum(g) = REQ_UD2 + fcb + Address
  <2>1. calc_checksum(g) = (REQ_UD2 + fcb + Address) % 256
    BY <1>1 DEF calc_checksum
  <2>2. QED
    BY <2>1 DEF REQ_UD2, FCB, Address
<1>3. mbus_frame_pack(g) = RequestBytes(fcb)
  BY <1>1, <1>2 DEF mbus_frame_pack, RequestBytes
<1>4. QED
  BY <1>3 DEF Echo, g

\* A request is a frame of five bytes, from the master to the slave.
LEMMA RequestIsFrame ==
    ASSUME NEW c \in {0, FCB}
    PROVE  /\ IsFrame(RequestBytes(c))
           /\ \A f \in Frames : mbus_frame_direction(mbus_parse(f, RequestBytes(c)).frame) = "M2S"
           /\ \A f \in Frames : mbus_parse(f, RequestBytes(c)).frame.type = "SHORT"
<1> DEFINE b == RequestBytes(c)
<1>1. /\ b \in Seq(Byte) /\ Len(b) = 5 /\ b[1] = SHORT_START /\ b[2] = REQ_UD2 + c
      /\ b[3] = Address /\ b[4] = REQ_UD2 + c + Address /\ b[5] = STOP
  BY DEF RequestBytes, SHORT_START, REQ_UD2, Address, STOP, Byte, FCB
<1> HIDE DEF b
<1>2. ASSUME NEW f \in Frames
      PROVE  /\ mbus_parse(f, b).code = 0
             /\ mbus_frame_direction(mbus_parse(f, b).frame) = "M2S"
             /\ mbus_parse(f, b).frame.type = "SHORT"
  <2> DEFINE g == [f EXCEPT !.type = "SHORT", !.start1 = b[1], !.control = b[2],
                            !.address = b[3], !.checksum = b[4], !.stop = b[5]]
  <2>1. /\ g.type = "SHORT" /\ g.start1 = SHORT_START /\ g.control = REQ_UD2 + c
        /\ g.address = Address /\ g.checksum = REQ_UD2 + c + Address /\ g.stop = STOP
    BY <1>1 DEF Frames
  <2>2. mbus_parse(f, b) = ParseShort(f, b)
    <3>1. b # <<>> /\ b[1] # ACK_START /\ b[1] = SHORT_START
      BY <1>1 DEF ACK_START, SHORT_START
    <3>2. SHORT_START # LONG_START
      BY DEF SHORT_START, LONG_START
    <3>3. QED
      BY <3>1, <3>2 DEF mbus_parse
  <2>3. ParseShort(f, b) = Verified(g)
    BY <1>1 DEF ParseShort
  <2> HIDE DEF g
  <2>4. calc_checksum(g) = REQ_UD2 + c + Address
    <3>1. calc_checksum(g) = (REQ_UD2 + c + Address) % 256
      BY <2>1 DEF calc_checksum
    <3>2. QED
      BY <3>1 DEF REQ_UD2, FCB, Address
  <2>5. REQ_UD2 + c \in ShortControls
    BY DEF ShortControls, REQ_UD2, FCB
  <2>6. mbus_frame_verify(g)
    BY <2>1, <2>4, <2>5 DEF mbus_frame_verify
  <2>7. mbus_parse(f, b) = Parsed(0, g)
    BY <2>2, <2>3, <2>6 DEF Verified
  <2>8. Has(REQ_UD2 + c, DIR_M2S)
    BY DEF Has, REQ_UD2, FCB, DIR_M2S
  <2>9. mbus_frame_direction(g) = "M2S"
    BY <2>1, <2>8 DEF mbus_frame_direction
  <2>10. QED
    BY <2>1, <2>7, <2>9 DEF Parsed
<1>3. ASSUME NEW f \in Frames, NEW k \in 1..4
      PROVE  mbus_parse(f, SubSeq(b, 1, k)).code \in 1..(5 - k)
  <2> DEFINE s == SubSeq(b, 1, k)
  <2>1. s \in Seq(Byte) /\ Len(s) = k /\ s[1] = b[1]
    <3>1. b \in Seq(Byte)
      BY <1>1
    <3>2. k \in Nat /\ 1 \in Nat /\ 1 <= 1 /\ 1 <= k + 1 /\ k <= Len(b)
      BY <1>1
    <3>3. s \in Seq(Byte) /\ Len(s) = k - 1 + 1 /\ \A i \in 1..(k - 1 + 1) : s[i] = b[1 + i - 1]
      BY <3>1, <3>2, Sliced, ZenonT(60)
    <3>4. k - 1 + 1 = k /\ 1 \in 1..(k - 1 + 1) /\ 1 + 1 - 1 = 1
      OBVIOUS
    <3> HIDE DEF s
    <3>5. QED
      BY <3>3, <3>4
  <2> HIDE DEF s
  <2>2. mbus_parse(f, s) = ParseShort(f, s)
    <3>1. s # <<>> /\ s[1] # ACK_START /\ s[1] = SHORT_START
      BY <1>1, <2>1 DEF ACK_START, SHORT_START
    <3>2. SHORT_START # LONG_START
      BY DEF SHORT_START, LONG_START
    <3>3. QED
      BY <3>1, <3>2 DEF mbus_parse
  <2>3. ParseShort(f, s) = Parsed(5 - k, f)
    BY <2>1 DEF ParseShort
  <2>4. mbus_parse(f, s).code = 5 - k
    BY <2>2, <2>3 DEF Parsed
  <2>5. 5 - k \in 1..(5 - k)
    OBVIOUS
  <2>6. QED
    BY <2>4, <2>5 DEF s
<1>4. b # <<>> /\ Len(b) - 1 = 4
  BY <1>1
<1>5. QED
  BY <1>1, <1>2, <1>3, <1>4 DEF IsFrame, b
-----------------------------------------------------------------------------
(***************************************************************************)
(* What the request has collected, and how far the meter is.               *)
(***************************************************************************)
Collected ==
    /\ Len(frames) <= Len(meter.telegrams)
    /\ \A i \in 1..Len(frames) :
          /\ frames[i].control_information = meter.telegrams[i].ci
          /\ frames[i].data = meter.telegrams[i].data

\* The meter has not been asked for the next telegram: nothing but the echo of
\* the request can come in.
NotAsked ==
    /\ meter.at = Len(frames) /\ meter.fcb # fcb /\ Len(frames) < Len(meter.telegrams)
    /\ purging = NoPurge
    /\ \/ pc = "send" /\ wire = <<>>
       \/ pc = "read" /\ wire = <<>> /\ buff = <<>>
       \/ /\ pc = "read" /\ handle.echo = TRUE /\ ~again
          /\ \E k \in 0..4 : Coming(RequestBytes(fcb), <<>>, k)

\* It has, and repeats that telegram until the request goes on.
WasAsked == meter.at = Len(frames) + 1 /\ meter.fcb = fcb
NoTelegrams == meter.telegrams = <<>> /\ frames = <<>>

ExactInv ==
    Quiet =>
        /\ Collected
        /\ pc = "process" => wire = <<>>
        /\ pc = "done" /\ retval = 0 => Len(frames) = Min({MaxFrames, Len(meter.telegrams)})
        /\ pc # "done" => /\ Len(frames) < MaxFrames
                          /\ NotAsked \/ WasAsked \/ NoTelegrams

\* The end of a receive: of the request with an error, or of a purge.
LEMMA ReturnedEnds ==
    ASSUME PhaseInv, pc = "read", NEW f, NEW result \in Results, Returned(result, f)
    PROVE  /\ Quiet' => Quiet
           /\ pc' = "done" => retval' = 1
           /\ pc' = "process" /\ Quiet' => wire' = <<>>
<1>1. ReceivesAgain(f) \/ IsAnswered(result, f) \/ PurgesOn \/ PurgeEnds
  BY ReturnedCases
<1>2. misread \in BOOLEAN /\ strayed \in BOOLEAN /\ purging \in {NoPurge, "send", "process"}
  BY DEF PhaseInv
<1>3. CASE ReceivesAgain(f)
  BY <1>3 DEF ReceivesAgain, history, Quiet
<1>4. CASE IsAnswered(result, f)
  <2>1. strayed' = strayed /\ (misread' = misread \/ misread' = (misread \/ f.type = "ACK"))
    BY <1>4 DEF IsAnswered
  <2>2. pc' \in {"read", "send", "done"} /\ (pc' = "done" => retval' = 1)
    BY <1>4 DEF IsAnswered
  <2>3. Quiet' => Quiet
    BY <2>1, Zenon DEF Quiet
  <2>4. pc' # "process"
    BY <2>2
  <2>5. QED
    BY <2>2, <2>3, <2>4, Zenon
<1>5. CASE PurgesOn
  BY <1>5 DEF PurgesOn, Quiet
<1>6. CASE PurgeEnds
  <2>1. misread' = misread /\ strayed' = (strayed \/ wire' # <<>>) /\ pc' \in {"send", "process"}
    BY <1>2, <1>6 DEF PurgeEnds
  <2>2. QED
    BY <2>1 DEF Quiet
<1>7. QED
  BY <1>1, <1>3, <1>4, <1>5, <1>6

\* A frame at the start of the line is a frame that comes in.
LEMMA ComingStarts ==
    ASSUME NEW p \in Seq(Byte), NEW x \in Seq(Byte)
    PROVE  SubSeq(p, 1, 0) = <<>> /\ Left(p, x, 0) = p \o x
<1>1. SubSeq(p, 0 + 1, Len(p)) = p
  OBVIOUS
<1>2. SubSeq(p, 1, 0) = <<>>
  OBVIOUS
<1>3. QED
  BY <1>1, <1>2 DEF Left

\* The request, with or without its echo, is put on an empty line.
LEMMA EchoStarts ==
    ASSUME fcb \in {0, FCB}, handle.echo \in BOOLEAN, Fresh,
           fcb' = fcb, handle' = handle, wire' = <<>> \o Echo
    PROVE  \/ wire' = <<>> /\ buff' = <<>>
           \/ handle.echo = TRUE /\ Coming(RequestBytes(fcb), <<>>, 0)'
<1>1. CASE handle.echo = FALSE
  <2>1. Echo = <<>>
    BY <1>1 DEF Echo
  <2>2. <<>> \o <<>> = <<>>
    OBVIOUS
  <2>3. QED
    BY <2>1, <2>2 DEF Fresh
<1>2. CASE handle.echo = TRUE
  <2>1. PICK p : p = RequestBytes(fcb)
    OBVIOUS
  <2>2. Echo = p
    BY <1>2, <2>1, EchoIs
  <2>3. p \in Seq(Byte) /\ Len(p) = 5
    <3>1. p \in Seq(Byte)
      BY <2>1, RequestIsFrame DEF IsFrame
    <3>2. Len(p) = 5
      BY <2>1 DEF RequestBytes
    <3>3. QED
      BY <3>1, <3>2
  <2>4. <<>> \o p = p /\ p \o <<>> = p /\ <<>> \in Seq(Byte)
    BY <2>3
  <2>5. SubSeq(p, 1, 0) = <<>> /\ Left(p, <<>>, 0) = p
    BY <2>3, <2>4, ComingStarts
  <2>6. 1 \in 1..(Len(p) - 0)
    BY <2>3
  <2>7. buff' = SubSeq(p, 1, 0) /\ wire' = Left(p, <<>>, 0) /\ remaining' \in 1..(Len(p) - 0)
    BY <2>2, <2>4, <2>5, <2>6 DEF Fresh
  <2>8. p = RequestBytes(fcb)'
    BY <2>1 DEF RequestBytes
  <2>9. QED
    BY <1>2, <2>7, <2>8, Zenon DEF Coming
<1>3. QED
  BY <1>1, <1>2

\* A request that is sent: the meter goes on, repeats its telegram, or hears nothing.
LEMMA ExactSend ==
    ASSUME LinkInv, PhaseInv, ExactInv, SendRequest
    PROVE  ExactInv'
<1>1. /\ pc = "send" /\ pc' = "read" /\ Fresh
      /\ UNCHANGED <<handle, retval, fcb, frames, again, purging, misread, strayed>>
      /\ \/ meter' = Asked(meter)
         \/ meter' = meter /\ wire' = wire \o Echo
  BY DEF SendRequest, Sent, request, history
<1>2. /\ Asked(meter).telegrams = meter.telegrams /\ Asked(meter).fcb = fcb
      /\ Asked(meter).at = IF fcb = meter.fcb \/ meter.at = Len(meter.telegrams)
                           THEN meter.at ELSE meter.at + 1
  BY DEF Asked, LinkInv, MeterStates
<1>3. SUFFICES ASSUME Quiet, Quiet' PROVE
        /\ Collected' /\ (Len(frames) < MaxFrames)' /\ (NotAsked \/ WasAsked \/ NoTelegrams)'
  BY <1>1 DEF ExactInv, Quiet
<1>4. Collected /\ Len(frames) < MaxFrames /\ (NotAsked \/ WasAsked \/ NoTelegrams)
  BY <1>1, <1>3 DEF ExactInv
<1>5. meter'.telegrams = meter.telegrams
  BY <1>1, <1>2
<1>6. Collected' /\ (Len(frames) < MaxFrames)'
  BY <1>1, <1>4, <1>5 DEF Collected
<1>7. CASE NoTelegrams
  BY <1>1, <1>5, <1>6, <1>7 DEF NoTelegrams
<1>8. CASE WasAsked
  <2>1. meter'.at = meter.at /\ meter'.fcb = fcb
    BY <1>1, <1>2, <1>8 DEF WasAsked
  <2>2. WasAsked'
    BY <1>1, <1>8, <2>1 DEF WasAsked
  <2>3. QED
    BY <1>6, <2>2
<1>9. CASE NotAsked
  <2>1. CASE meter' = Asked(meter)
    <3>1. Len(frames) # Len(meter.telegrams)
      <4>1. Len(frames) \in Nat /\ Len(meter.telegrams) \in Nat
        BY DEF LinkInv, MeterStates
      <4>2. QED
        BY <1>9, <4>1 DEF NotAsked
    <3>2. meter'.at = Len(frames) + 1 /\ meter'.fcb = fcb
      BY <1>2, <1>9, <2>1, <3>1 DEF NotAsked
    <3>3. WasAsked'
      BY <1>1, <3>2 DEF WasAsked
    <3>4. QED
      BY <1>6, <3>3
  <2>2. CASE meter' = meter /\ wire' = wire \o Echo
    <3>1. wire = <<>> /\ ~again'
      BY <1>1, <1>9 DEF NotAsked, PhaseInv
    <3>2. handle.echo \in BOOLEAN /\ fcb \in {0, FCB}
      BY LinkAssumption DEF PhaseInv, LinkInv
    <3>3. wire' = <<>> \o Echo
      BY <2>2, <3>1
    <3>4. \/ wire' = <<>> /\ buff' = <<>>
          \/ handle.echo = TRUE /\ Coming(RequestBytes(fcb), <<>>, 0)'
      BY <1>1, <3>2, <3>3, EchoStarts
    <3>5. /\ meter'.at = Len(frames') /\ meter'.fcb # fcb' /\ Len(frames') < Len(meter'.telegrams)
          /\ purging' = NoPurge
      BY <1>1, <1>9, <2>2 DEF NotAsked
    <3>6. CASE wire' = <<>> /\ buff' = <<>>
      <4>1. NotAsked'
        BY <1>1, <3>5, <3>6 DEF NotAsked
      <4>2. QED
        BY <1>6, <4>1
    <3>7. CASE handle.echo = TRUE /\ Coming(RequestBytes(fcb), <<>>, 0)'
      <4>1. handle'.echo = TRUE
        BY <1>1, <3>7
      <4>2. (\E k \in 0..4 : Coming(RequestBytes(fcb), <<>>, k))'
        <5>1. 0 \in 0..4
          OBVIOUS
        <5>2. QED
          BY <3>7, <5>1
      <4>3. NotAsked'
        BY <1>1, <3>1, <3>5, <4>1, <4>2 DEF NotAsked
      <4>4. QED
        BY <1>6, <4>3
    <3>8. QED
      BY <3>4, <3>6, <3>7
  <2>3. QED
    BY <1>1, <2>1, <2>2
<1>10. QED
  BY <1>4, <1>7, <1>8, <1>9

\* What stays as it is while the request receives.
LEMMA ExactReceive ==
    ASSUME LinkInv, PhaseInv, ExactInv, pc = "read", UNCHANGED <<handle, meter, fcb, frames>>,
           Quiet' => Quiet, pc' = "done" => retval' = 1,
           pc' = "process" /\ Quiet' => wire' = <<>>,
           Quiet /\ NotAsked => NotAsked' \/ pc' = "done"
    PROVE  ExactInv'
<1>1. SUFFICES ASSUME Quiet, Quiet' PROVE
        /\ Collected'
        /\ pc' # "done" => (Len(frames) < MaxFrames)' /\ (NotAsked \/ WasAsked \/ NoTelegrams)'
  BY DEF ExactInv
<1>2. Collected /\ Len(frames) < MaxFrames /\ (NotAsked \/ WasAsked \/ NoTelegrams)
  BY <1>1 DEF ExactInv
<1>3. Collected' /\ (Len(frames) < MaxFrames)'
  BY <1>2 DEF Collected
<1>4. WasAsked => WasAsked'
  BY DEF WasAsked
<1>5. NoTelegrams => NoTelegrams'
  BY DEF NoTelegrams
<1>6. QED
  BY <1>1, <1>2, <1>3, <1>4, <1>5

\* A read: as long as the meter has not been asked, it is the echo that is read.
LEMMA ExactRead ==
    ASSUME LinkInv, PhaseInv, ExactInv, Read
    PROVE  ExactInv'
<1> DEFINE r == mbus_parse(Memory, buff \o Arrived)
<1>1. /\ pc = "read" /\ ~Silent
      /\ UNCHANGED <<line, fcb, frames, held>>
      /\ \/ ReadOn(r)
         \/ Returned("INVALID", r.frame)
         \/ Returned("OK", r.frame)
  BY ReadCases
<1> HIDE DEF r
<1>2. UNCHANGED <<handle, meter, fcb, frames>>
  BY <1>1 DEF line
<1>3. /\ Quiet' => Quiet
      /\ pc' = "done" => retval' = 1
      /\ pc' = "process" /\ Quiet' => wire' = <<>>
  <2>1. CASE ReadOn(r)
    BY <1>1, <2>1 DEF ReadOn, history, Quiet
  <2>2. CASE Returned("INVALID", r.frame)
    <3>1. "INVALID" \in Results
      BY DEF Results
    <3>2. QED
      BY <1>1, <2>2, <3>1, ReturnedEnds
  <2>3. CASE Returned("OK", r.frame)
    <3>1. "OK" \in Results
      BY DEF Results
    <3>2. QED
      BY <1>1, <2>3, <3>1, ReturnedEnds
  <2>4. QED
    BY <1>1, <2>1, <2>2, <2>3
<1>4. ASSUME NotAsked PROVE NotAsked'
  <2>1. wire # <<>>
    BY <1>1 DEF Silent
  <2>2. /\ meter.at = Len(frames) /\ meter.fcb # fcb /\ Len(frames) < Len(meter.telegrams)
        /\ purging = NoPurge /\ handle.echo = TRUE /\ ~again
        /\ \E k \in 0..4 : Coming(RequestBytes(fcb), <<>>, k)
    BY <1>1, <1>4, <2>1 DEF NotAsked
  <2>3. PICK p : p = RequestBytes(fcb) /\ fcb \in {0, FCB}
    BY DEF LinkInv
  <2>4. IsFrame(p) /\ Len(p) = 5 /\ \A f \in Frames : mbus_frame_direction(mbus_parse(f, p).frame) = "M2S"
    <3>1. Len(p) = 5
      BY <2>3 DEF RequestBytes
    <3>2. QED
      BY <2>3, <3>1, RequestIsFrame
  <2>5. PICK k \in 0..4 : Coming(p, <<>>, k)
    BY <2>2, <2>3
  <2>6. k \in 0..(Len(p) - 1) /\ <<>> \in Seq(Byte)
    BY <2>4
  <2>7. \/ /\ UNCHANGED <<pc, retval, retry, again, purging, history>>
           /\ \E j \in 0..(Len(p) - 1) : Coming(p, <<>>, j)'
        \/ wire' = <<>> /\ Returned("OK", mbus_parse(Memory, p).frame)
    BY <2>4, <2>5, <2>6, ComingRead
  <2>8. /\ meter'.at = Len(frames') /\ meter'.fcb # fcb' /\ Len(frames') < Len(meter'.telegrams)
        /\ handle'.echo = TRUE
    BY <1>2, <2>2
  <2>9. CASE /\ UNCHANGED <<pc, retval, retry, again, purging, history>>
             /\ \E j \in 0..(Len(p) - 1) : Coming(p, <<>>, j)'
    <3>1. PICK j \in 0..4 : Coming(p, <<>>, j)'
      BY <2>4, <2>9
    <3>2. p = RequestBytes(fcb)'
      BY <1>2, <2>3 DEF RequestBytes
    <3>3. (\E i \in 0..4 : Coming(RequestBytes(fcb), <<>>, i))'
      BY <3>1, <3>2
    <3>4. pc' = "read" /\ ~again' /\ purging' = NoPurge
      BY <1>1, <2>2, <2>9
    <3>5. QED
      BY <2>8, <3>3, <3>4 DEF NotAsked
  <2>10. CASE wire' = <<>> /\ Returned("OK", mbus_parse(Memory, p).frame)
    <3>1. Memory \in Frames
      BY DEF LinkInv, Memory
    <3> DEFINE f == mbus_parse(Memory, p).frame
    <3>2. mbus_frame_direction(f) = "M2S"
      BY <2>4, <3>1
    <3>3. handle.purge = "M2S"
      BY <2>2, StandardAssumption DEF HandleAssumption, PhaseInv
    <3>4. Returned("OK", f)
      BY <2>10
    <3> HIDE DEF f
    <3>5. Fresh /\ UNCHANGED <<pc, purging>>
      BY <2>2, <3>2, <3>3, <3>4 DEF Returned
    <3>6. pc' = "read" /\ buff' = <<>> /\ purging' = NoPurge
      BY <1>1, <2>2, <3>5 DEF Fresh
    <3>7. QED
      BY <2>8, <2>10, <3>6 DEF NotAsked
  <2>11. QED
    BY <2>7, <2>9, <2>10
<1>5. QED
  BY <1>1, <1>2, <1>3, <1>4, ExactReceive
-----------------------------------------------------------------------------
\* A silence asks again, or ends the request or a purge.
LEMMA ExactSilence ==
    ASSUME LinkInv, PhaseInv, ExactInv, Silence
    PROVE  ExactInv'
<1>1. /\ pc = "read" /\ Silent
      /\ wire' = IF wire = <<>> THEN wire ELSE Tail(wire)
      /\ UNCHANGED <<line, fcb, frames, held>>
      /\ \/ \E result \in {"TIMEOUT", "RESET"} : Returned(result, Memory)
         \/ buff # <<>> /\ Returned("INVALID", Memory)
         \/ buff # <<>> /\ Waits
  BY SilenceCases DEF Waits
<1>2. UNCHANGED <<handle, meter, fcb, frames>>
  BY <1>1 DEF line
<1>3. /\ Quiet' => Quiet
      /\ pc' = "done" => retval' = 1
      /\ pc' = "process" /\ Quiet' => wire' = <<>>
  <2>1. CASE \E result \in Results : Returned(result, Memory)
    BY <1>1, <2>1, ReturnedEnds
  <2>2. CASE Waits
    BY <1>1, <2>2 DEF Waits, history, Quiet
  <2>3. QED
    BY <1>1, <2>1, <2>2 DEF Results
<1>4. ASSUME NotAsked PROVE NotAsked' \/ pc' = "done"
  <2>1. ~(\E k \in 0..4 : Coming(RequestBytes(fcb), <<>>, k))
    <3> SUFFICES ASSUME NEW k \in 0..4, Coming(RequestBytes(fcb), <<>>, k) PROVE FALSE
      OBVIOUS
    <3>1. PICK p : p = RequestBytes(fcb) /\ fcb \in {0, FCB}
      BY DEF LinkInv
    <3>2. IsFrame(p) /\ Len(p) = 5 /\ Coming(p, <<>>, k)
      <4>1. Len(p) = 5
        BY <3>1 DEF RequestBytes
      <4>2. QED
        BY <3>1, <4>1, RequestIsFrame
    <3>3. k \in 0..(Len(p) - 1) /\ <<>> \in Seq(Byte)
      BY <3>2
    <3>4. ~Silent
      BY <3>2, <3>3, ComingIsLoud
    <3>5. QED
      BY <1>1, <3>4
  <2>2. wire = <<>> /\ buff = <<>> /\ purging = NoPurge /\ meter.at = Len(frames)
        /\ meter.fcb # fcb /\ Len(frames) < Len(meter.telegrams)
    BY <1>1, <1>4, <2>1 DEF NotAsked
  <2>3. wire' = <<>> /\ meter'.at = Len(frames') /\ meter'.fcb # fcb'
        /\ Len(frames') < Len(meter'.telegrams)
    BY <1>1, <1>2, <2>2
  <2>4. PICK result \in {"TIMEOUT", "RESET"} : Returned(result, Memory)
    BY <1>1, <2>2
  <2> DEFINE f == Memory
  <2>5. ReceivesAgain(f) \/ IsAnswered(result, f) \/ PurgesOn \/ PurgeEnds
    BY <2>4, ReturnedCases DEF Results
  <2> HIDE DEF f
  <2>6. CASE ReceivesAgain(f)
    <3>1. buff' = <<>> /\ pc' = pc /\ purging' = purging
      BY <2>6 DEF ReceivesAgain, Ends
    <3>2. QED
      BY <1>1, <2>2, <2>3, <3>1 DEF NotAsked
  <2>7. CASE IsAnswered(result, f)
    <3>1. \/ pc' = "send" /\ purging' = NoPurge
          \/ pc' = "done"
      BY <2>4, <2>7 DEF IsAnswered
    <3>2. QED
      BY <2>3, <3>1 DEF NotAsked
  <2>8. ~PurgesOn /\ ~PurgeEnds
    BY <2>2 DEF PurgesOn, PurgeEnds
  <2>9. QED
    BY <2>5, <2>6, <2>7, <2>8
<1>5. QED
  BY <1>1, <1>2, <1>3, <1>4, ExactReceive

\* The library looks at the control field, the control information and the data
\* of a telegram.
LEMMA ParsedAlike ==
    ASSUME NEW f \in Frames, NEW t, NEW tail, f.control = RSP_UD,
           f.control_information = t.ci, f.data = t.data
    PROVE  /\ mbus_frame_data_type(FrameOf(t)) = mbus_frame_data_type(f)
           /\ mbus_frame_data_parse(FrameOf(t), tail) = mbus_frame_data_parse(f, tail)
<1> DEFINE g == FrameOf(t)
           h == [f EXCEPT !.type = "ANY"]
           k == [g EXCEPT !.type = "ANY"]
<1>1. g.control = RSP_UD /\ g.control_information = t.ci /\ g.data = t.data
      /\ k.control = RSP_UD /\ k.type = "ANY"
  BY DEF FrameOf, mbus_frame_new
<1>2. h.control = RSP_UD /\ h.type = "ANY"
  BY DEF Frames
<1> HIDE DEF g, h, k
<1>3. mbus_frame_direction(h) = mbus_frame_direction(k)
  BY <1>1, <1>2 DEF mbus_frame_direction
<1>4. mbus_frame_data_type(g) = mbus_frame_data_type(f)
  BY <1>1, <1>3, Zenon DEF mbus_frame_data_type, h, k
<1>5. mbus_frame_data_parse(g, tail) = mbus_frame_data_parse(f, tail)
  BY <1>1, <1>4, Zenon DEF mbus_frame_data_parse
<1>6. QED
  BY <1>4, <1>5 DEF g

\* What becomes of an answer.
LEMMA ProcessCases ==
    ASSUME Process
    PROVE  /\ pc = "process" /\ UNCHANGED <<line, wire, retry, reading, history>>
           /\ \E tail \in StaleBytes :
                LET parsed == mbus_frame_data_parse(frame, tail) IN
                \/ parsed.code = -1 /\ pc' = "done" /\ retval' = 1 /\ frames' = frames
                \/ /\ parsed.code # -1 /\ frames' = Append(frames, frame)
                   /\ \/ /\ mbus_frame_data_type(frame) = "variable" /\ ExpectMore(parsed)
                         /\ pc' = "send" /\ fcb' = NextFcb
                      \/ /\ mbus_frame_data_type(frame) = "variable" /\ ~ExpectMore(parsed)
                         /\ pc' = "done"
                      \/ mbus_frame_data_type(frame) # "variable" /\ pc' = "done"
<1>1. PICK tail \in StaleBytes :
         LET parsed == mbus_frame_data_parse(frame, tail)
             variable == mbus_frame_data_type(frame) = "variable"
         IN  IF parsed.code = -1
             THEN ProcessFails /\ UNCHANGED <<frames, held>>
             ELSE /\ frames' = Append(frames, frame)
                  /\ IF variable THEN ProcessVariable(parsed) ELSE ProcessOther
                  /\ held' = (held \/ (variable /\ parsed.records # <<>>))
  BY DEF Process
<1> DEFINE parsed == mbus_frame_data_parse(frame, tail)
<1>2. pc = "process" /\ UNCHANGED <<line, wire, retry, reading, history>>
  BY DEF Process
<1> HIDE DEF parsed
<1>3. CASE parsed.code = -1
  <2>1. ProcessFails /\ frames' = frames
    BY <1>1, <1>3 DEF parsed
  <2>2. QED
    BY <1>2, <1>3, <2>1 DEF ProcessFails, parsed
<1>4. CASE parsed.code # -1
  <2>1. /\ frames' = Append(frames, frame)
        /\ IF mbus_frame_data_type(frame) = "variable" THEN ProcessVariable(parsed) ELSE ProcessOther
    BY <1>1, <1>4 DEF parsed
  <2>2. CASE mbus_frame_data_type(frame) = "variable" /\ ExpectMore(parsed)
    <3>1. pc' = "send" /\ fcb' = NextFcb
      BY <2>1, <2>2 DEF ProcessVariable
    <3>2. QED
      BY <1>2, <1>4, <2>1, <2>2, <3>1 DEF parsed
  <2>3. CASE mbus_frame_data_type(frame) = "variable" /\ ~ExpectMore(parsed)
    <3>1. pc' = "done"
      BY <2>1, <2>3 DEF ProcessVariable
    <3>2. QED
      BY <1>2, <1>4, <2>1, <2>3, <3>1 DEF parsed
  <2>4. CASE mbus_frame_data_type(frame) # "variable"
    <3>1. pc' = "done"
      BY <2>1, <2>4 DEF ProcessOther
    <3>2. QED
      BY <1>2, <1>4, <2>1, <2>4, <3>1 DEF parsed
  <2>5. QED
    BY <2>2, <2>3, <2>4
<1>5. QED
  BY <1>3, <1>4

\* One more telegram is collected, and the next one asked for if there is one.
LEMMA ExactProcess ==
    ASSUME LinkInv, PhaseInv, ExactInv, AnswerIntact, Process
    PROVE  ExactInv'
<1>1. /\ pc = "process" /\ UNCHANGED <<handle, meter, wire, purging, misread, strayed>>
  BY ProcessCases DEF line, reading, history
<1>2. SUFFICES ASSUME Quiet, Quiet' PROVE
        /\ Collected'
        /\ (pc = "process" => wire = <<>>)'
        /\ (pc = "done" /\ retval = 0 => Len(frames) = Min({MaxFrames, Len(meter.telegrams)}))'
        /\ (pc # "done" => /\ Len(frames) < MaxFrames
                           /\ NotAsked \/ WasAsked \/ NoTelegrams)'
  BY <1>1, Zenon DEF ExactInv, Quiet
<1> DEFINE n == Len(frames)
           N == Len(meter.telegrams)
<1>3. wire = <<>> /\ n < MaxFrames /\ Collected /\ (NotAsked \/ WasAsked \/ NoTelegrams)
  BY <1>1, <1>2 DEF ExactInv
<1>4. n \in Nat /\ N \in Nat /\ MaxFrames \in Nat
  BY LinkAssumption DEF LinkInv, MeterStates
<1>5. /\ meter.at # 0
      /\ frame.control = RSP_UD
      /\ frame.control_information = meter.telegrams[meter.at].ci
      /\ frame.data = meter.telegrams[meter.at].data
  BY <1>1, <1>2 DEF AnswerIntact
<1>6. meter.at = n + 1 /\ meter.fcb = fcb /\ n + 1 \in 1..N
  <2>1. ~NotAsked
    BY <1>1 DEF NotAsked
  <2>2. meter.at \in Nat /\ meter.at <= N
    BY DEF LinkInv, MeterStates
  <2>3. ~NoTelegrams
    <3>1. NoTelegrams => N = 0
      BY DEF NoTelegrams
    <3>2. QED
      BY <1>5, <2>2, <3>1
  <2>4. meter.at = n + 1 /\ meter.fcb = fcb
    BY <1>3, <2>1, <2>3 DEF WasAsked
  <2>5. QED
    BY <1>4, <2>2, <2>4
<1>7. PICK tail \in StaleBytes :
        LET parsed == mbus_frame_data_parse(frame, tail) IN
        \/ parsed.code = -1 /\ pc' = "done" /\ retval' = 1 /\ frames' = frames
        \/ /\ parsed.code # -1 /\ frames' = Append(frames, frame)
           /\ \/ /\ mbus_frame_data_type(frame) = "variable" /\ ExpectMore(parsed)
                 /\ pc' = "send" /\ fcb' = NextFcb
              \/ /\ mbus_frame_data_type(frame) = "variable" /\ ~ExpectMore(parsed)
                 /\ pc' = "done"
              \/ mbus_frame_data_type(frame) # "variable" /\ pc' = "done"
  BY ProcessCases
<1> DEFINE parsed == mbus_frame_data_parse(frame, tail)
<1>8. CASE parsed.code = -1
  <2>1. pc' = "done" /\ retval' = 1
    BY <1>7, <1>8
  <2>2. frames' = frames
    BY <1>7, <1>8
  <2>3. QED
    BY <1>1, <1>3, <2>1, <2>2 DEF Collected
<1>9. CASE parsed.code # -1
  <2>1. frames' = Append(frames, frame)
    BY <1>7, <1>9
  <2>2. /\ Len(frames') = n + 1 /\ frames'[n + 1] = frame
        /\ \A i \in 1..n : frames'[i] = frames[i]
    <3>1. frames \in Seq(Frames) /\ frame \in Frames
      BY DEF LinkInv
    <3>2. QED
      BY <2>1, <3>1
  <2>3. Collected'
    <3>1. ASSUME NEW i \in 1..(n + 1)
          PROVE  /\ frames'[i].control_information = meter.telegrams[i].ci
                 /\ frames'[i].data = meter.telegrams[i].data
      <4>1. CASE i = n + 1
        BY <1>5, <1>6, <2>2, <4>1
      <4>2. CASE i \in 1..n
        BY <1>3, <2>2, <4>2 DEF Collected
      <4>3. QED
        BY <1>4, <4>1, <4>2
    <3>2. n + 1 <= N
      BY <1>4, <1>6
    <3>3. QED
      BY <1>1, <2>2, <3>1, <3>2 DEF Collected
  <2>4. n + 1 < N <=> mbus_frame_data_type(frame) = "variable" /\ MoreRecordsFollow(parsed.records)
    <3>1. PICK m \in Meters : meter.telegrams = m.telegrams
      BY DEF PhaseInv
    <3> DEFINE t == m.telegrams[n + 1]
               g == FrameOf(t)
    <3>2. n + 1 \in DOMAIN m.telegrams /\ N = Len(m.telegrams)
      BY <1>6, <3>1 DEF LinkInv, MeterStates
    <3>3. mbus_frame_data_parse(g, tail).code # -1 =>
            (n + 1 < Len(m.telegrams)
             <=> mbus_frame_data_type(g) = "variable"
                 /\ MoreRecordsFollow(mbus_frame_data_parse(g, tail).records))
      BY <3>2, StandardAssumption DEF MeterAssumption
    <3>4. frame \in Frames /\ frame.control = RSP_UD /\ frame.control_information = t.ci /\ frame.data = t.data
      BY <1>5, <1>6, <3>1 DEF LinkInv
    <3> HIDE DEF t, n, N
    <3>5. mbus_frame_data_type(g) = mbus_frame_data_type(frame)
          /\ mbus_frame_data_parse(g, tail) = mbus_frame_data_parse(frame, tail)
      BY <3>4, ParsedAlike, Zenon
    <3>6. QED
      BY <1>9, <3>2, <3>3, <3>5, Zenon
  <2>5. ExpectMore(parsed) <=> MoreRecordsFollow(parsed.records) /\ n + 1 < MaxFrames
    BY Zenon DEF ExpectMore
  <2> HIDE DEF parsed, n, N
  <2>6. CASE pc' = "send"
    <3>1. mbus_frame_data_type(frame) = "variable" /\ ExpectMore(parsed) /\ fcb' = NextFcb
      BY <1>7, <1>9, <2>6 DEF parsed
    <3>2. n + 1 < N /\ n + 1 < MaxFrames
      BY <2>4, <2>5, <3>1
    <3>3. meter'.fcb # fcb'
      BY <1>1, <1>6, <3>1 DEF NextFcb, FCB, LinkInv
    <3>4. purging' = NoPurge
      BY <1>1 DEF PhaseInv
    <3>5. NotAsked'
      BY <1>1, <1>3, <1>6, <2>2, <2>6, <3>2, <3>3, <3>4 DEF NotAsked, N
    <3>6. (Len(frames) < MaxFrames)'
      BY <2>2, <3>2
    <3>7. QED
      BY <2>3, <2>6, <3>5, <3>6
  <2>7. CASE pc' = "done"
    <3>1. ~(n + 1 < N) \/ ~(n + 1 < MaxFrames)
      <4>1. ~(mbus_frame_data_type(frame) = "variable" /\ ExpectMore(parsed))
        BY <1>7, <1>9, <2>7 DEF parsed
      <4>2. QED
        BY <2>4, <2>5, <4>1
    <3>2. Min({MaxFrames, N}) = n + 1
      <4>1. MaxFrames \in Int /\ N \in Int /\ n + 1 <= N /\ n + 1 <= MaxFrames
        BY <1>3, <1>4, <1>6
      <4>2. Min({MaxFrames, N}) \in {MaxFrames, N} /\ Min({MaxFrames, N}) <= MaxFrames
            /\ Min({MaxFrames, N}) <= N
        BY <4>1, LeastOfTwo, Zenon
      <4>3. QED
        BY <1>4, <3>1, <4>1, <4>2
    <3>3. (Len(frames) = Min({MaxFrames, Len(meter.telegrams)}))'
      BY <1>1, <2>2, <3>2 DEF N
    <3>4. QED
      BY <2>3, <2>7, <3>3
  <2>8. QED
    BY <1>7, <1>9, <2>6, <2>7 DEF parsed
<1>10. QED
  BY <1>8, <1>9

\* The first telegram has not been asked for.
LEMMA ExactInit == ASSUME Init PROVE ExactInv
<1>1. PICK m \in Meters : meter = [telegrams |-> m.telegrams, at |-> 0, fcb |-> -1]
  BY DEF Init
<1>2. m.telegrams \in Seq([ci : Byte, data : Seq(Byte)])
  BY LinkAssumption
<1>3. meter.telegrams = m.telegrams /\ meter.at = 0 /\ meter.fcb = -1
  BY <1>1
<1>4. /\ frames = <<>> /\ pc = "send" /\ wire = <<>> /\ fcb = FCB /\ purging = NoPurge
      /\ MaxFrames \in Nat \ {0}
  BY LinkAssumption DEF Init
<1>5. Len(frames) = 0 /\ 1..0 = {}
  BY <1>4
<1>6. Len(meter.telegrams) \in Nat /\ (Len(meter.telegrams) = 0 => meter.telegrams = <<>>)
  BY <1>2, <1>3
<1>7. Collected
  BY <1>5, <1>6 DEF Collected
<1>8. CASE Len(meter.telegrams) = 0
  <2>1. NoTelegrams
    BY <1>4, <1>6, <1>8 DEF NoTelegrams
  <2>2. QED
    BY <1>4, <1>5, <1>7, <2>1 DEF ExactInv
<1>9. CASE Len(meter.telegrams) # 0
  <2>1. Len(frames) < Len(meter.telegrams) /\ meter.fcb # fcb
    BY <1>3, <1>4, <1>5, <1>6, <1>9 DEF FCB
  <2>2. NotAsked
    BY <1>3, <1>4, <1>5, <2>1 DEF NotAsked
  <2>3. QED
    BY <1>4, <1>5, <1>7, <2>2 DEF ExactInv
<1>10. QED
  BY <1>8, <1>9

\* What is collected stays exact from step to step.
LEMMA ExactStep ==
    ASSUME LinkInv, PhaseInv, AnswerIntact, ExactInv, [Next]_vars
    PROVE  ExactInv'
<1>1. CASE SendRequest
  BY <1>1, ExactSend
<1>2. CASE SendClosed
  <2>1. /\ pc = "send" /\ UNCHANGED <<handle, meter, wire, fcb, frames, misread, strayed, purging, again>>
        /\ \/ pc' = "read" /\ buff' = <<>>
           \/ pc' = "done" /\ retval' = SIGPIPE
    BY <1>2 DEF SendClosed, Sent, Fresh, line, request, reading, history
  <2>2. retval' = 1 \/ pc' # "done" \/ retval' # 0
    BY <2>1 DEF SIGPIPE
  <2>3. NotAsked => NotAsked' \/ pc' = "done"
    <3>1. NotAsked => wire = <<>> /\ meter.at = Len(frames) /\ meter.fcb # fcb
                      /\ Len(frames) < Len(meter.telegrams) /\ purging = NoPurge
      BY <2>1 DEF NotAsked
    <3>2. QED
      BY <2>1, <3>1 DEF NotAsked
  <2>4. QED
    BY <2>1, <2>2, <2>3 DEF ExactInv, Quiet, Collected, WasAsked, NoTelegrams
<1>3. CASE GiveUp
  <2>1. /\ pc = "send" /\ pc' = "done" /\ retval' = 1 /\ UNCHANGED <<meter, frames, misread, strayed>>
    BY <1>3 DEF GiveUp, line, request, history
  <2>2. QED
    BY <2>1 DEF ExactInv, Quiet, Collected
<1>4. CASE Read
  BY <1>4, ExactRead
<1>5. CASE Silence
  BY <1>5, ExactSilence
<1>6. CASE Process
  BY <1>6, ExactProcess
<1>7. CASE UNCHANGED vars
  <2>1. /\ UNCHANGED <<handle, meter, wire, pc, retval, fcb, frames, misread, strayed>>
        /\ UNCHANGED <<purging, again, buff, remaining>>
    BY <1>7 DEF vars, line, request, reading, history
  <2>2. NotAsked' = NotAsked
    BY <2>1 DEF NotAsked, Coming, RequestBytes
  <2>3. QED
    BY <2>1, <2>2 DEF ExactInv, Quiet, Collected, WasAsked, NoTelegrams
<1>8. CASE SendFails
  <2>1. /\ pc = "send" /\ pc' = "done" /\ retval' = -1
        /\ UNCHANGED <<meter, frames, misread, strayed>>
    BY <1>8 DEF SendFails, request, history
  <2>2. retval' # 0
    BY <2>1
  <2>3. QED
    BY <2>1, <2>2 DEF ExactInv, Quiet, Collected
<1>9. QED
  BY <1>1, <1>2, <1>3, <1>4, <1>5, <1>6, <1>7, <1>8 DEF Next, Step, Done

\* What is collected in the end is what the meter has.
LEMMA ExactEnd == ASSUME LinkInv, ExactInv PROVE ReplyExact
<1> SUFFICES ASSUME pc = "done", retval = 0, Quiet
    PROVE  Contents = SubSeq(meter.telegrams, 1, Min({MaxFrames, Len(meter.telegrams)}))
  BY DEF ReplyExact
<1> DEFINE n == Len(frames)
           s == SubSeq(meter.telegrams, 1, n)
<1>1. Collected /\ n = Min({MaxFrames, Len(meter.telegrams)})
  BY DEF ExactInv
<1>2. frames \in Seq(Frames) /\ meter.telegrams \in Seq(Telegrams) /\ n \in Nat
      /\ n <= Len(meter.telegrams)
  BY <1>1 DEF LinkInv, MeterStates, Collected
<1>3. DOMAIN frames = 1..n
  BY <1>2
<1> DEFINE T == [ci : Byte, data : Seq(Byte)]
<1>4. \A i \in 1..n : meter.telegrams[i] \in Telegrams
  BY <1>2
<1>5. \A i \in 1..n : [ci |-> frames[i].control_information, data |-> frames[i].data]
                      = meter.telegrams[i]
  <2> SUFFICES ASSUME NEW i \in 1..n
      PROVE  [ci |-> frames[i].control_information, data |-> frames[i].data] = meter.telegrams[i]
    OBVIOUS
  <2>1. meter.telegrams[i] \in T
    BY <1>4 DEF Telegrams
  <2>2. frames[i].control_information = meter.telegrams[i].ci
        /\ frames[i].data = meter.telegrams[i].data
    BY <1>1 DEF Collected
  <2>3. QED
    BY <2>1, <2>2
<1>6. s \in Seq(Telegrams) /\ Len(s) = n /\ \A i \in 1..n : s[i] = meter.telegrams[i]
  <2>1. meter.telegrams \in Seq(Telegrams)
    BY <1>2
  <2>2. n \in Nat /\ 1 \in Nat /\ 1 <= 1 /\ 1 <= n + 1 /\ n <= Len(meter.telegrams)
    BY <1>2
  <2> HIDE DEF n
  <2>3. s \in Seq(Telegrams) /\ Len(s) = n - 1 + 1
        /\ \A i \in 1..(n - 1 + 1) : s[i] = meter.telegrams[1 + i - 1]
    BY <2>1, <2>2, Sliced, ZenonT(60)
  <2>4. n - 1 + 1 = n
    BY <2>2
  <2>5. \A i \in 1..n : 1 + i - 1 = i
    BY <2>2
  <2>6. QED
    BY <2>3, <2>4, <2>5, Zenon
<1>7. Contents = [i \in 1..n |-> [ci |-> frames[i].control_information, data |-> frames[i].data]]
  BY <1>3, Zenon DEF Contents
<1> HIDE DEF s, n
<1>8. Contents \in Seq(Telegrams) /\ Len(Contents) = n /\ \A i \in 1..n : Contents[i] = meter.telegrams[i]
  <2>1. Contents = [i \in 1..n |-> meter.telegrams[i]]
    BY <1>5, <1>7, Zenon
  <2>2. QED
    BY <1>2, <1>4, <2>1
<1>9. Contents = s
  BY <1>6, <1>8, SameSequence, Zenon
<1>10. QED
  BY <1>1, <1>9 DEF s

(***************************************************************************)
(* A request that succeeds returns the telegrams of the meter, each once,  *)
(* in order and unchanged, up to the last one or to max_frames, whatever   *)
(* was lost, damaged, late or cut off on the way and however often it was  *)
(* asked again: for every meter, line and number of faults, provided that  *)
(* the checksum finds the damage (AnswerIntact), that nothing came after a *)
(* purge had ended and no damaged byte was taken for an acknowledgement.   *)
(***************************************************************************)
THEOREM RepliesAreExact == Spec /\ []AnswerIntact => []ReplyExact
<1>1. Init => ExactInv
  BY ExactInit
<1>2. LinkInv /\ PhaseInv /\ AnswerIntact /\ ExactInv /\ [Next]_vars => ExactInv'
  BY ExactStep
<1>3. LinkInv /\ ExactInv => ReplyExact
  BY ExactEnd
<1>4. QED
  BY <1>1, <1>2, <1>3, PhaseTyped, PTL DEF Spec
-----------------------------------------------------------------------------
(***************************************************************************)
(* What is parsed with a zero behind the data is parsed with any byte      *)
(* there, the reserved lengths included.                                   *)
(***************************************************************************)
\* Two turns of the loops that differ at most where the first one fails.
TurnsKept(d, turns, others) ==
    \A i \in 0..(Len(d) - 1) : turns[i].code = -1 \/ others[i] = turns[i]

\* Every turn that does not fail moves on, whatever is behind the data.
LEMMA TurnsMoveOn ==
    ASSUME NEW d \in Seq(Byte), NEW t \in Byte
    PROVE  TurnsOn(d, Turns(d, t))
<1> SUFFICES ASSUME NEW i \in 0..(Len(d) - 1), ~(Turns(d, t)[i].code = -1)
             PROVE  Turns(d, t)[i].next \in Nat /\ Turns(d, t)[i].next > i
  BY Zenon DEF TurnsOn
<1> DEFINE p == ParseRecord(d, t, i)
<1>1. Turns(d, t)[i] = p /\ i \in Nat /\ i < Len(d)
  BY DEF Turns
<1>2. ~IsRefused(d, t, i)
  <2>1. IsRefused(d, t, i) => p = Failed
    BY TurnParts, Zenon
  <2> HIDE DEF p
  <2>2. QED
    BY <1>1, <2>1 DEF Failed
<1>3. p.next = DataAt(d, t, i) + DataLength(d, t, i).length
  <2>1. p = [code |-> 0, next |-> DataAt(d, t, i) + DataLength(d, t, i).length,
             record |-> RecordAt(d, t, i)]
    BY <1>2, TurnParts, Zenon
  <2> HIDE DEF p
  <2>2. QED
    BY <2>1
<1>4. /\ Extensions(d, i) \in Nat
      /\ VifAt(d, i) \in Nat /\ i + 1 + Extensions(d, i) = VifAt(d, i)
      /\ VifesAt(d, t, i) \in Nat /\ VifesAt(d, t, i) > VifAt(d, i)
      /\ Vifes(d, t, i) \in Nat
      /\ LengthAt(d, t, i) \in Nat /\ LengthAt(d, t, i) = VifesAt(d, t, i) + Vifes(d, t, i)
      /\ DataLength(d, t, i).length \in Nat /\ DataLength(d, t, i).size \in {0, 1}
      /\ DataAt(d, t, i) \in Nat /\ DataAt(d, t, i) = LengthAt(d, t, i) + DataLength(d, t, i).size
  BY <1>1, PartsFollow
<1>5. LengthAt(d, t, i) > i
  BY <1>1, <1>4
<1>6. DataAt(d, t, i) > i
  BY <1>1, <1>4, <1>5, SMTT(30)
<1> HIDE DEF p
<1>7. p.next \in Nat /\ p.next > i
  <2>1. \A k, l \in Nat : k > i => k + l \in Nat /\ k + l > i
    BY <1>1
  <2>2. DataAt(d, t, i) \in Nat /\ DataLength(d, t, i).length \in Nat
    BY <1>4, Zenon
  <2>3. QED
    BY <1>3, <1>6, <2>1, <2>2, Zenon
<1>8. QED
  BY <1>1, <1>7, Zenon

\* A record that is accepted with a zero behind the data is with any byte.
LEMMA ZeroTurnKept ==
    ASSUME NEW d \in Seq(Byte), NEW t \in Byte
    PROVE  TurnsKept(d, Turns(d, 0), Turns(d, t))
<1> SUFFICES ASSUME NEW i \in 0..(Len(d) - 1)
             PROVE  Turns(d, 0)[i].code = -1 \/ Turns(d, t)[i] = Turns(d, 0)[i]
  BY Zenon DEF TurnsKept
<1>1. /\ Turns(d, 0)[i] = ParseRecord(d, 0, i) /\ Turns(d, t)[i] = ParseRecord(d, t, i)
      /\ i \in Nat /\ i < Len(d)
  BY DEF Turns
<1>2. 0 \in Byte /\ 0 < 251
  BY DEF Byte
<1>3. CASE IsRefused(d, 0, i)
  <2>1. ParseRecord(d, 0, i) = Failed
    BY <1>3, TurnParts, Zenon
  <2>2. QED
    BY <1>1, <2>1 DEF Failed
<1>4. CASE ~IsRefused(d, 0, i)
  <2>1. ~IsRefused(d, t, i)
    BY <1>1, <1>2, <1>4, RefusedSame
  <2>2. DataAt(d, 0, i) = DataAt(d, t, i) /\ DataLength(d, 0, i) = DataLength(d, t, i)
    BY <1>1, <1>2, <1>4, PartsSame
  <2>3. RecordAt(d, 0, i) = RecordAt(d, t, i)
    BY <1>1, <1>2, <1>4, RecordSame
  <2>4. ParseRecord(d, 0, i) = ParseRecord(d, t, i)
    BY <1>4, <2>1, <2>2, <2>3, TurnParts, Zenon
  <2>5. QED
    BY <1>1, <2>4, Zenon
<1>5. QED
  BY <1>3, <1>4

\* One step of the recursion.
LEMMA RecordsFromKept ==
    ASSUME NEW d \in Seq(Byte), NEW turns, NEW others, TurnsOn(d, turns),
           TurnsKept(d, turns, others), NEW i \in 0..Len(d),
           NEW f, NEW g, \A j \in (i + 1)..Len(d) : f[j].code = -1 \/ g[j] = f[j]
    PROVE  \/ RecordsFrom(d, turns, f, i).code = -1
           \/ RecordsFrom(d, others, g, i) = RecordsFrom(d, turns, f, i)
<1> DEFINE n == Len(d)
           k == IF turns[i].next < n THEN turns[i].next ELSE n
<1>1. n \in Nat /\ i \in Nat
  OBVIOUS
<1>2. CASE i < n /\ d[i + 1] = DIF_IDLE_FILLER
  <2>1. f[i + 1].code = -1 \/ g[i + 1] = f[i + 1]
    BY <1>1, <1>2
  <2>2. ASSUME NEW h, NEW u PROVE RecordsFrom(d, u, h, i) = h[i + 1]
    BY <1>1, <1>2
    DEF RecordsFrom, DIF_IDLE_FILLER, DIF_MANUFACTURER_SPECIFIC, DIF_MORE_RECORDS_FOLLOW
  <2>3. QED
    BY <2>1, <2>2, Zenon
<1>3. CASE i < n /\ d[i + 1] \notin {DIF_IDLE_FILLER, DIF_MANUFACTURER_SPECIFIC, DIF_MORE_RECORDS_FOLLOW}
  <2>1. ASSUME NEW h, NEW u PROVE RecordsFrom(d, u, h, i) =
            IF u[i].code = -1 THEN Failed
            ELSE LET l == IF u[i].next < n THEN u[i].next ELSE n IN
                 IF h[l].code = -1 THEN Failed
                 ELSE [h[l] EXCEPT !.records = <<u[i].record>> \o @]
    <3> DEFINE l == IF u[i].next < n THEN u[i].next ELSE n
    <3> HIDE DEF l
    <3>1. RecordsFrom(d, u, h, i) =
            CASE i = n -> [code |-> 0, records |-> <<>>]
              [] i < n /\ d[i + 1] = DIF_IDLE_FILLER -> h[i + 1]
              [] i < n /\ d[i + 1] \in {DIF_MANUFACTURER_SPECIFIC, DIF_MORE_RECORDS_FOLLOW} ->
                    [code |-> 0, records |-> <<RestRecord(d, i)>>]
              [] OTHER ->
                    IF u[i].code = -1 THEN Failed
                    ELSE IF h[l].code = -1 THEN Failed
                    ELSE [h[l] EXCEPT !.records = <<u[i].record>> \o @]
      BY Zenon DEF RecordsFrom, l
    <3>2. RecordsFrom(d, u, h, i) = IF u[i].code = -1 THEN Failed
                    ELSE IF h[l].code = -1 THEN Failed
                    ELSE [h[l] EXCEPT !.records = <<u[i].record>> \o @]
      BY <1>1, <1>3, <3>1
    <3>3. QED
      BY <3>2, Zenon DEF l
  <2>2. i \in 0..(Len(d) - 1)
    BY <1>1, <1>3
  <2>3. CASE turns[i].code = -1
    <3>1. RecordsFrom(d, turns, f, i) = Failed
      BY <2>1, <2>3, Zenon
    <3>2. QED
      BY <3>1 DEF Failed
  <2>4. CASE turns[i].code # -1
    <3>1. turns[i].next \in Nat /\ turns[i].next > i
      BY <2>2, <2>4 DEF TurnsOn
    <3>2. others[i] = turns[i]
      BY <2>2, <2>4 DEF TurnsKept
    <3>3. k \in (i + 1)..Len(d)
      BY <1>1, <1>3, <3>1
    <3>4. f[k].code = -1 \/ g[k] = f[k]
      <4> HIDE DEF k
      <4>1. QED
        BY <3>3
    <3>5. RecordsFrom(d, turns, f, i) = IF f[k].code = -1 THEN Failed
                                        ELSE [f[k] EXCEPT !.records = <<turns[i].record>> \o @]
      BY <2>1, <2>4, Zenon
    <3>6. RecordsFrom(d, others, g, i) = IF g[k].code = -1 THEN Failed
                                         ELSE [g[k] EXCEPT !.records = <<turns[i].record>> \o @]
      <4> DEFINE l == IF others[i].next < n THEN others[i].next ELSE n
      <4>1. RecordsFrom(d, others, g, i) = IF others[i].code = -1 THEN Failed
              ELSE IF g[l].code = -1 THEN Failed
              ELSE [g[l] EXCEPT !.records = <<others[i].record>> \o @]
        BY <2>1, Zenon
      <4>2. l = k
        BY <3>2
      <4> HIDE DEF l, k
      <4>3. QED
        BY <2>4, <3>2, <4>1, <4>2
    <3> HIDE DEF k
    <3>7. CASE f[k].code = -1
      <4>1. RecordsFrom(d, turns, f, i) = Failed
        BY <3>5, <3>7, Zenon
      <4>2. QED
        BY <4>1 DEF Failed
    <3>8. CASE f[k].code # -1
      BY <3>4, <3>5, <3>6, <3>8, Zenon
    <3>9. QED
      BY <3>7, <3>8
  <2>5. QED
    BY <2>3, <2>4
<1>4. CASE ~(i < n) \/ (i < n /\ d[i + 1] \in {DIF_MANUFACTURER_SPECIFIC, DIF_MORE_RECORDS_FOLLOW})
  <2>1. i = n \/ (i < n /\ d[i + 1] \in {DIF_MANUFACTURER_SPECIFIC, DIF_MORE_RECORDS_FOLLOW})
    BY <1>1, <1>4
  <2>2. ASSUME NEW h, NEW u PROVE RecordsFrom(d, u, h, i) =
            IF i = n THEN [code |-> 0, records |-> <<>>]
            ELSE [code |-> 0, records |-> <<RestRecord(d, i)>>]
    BY <1>1, <2>1
    DEF RecordsFrom, DIF_IDLE_FILLER, DIF_MANUFACTURER_SPECIFIC, DIF_MORE_RECORDS_FOLLOW
  <2>3. QED
    BY <2>2, Zenon
<1>5. QED
  BY <1>2, <1>3, <1>4

\* So are the records from any position on.
LEMMA RecordsKept ==
    ASSUME NEW d \in Seq(Byte), NEW turns, NEW others, TurnsOn(d, turns), TurnsOn(d, others),
           TurnsKept(d, turns, others), NEW start \in 0..Len(d)
    PROVE  \/ ParseRecords(d, turns, start).code = -1
           \/ ParseRecords(d, others, start) = ParseRecords(d, turns, start)
<1> DEFINE n == Len(d)
           F(f) == [i \in 0..n |-> RecordsFrom(d, turns, f, i)]
           G(f) == [i \in 0..n |-> RecordsFrom(d, others, f, i)]
           it == CHOOSE f : f = F(f)
           jt == CHOOSE f : f = G(f)
<1>1. ParseRecords(d, turns, start) = it[start]
  BY Zenon DEF ParseRecords, RecordsFrom
<1>2. ParseRecords(d, others, start) = jt[start]
  BY Zenon DEF ParseRecords, RecordsFrom
<1>3. n \in Nat /\ n = Len(d)
  OBVIOUS
<1>4. (\E f : f = F(f)) /\ (\E f : f = G(f))
  <2>1. \E f : f = F(f)
    BY RecordsExist, Zenon DEF AreRecords
  <2>2. \E f : f = G(f)
    BY RecordsExist, Zenon DEF AreRecords
  <2>3. QED
    BY <2>1, <2>2
<1> HIDE DEF F, G
<1>5. it = F(it) /\ jt = G(jt)
  BY <1>4, Zenon
<1> HIDE DEF it, jt
<1>6. \A i \in 0..n : it[i] = RecordsFrom(d, turns, it, i)
  BY <1>5 DEF F
<1>7. \A i \in 0..n : jt[i] = RecordsFrom(d, others, jt, i)
  BY <1>5 DEF G
<1> HIDE DEF n
<1> DEFINE Kept(i) == it[i].code = -1 \/ jt[i] = it[i]
           T == {k \in 0..n : \A i \in 0..n : i + k >= n => Kept(i)}
<1>8. ASSUME NEW i \in 0..n, \A j \in (i + 1)..n : Kept(j)
      PROVE  Kept(i)
  <2>1. \/ RecordsFrom(d, turns, it, i).code = -1
        \/ RecordsFrom(d, others, jt, i) = RecordsFrom(d, turns, it, i)
    BY <1>3, <1>8, RecordsFromKept
  <2>2. QED
    BY <1>6, <1>7, <2>1, Zenon
<1> HIDE DEF Kept
<1>9. 0 \in T
  <2>1. ASSUME NEW i \in 0..n, i + 0 >= n PROVE Kept(i)
    <3>1. (i + 1)..n = {}
      BY <1>3, <2>1
    <3>2. QED
      BY <1>8, <3>1
  <2>2. 0 \in 0..n
    BY <1>3
  <2>3. QED
    BY <2>1, <2>2
<1>10. ASSUME NEW k \in 1..n, k - 1 \in T PROVE k \in T
  <2>1. ASSUME NEW i \in 0..n, i + k >= n PROVE Kept(i)
    <3>1. \A j \in (i + 1)..n : j \in 0..n /\ j + (k - 1) >= n
      BY <1>3, <2>1
    <3>2. \A j \in (i + 1)..n : Kept(j)
      BY <1>10, <3>1
    <3>3. QED
      BY <1>8, <3>2
  <2>2. k \in 0..n
    BY <1>3
  <2>3. QED
    BY <2>1, <2>2
<1> HIDE DEF T
<1>11. n \in T
  BY <1>3, <1>9, <1>10, Upto, n \in 0..n
<1>12. \A i \in 0..n : Kept(i)
  <2>1. \A i \in 0..n : i + n >= n
    BY <1>3
  <2>2. QED
    BY <1>11, <2>1 DEF T
<1>13. Kept(start)
  BY <1>3, <1>12
<1>14. QED
  BY <1>1, <1>2, <1>13, Zenon DEF Kept

\* So is the answer, whatever it holds.
LEMMA ParsedWithAnyTail ==
    ASSUME NEW f, f.data \in Seq(Byte), NEW t \in Byte,
           mbus_frame_data_parse(f, 0).code = 0
    PROVE  mbus_frame_data_parse(f, t).code # -1
<1> DEFINE d == f.data
           type == mbus_frame_data_type(f)
<1>1. \/ mbus_frame_data_parse(f, t) = mbus_frame_data_parse(f, 0)
      \/ /\ mbus_frame_data_parse(f, 0) = mbus_data_variable_parse(d, 0)
         /\ mbus_frame_data_parse(f, t) = mbus_data_variable_parse(d, t)
  <2> HIDE DEF type
  <2>1. \A u : mbus_frame_data_parse(f, u) = CASE type = "fixed" -> mbus_data_fixed_parse(d)
                                              [] type = "variable" -> mbus_data_variable_parse(d, u)
                                              [] type = "error" -> [code |-> 0]
                                              [] OTHER -> Failed
    BY Zenon DEF mbus_frame_data_parse, type
  <2>2. QED
    BY <2>1
<1>2. CASE mbus_frame_data_parse(f, t) = mbus_frame_data_parse(f, 0)
  BY <1>2
<1>3. CASE /\ mbus_frame_data_parse(f, 0) = mbus_data_variable_parse(d, 0)
           /\ mbus_frame_data_parse(f, t) = mbus_data_variable_parse(d, t)
  <2>1. mbus_data_variable_parse(d, 0).code = 0
    BY <1>3
  <2>2. ~(Len(d) < HEADER_LENGTH)
    BY <2>1 DEF mbus_data_variable_parse, Failed
  <2>3. \A u : mbus_data_variable_parse(d, u) = ParseRecords(d, Turns(d, u), HEADER_LENGTH)
    BY <2>2, Zenon DEF mbus_data_variable_parse
  <2>4. HEADER_LENGTH \in 0..Len(d) /\ 0 \in Byte
    BY <2>2 DEF HEADER_LENGTH, Byte
  <2>5. TurnsOn(d, Turns(d, 0)) /\ TurnsOn(d, Turns(d, t)) /\ TurnsKept(d, Turns(d, 0), Turns(d, t))
    BY <2>4, TurnsMoveOn, ZeroTurnKept
  <2> HIDE DEF d
  <2>6. d \in Seq(Byte)
    BY DEF d
  <2>7. \/ ParseRecords(d, Turns(d, 0), HEADER_LENGTH).code = -1
        \/ ParseRecords(d, Turns(d, t), HEADER_LENGTH) = ParseRecords(d, Turns(d, 0), HEADER_LENGTH)
    BY <2>4, <2>5, <2>6, RecordsKept, Zenon
  <2>8. mbus_data_variable_parse(d, 0).code = -1
        \/ mbus_data_variable_parse(d, t) = mbus_data_variable_parse(d, 0)
    BY <2>3, <2>7, Zenon
  <2>9. mbus_data_variable_parse(d, t).code = 0
    BY <2>1, <2>8
  <2>10. QED
    BY <1>3, <2>9
<1>4. QED
  BY <1>1, <1>2, <1>3
-----------------------------------------------------------------------------
(***************************************************************************)
(* The silences of a line.  c[i] counts those among its first i signals.   *)
(***************************************************************************)
Counts(c, w) ==
    /\ c \in [0..Len(w) -> Nat]
    /\ \A i, j \in 0..Len(w) : i <= j => c[i] <= c[j]
    /\ \A i \in 1..Len(w) : w[i] = GAP => c[i - 1] < c[i]

AtMost(w, g) == \E c : Counts(c, w) /\ c[Len(w)] <= g

\* Bytes are not silent.
LEMMA BytesAreLoud == ASSUME NEW b \in Seq(Byte) PROVE AtMost(b, 0)
<1> DEFINE n == Len(b)
           c == [i \in 0..n |-> 0]
<1>1. n \in Nat /\ n \in 0..n
  OBVIOUS
<1>2. \A i \in 1..n : b[i] # GAP
  <2>1. \A i \in 1..n : b[i] \in Byte
    OBVIOUS
  <2>2. GAP \notin Byte
    BY DEF GAP, Byte
  <2>3. QED
    BY <2>1, <2>2
<1>3. c \in [0..n -> Nat] /\ \A i \in 0..n : c[i] = 0
  OBVIOUS
<1> HIDE DEF c
<1>4. Counts(c, b)
  BY <1>2, <1>3 DEF Counts
<1>5. c[n] <= 0
  BY <1>1, <1>3
<1>6. QED
  BY <1>4, <1>5 DEF AtMost

\* A silence of n reads.
LEMMA GapsAreSilent == ASSUME NEW n \in Nat PROVE AtMost(Gaps(n), n) /\ Gaps(n) \in Seq(Signals)
<1> DEFINE w == Gaps(n)
           c == [i \in 0..n |-> i]
<1>1. w \in Seq(Signals) /\ Len(w) = n
  BY DEF Gaps, Signals
<1>2. c \in [0..n -> Nat] /\ \A i \in 0..n : c[i] = i
  OBVIOUS
<1> HIDE DEF c
<1>3. Counts(c, w)
  <2>1. \A i \in 1..n : i - 1 \in 0..n /\ i \in 0..n /\ i - 1 < i
    OBVIOUS
  <2>2. \A i \in 1..n : c[i - 1] < c[i]
    BY <1>2, <2>1
  <2> HIDE DEF w
  <2>3. QED
    BY <1>1, <1>2, <2>2 DEF Counts
<1>4. c[n] <= n
  BY <1>2
<1>5. AtMost(w, n)
  <2> HIDE DEF w
  <2>1. QED
    BY <1>1, <1>3, <1>4 DEF AtMost
<1>6. QED
  BY <1>1, <1>5

\* The silences of two lines add up.
LEMMA GapsAdd ==
    ASSUME NEW v \in Seq(Signals), NEW w \in Seq(Signals), NEW g \in Nat, NEW h \in Nat,
           AtMost(v, g), AtMost(w, h)
    PROVE  AtMost(v \o w, g + h) /\ v \o w \in Seq(Signals)
<1> DEFINE m == Len(v)
           n == Len(w)
           u == v \o w
<1>1. PICK c : Counts(c, v) /\ c[m] <= g
  BY DEF AtMost
<1>2. PICK d : Counts(d, w) /\ d[n] <= h
  BY DEF AtMost
<1>3. /\ u \in Seq(Signals) /\ Len(u) = m + n /\ m \in Nat /\ n \in Nat
      /\ \A i \in 1..m : u[i] = v[i]
      /\ \A i \in 1..n : u[m + i] = w[i]
  BY Concatenated
<1>4. /\ c \in [0..m -> Nat]
      /\ \A i, j \in 0..m : i <= j => c[i] <= c[j]
      /\ \A i \in 1..m : v[i] = GAP => c[i - 1] < c[i]
  BY <1>1 DEF Counts
<1>5. /\ d \in [0..n -> Nat]
      /\ \A i, j \in 0..n : i <= j => d[i] <= d[j]
      /\ \A i \in 1..n : w[i] = GAP => d[i - 1] < d[i]
  BY <1>2 DEF Counts
<1> HIDE DEF m, n, u
<1> DEFINE e == [i \in 0..(m + n) |-> IF i <= m THEN c[i] ELSE c[m] + d[i - m]]
<1>6. \A i \in 0..(m + n) : i > m => i - m \in 0..n /\ i - m \in 1..n
  BY <1>3
<1>7. \A i \in 0..(m + n) : i <= m => i \in 0..m
  BY <1>3
<1>8. m \in 0..m /\ c[m] \in Nat /\ c[m] <= g /\ n \in 0..n /\ d[n] \in Nat /\ d[n] <= h
  <2>1. m \in 0..m /\ n \in 0..n
    BY <1>3
  <2>2. c[m] \in Nat /\ d[n] \in Nat
    BY <1>4, <1>5, <2>1
  <2>3. QED
    BY <1>1, <1>2, <2>1, <2>2
<1>9. \A i \in 0..(m + n) : i <= m => e[i] = c[i] /\ e[i] \in Nat /\ e[i] <= c[m]
  BY <1>3, <1>4, <1>7, <1>8
<1>10. \A i \in 0..(m + n) : i > m => e[i] = c[m] + d[i - m] /\ e[i] \in Nat /\ e[i] >= c[m]
  <2> SUFFICES ASSUME NEW i \in 0..(m + n), i > m
               PROVE  e[i] = c[m] + d[i - m] /\ e[i] \in Nat /\ e[i] >= c[m]
    OBVIOUS
  <2>1. e[i] = c[m] + d[i - m]
    BY <1>3
  <2>2. d[i - m] \in Nat
    BY <1>5, <1>6
  <2> HIDE DEF e
  <2>3. QED
    BY <1>8, <2>1, <2>2
<1>11. e \in [0..(m + n) -> Nat]
  <2>1. \A i \in 0..(m + n) : e[i] \in Nat
    BY <1>3, <1>9, <1>10
  <2>2. e = [i \in 0..(m + n) |-> e[i]]
    OBVIOUS
  <2> HIDE DEF e
  <2>3. QED
    BY <2>1, <2>2
<1> HIDE DEF e
<1>12. ASSUME NEW i \in 0..(m + n), NEW j \in 0..(m + n), i <= j PROVE e[i] <= e[j]
  <2>1. CASE j <= m
    <3>1. i <= m /\ i \in 0..m /\ j \in 0..m
      BY <1>3, <1>12, <2>1
    <3>2. QED
      BY <1>4, <1>9, <1>12, <2>1, <3>1
  <2>2. CASE i <= m /\ j > m
    <3>1. e[i] <= c[m] /\ e[j] >= c[m] /\ e[i] \in Nat /\ e[j] \in Nat
      BY <1>9, <1>10, <2>2
    <3>2. QED
      BY <1>8, <3>1
  <2>3. CASE i > m
    <3>1. j > m /\ i - m \in 0..n /\ j - m \in 0..n /\ i - m <= j - m
      BY <1>3, <1>6, <1>12, <2>3
    <3>2. d[i - m] <= d[j - m] /\ d[i - m] \in Nat /\ d[j - m] \in Nat
      BY <1>5, <3>1
    <3>3. e[i] = c[m] + d[i - m] /\ e[j] = c[m] + d[j - m]
      BY <1>10, <2>3, <3>1
    <3>4. QED
      BY <1>8, <3>2, <3>3
  <2>4. QED
    BY <1>3, <2>1, <2>2, <2>3
<1>13. ASSUME NEW i \in 1..(m + n), u[i] = GAP PROVE e[i - 1] < e[i]
  <2>1. i \in 0..(m + n) /\ i - 1 \in 0..(m + n)
    BY <1>3
  <2>2. CASE i <= m
    <3>1. i \in 1..m /\ i - 1 <= m
      BY <1>3, <2>2
    <3>2. c[i - 1] < c[i]
      BY <1>3, <1>4, <1>13, <3>1
    <3>3. QED
      BY <1>9, <2>1, <2>2, <3>1, <3>2
  <2>3. CASE i > m
    <3> DEFINE k == i - m
    <3>1. k \in 1..n /\ m + k = i
      BY <1>3, <2>3
    <3>2. w[k] = GAP
      BY <1>3, <1>13, <3>1
    <3>3. d[k - 1] < d[k] /\ d[k - 1] \in Nat /\ d[k] \in Nat
      <4>1. k - 1 \in 0..n /\ k \in 0..n
        BY <1>3, <3>1
      <4> HIDE DEF k
      <4>2. QED
        BY <1>5, <3>1, <3>2, <4>1
    <3>4. e[i] = c[m] + d[k]
      BY <1>10, <2>1, <2>3
    <3>5. CASE i - 1 > m
      <4>1. e[i - 1] = c[m] + d[(i - 1) - m]
        BY <1>10, <2>1, <3>5
      <4>2. (i - 1) - m = k - 1
        BY <1>3
      <4> HIDE DEF k
      <4>3. QED
        BY <1>8, <3>3, <3>4, <4>1, <4>2
    <3>6. CASE i - 1 <= m
      <4>1. e[i - 1] <= c[m] /\ e[i - 1] \in Nat
        BY <1>9, <2>1, <3>6
      <4>2. d[k] > 0
        BY <3>3
      <4> HIDE DEF k
      <4>3. QED
        BY <1>8, <3>3, <3>4, <4>1, <4>2
    <3>7. QED
      BY <1>3, <2>1, <3>5, <3>6
  <2>4. QED
    BY <1>3, <2>2, <2>3
<1>14. Counts(e, u)
  BY <1>3, <1>11, <1>12, <1>13 DEF Counts
<1>15. e[m + n] <= g + h
  <2>1. m + n \in 0..(m + n)
    BY <1>3
  <2>2. CASE n = 0
    <3>1. m + n <= m
      BY <1>3, <2>2
    <3>2. e[m + n] <= c[m] /\ e[m + n] \in Nat
      BY <1>9, <2>1, <3>1
    <3>3. QED
      BY <1>8, <3>2
  <2>3. CASE n # 0
    <3>1. m + n > m /\ (m + n) - m = n
      BY <1>3, <2>3
    <3>2. e[m + n] = c[m] + d[n]
      BY <1>10, <2>1, <3>1
    <3>3. QED
      BY <1>8, <3>2
  <2>4. QED
    BY <2>2, <2>3
<1>16. QED
  BY <1>3, <1>14, <1>15 DEF AtMost, u

\* What is left of a line has no more silences than it had.
LEMMA GapsLeft ==
    ASSUME NEW w \in Seq(Signals), NEW g \in Nat, AtMost(w, g), NEW k \in 0..Len(w)
    PROVE  AtMost(SubSeq(w, k + 1, Len(w)), g)
<1> DEFINE n == Len(w)
           v == SubSeq(w, k + 1, n)
           m == n - k
<1>1. PICK c : Counts(c, w) /\ c[n] <= g
  BY DEF AtMost
<1>2. /\ c \in [0..n -> Nat]
      /\ \A i, j \in 0..n : i <= j => c[i] <= c[j]
      /\ \A i \in 1..n : w[i] = GAP => c[i - 1] < c[i]
  BY <1>1 DEF Counts
<1>3. n \in Nat /\ k \in Nat /\ k <= n /\ m \in Nat
  OBVIOUS
<1>4. v \in Seq(Signals) /\ Len(v) = m /\ \A i \in 1..m : v[i] = w[k + i]
  <2> DEFINE j == k + 1
  <2>1. j \in Nat /\ n \in Nat /\ 1 <= j /\ j <= n + 1 /\ n <= Len(w) /\ n - j + 1 = m
    BY <1>3
  <2>2. \A i \in 1..m : j + i - 1 = k + i
    BY <1>3
  <2> HIDE DEF j, n
  <2>3. /\ SubSeq(w, j, n) \in Seq(Signals) /\ Len(SubSeq(w, j, n)) = n - j + 1
        /\ \A i \in 1..(n - j + 1) : SubSeq(w, j, n)[i] = w[j + i - 1]
    BY <2>1, Sliced, ZenonT(60)
  <2> HIDE DEF m
  <2>4. SubSeq(w, j, n) = v
    BY DEF j
  <2>5. QED
    BY <2>1, <2>2, <2>3, <2>4, Zenon
<1> HIDE DEF n, v, m
<1> DEFINE e == [i \in 0..m |-> c[k + i]]
<1>5. \A i \in 0..m : k + i \in 0..n
  BY <1>3 DEF m
<1>6. e \in [0..m -> Nat] /\ \A i \in 0..m : e[i] = c[k + i]
  BY <1>2, <1>5
<1> HIDE DEF e
<1>7. \A i, j \in 0..m : i <= j => e[i] <= e[j]
  <2> SUFFICES ASSUME NEW i \in 0..m, NEW j \in 0..m, i <= j PROVE e[i] <= e[j]
    OBVIOUS
  <2>1. k + i <= k + j /\ k + i \in 0..n /\ k + j \in 0..n
    BY <1>3, <1>5
  <2>2. c[k + i] <= c[k + j]
    BY <1>2, <2>1
  <2>3. QED
    BY <1>6, <2>2
<1>8. \A i \in 1..m : v[i] = GAP => e[i - 1] < e[i]
  <2> SUFFICES ASSUME NEW i \in 1..m, v[i] = GAP PROVE e[i - 1] < e[i]
    OBVIOUS
  <2>1. i - 1 \in 0..m /\ i \in 0..m /\ k + (i - 1) = (k + i) - 1 /\ k + i \in 1..n
    BY <1>3 DEF m
  <2>2. w[k + i] = GAP
    BY <1>4
  <2>3. c[(k + i) - 1] < c[k + i]
    BY <1>2, <2>1, <2>2
  <2>4. QED
    BY <1>6, <2>1, <2>3
<1>9. e[m] <= g
  <2>1. m \in 0..m /\ k + m = n
    BY <1>3 DEF m
  <2>2. QED
    BY <1>1, <1>6, <2>1
<1>10. Counts(e, v)
  BY <1>4, <1>6, <1>7, <1>8 DEF Counts
<1>11. AtMost(v, g)
  BY <1>4, <1>9, <1>10 DEF AtMost
<1>12. QED
  BY <1>11 DEF v, n

\* A silence that is over leaves one less.
LEMMA GapPasses ==
    ASSUME NEW w \in Seq(Signals), NEW g \in Nat, AtMost(w, g), w # <<>>, Head(w) = GAP
    PROVE  g >= 1 /\ AtMost(Tail(w), g - 1)
<1> DEFINE n == Len(w)
           v == Tail(w)
           m == n - 1
<1>1. PICK c : Counts(c, w) /\ c[n] <= g
  BY DEF AtMost
<1>2. /\ c \in [0..n -> Nat]
      /\ \A i, j \in 0..n : i <= j => c[i] <= c[j]
      /\ \A i \in 1..n : w[i] = GAP => c[i - 1] < c[i]
  BY <1>1 DEF Counts
<1>3. n \in Nat /\ n >= 1 /\ m \in Nat /\ w[1] = GAP
  OBVIOUS
<1>4. v \in Seq(Signals) /\ Len(v) = m /\ \A i \in 1..m : v[i] = w[i + 1]
  OBVIOUS
<1> HIDE DEF n, v, m
<1>5. c[1] >= 1 /\ 1 \in 0..n /\ n \in 0..n
  <2>1. 1 \in 1..n /\ 1 - 1 = 0 /\ 0 \in 0..n /\ 1 \in 0..n
    BY <1>3
  <2>2. c[1 - 1] < c[1]
    BY <1>2, <1>3, <2>1
  <2>3. c[0] \in Nat /\ c[1] \in Nat /\ c[0] < c[1]
    BY <1>2, <2>1, <2>2
  <2>4. QED
    BY <1>3, <2>1, <2>3
<1>6. \A i \in 1..n : c[i] \in Nat /\ c[i] >= 1
  <2> SUFFICES ASSUME NEW i \in 1..n PROVE c[i] \in Nat /\ c[i] >= 1
    OBVIOUS
  <2>1. i \in 0..n /\ 1 <= i
    BY <1>3
  <2>2. c[1] <= c[i] /\ c[i] \in Nat /\ c[1] \in Nat
    BY <1>2, <1>5, <2>1
  <2>3. QED
    BY <1>5, <2>2
<1>7. g >= 1
  <2>1. n \in 1..n
    BY <1>3
  <2>2. QED
    BY <1>1, <1>6, <2>1
<1> DEFINE e == [i \in 0..m |-> c[i + 1] - 1]
<1>8. \A i \in 0..m : i + 1 \in 1..n /\ i + 1 \in 0..n
  BY <1>3 DEF m
<1>9. \A i \in 0..m : c[i + 1] - 1 \in Nat
  BY <1>6, <1>8
<1>10. e \in [0..m -> Nat] /\ \A i \in 0..m : e[i] = c[i + 1] - 1
  BY <1>9
<1> HIDE DEF e
<1>11. \A i, j \in 0..m : i <= j => e[i] <= e[j]
  <2> SUFFICES ASSUME NEW i \in 0..m, NEW j \in 0..m, i <= j PROVE e[i] <= e[j]
    OBVIOUS
  <2>1. i + 1 <= j + 1 /\ i + 1 \in 0..n /\ j + 1 \in 0..n
    BY <1>3, <1>8
  <2>2. c[i + 1] <= c[j + 1] /\ c[i + 1] \in Nat /\ c[j + 1] \in Nat
    BY <1>2, <2>1
  <2>3. QED
    BY <1>10, <2>2
<1>12. \A i \in 1..m : v[i] = GAP => e[i - 1] < e[i]
  <2> SUFFICES ASSUME NEW i \in 1..m, v[i] = GAP PROVE e[i - 1] < e[i]
    OBVIOUS
  <2>1. i - 1 \in 0..m /\ i \in 0..m /\ (i - 1) + 1 = (i + 1) - 1 /\ i + 1 \in 1..n
        /\ (i + 1) - 1 \in 0..n
    BY <1>3 DEF m
  <2>2. w[i + 1] = GAP
    BY <1>4
  <2>3. c[(i + 1) - 1] < c[i + 1] /\ c[i + 1] \in Nat /\ c[(i + 1) - 1] \in Nat
    BY <1>2, <1>8, <2>1, <2>2
  <2>4. e[i - 1] = c[(i + 1) - 1] - 1 /\ e[i] = c[i + 1] - 1
    BY <1>10, <2>1
  <2>5. QED
    BY <2>3, <2>4
<1>13. e[m] <= g - 1
  <2>1. m \in 0..m /\ m + 1 = n /\ n \in 1..n
    BY <1>3 DEF m
  <2>2. e[m] = c[n] - 1
    BY <1>10, <2>1
  <2>3. QED
    BY <1>1, <1>6, <2>1, <2>2
<1>14. Counts(e, v)
  BY <1>4, <1>10, <1>11, <1>12 DEF Counts
<1>15. AtMost(v, g - 1)
  BY <1>4, <1>13, <1>14 DEF AtMost
<1>16. QED
  BY <1>7, <1>15 DEF v
-----------------------------------------------------------------------------
(***************************************************************************)
(* What the faults so far may cost, and what the line still owes: a try    *)
(* for every silence on it and one for the rest of a telegram.             *)
(***************************************************************************)
Budget == faults * (MaxSilence + 1)
Owes == \E g \in Nat : AtMost(wire, g) /\ retry + g + 1 <= Budget

\* The answer comes in undisturbed, behind the echo or after it.
Clean ==
    /\ meter.at # 0
    /\ \/ /\ handle.echo = TRUE /\ ~again
          /\ \E k \in 0..4 : Coming(RequestBytes(fcb), Answer(meter), k)
       \/ \E k \in 0..(Len(Answer(meter)) - 1) : Coming(Answer(meter), <<>>, k)

Expected == up /\ Quiet /\ Readable(meter.telegrams)
SuccessInv ==
    Expected =>
        /\ pc = "done" /\ retval = 1 => MaxDataRetry < Budget
        /\ pc # "done" => retval = 0 /\ retry <= Budget
        /\ pc = "send" /\ wire # <<>> => Owes
        /\ pc = "read" /\ purging = NoPurge => Clean \/ Owes

\* One more fault.
LEMMA BudgetGrows ==
    ASSUME faults \in Nat
    PROVE  Budget \in Nat /\ (faults' = faults + 1 => Budget' = Budget + MaxSilence + 1)
<1>1. \A a, b \in Nat : a * b \in Nat /\ (a + 1) * b = a * b + b
  OBVIOUS
<1>2. MaxSilence + 1 \in Nat
  BY LinkAssumption
<1>3. Budget \in Nat /\ (faults + 1) * (MaxSilence + 1) = Budget + (MaxSilence + 1)
  BY <1>1, <1>2 DEF Budget
<1>4. ASSUME faults' = faults + 1 PROVE Budget' = Budget + (MaxSilence + 1)
  <2>1. Budget' = faults' * (MaxSilence + 1)
    BY DEF Budget
  <2>2. QED
    BY <1>3, <1>4, <2>1
<1>5. MaxSilence \in Nat
  BY LinkAssumption
<1>6. QED
  BY <1>3, <1>4, <1>5

\* A late byte costs the reads that it outlasts.
LEMMA DelayedGaps ==
    ASSUME NEW b \in Seq(Byte), NEW c \in Delayed(b)
    PROVE  \E n \in 0..MaxSilence : AtMost(c, n)
<1>1. PICK i \in Hit(b), n \in 1..MaxSilence : c = Late(b, i, n)
  BY DEF Delayed
<1>2. i \in 1..Len(b) /\ n \in Nat /\ n \in 0..MaxSilence
  BY HitWithin, LinkAssumption
<1> DEFINE p == SubSeq(b, 1, i - 1)
           q == SubSeq(b, i, Len(b))
<1>3. p \in Seq(Byte) /\ q \in Seq(Byte)
  BY <1>2
<1> HIDE DEF p, q
<1>4. p \in Seq(Signals) /\ q \in Seq(Signals) /\ AtMost(p, 0) /\ AtMost(q, 0)
  BY <1>3, BytesAreSignals, BytesAreLoud
<1>5. Gaps(n) \in Seq(Signals) /\ AtMost(Gaps(n), n) /\ 0 \in Nat
  BY <1>2, GapsAreSilent
<1>6. AtMost(p \o Gaps(n), 0 + n) /\ p \o Gaps(n) \in Seq(Signals)
  BY <1>2, <1>4, <1>5, GapsAdd, Zenon
<1>7. 0 + n = n /\ n + 0 = n
  BY <1>2
<1>8. AtMost((p \o Gaps(n)) \o q, n + 0)
  <2>1. AtMost(p \o Gaps(n), n)
    BY <1>6, <1>7
  <2>2. QED
    BY <1>2, <1>4, <1>5, <1>6, <2>1, GapsAdd, Zenon
<1>9. c = (p \o Gaps(n)) \o q
  BY <1>1, Zenon DEF Late, p, q
<1>10. AtMost(c, n)
  BY <1>7, <1>8, <1>9
<1>11. QED
  BY <1>2, <1>10

\* Bytes behind the line cost nothing.
LEMMA BytesBehind ==
    ASSUME NEW w \in Seq(Signals), NEW g \in Nat, AtMost(w, g), NEW b \in Seq(Byte)
    PROVE  AtMost(w \o b, g) /\ w \o b \in Seq(Signals)
<1>1. b \in Seq(Signals) /\ AtMost(b, 0) /\ 0 \in Nat
  BY BytesAreSignals, BytesAreLoud
<1>2. AtMost(w \o b, g + 0) /\ w \o b \in Seq(Signals)
  BY <1>1, GapsAdd, Zenon
<1>3. g + 0 = g
  OBVIOUS
<1>4. QED
  BY <1>2, <1>3

\* What a request without its fault puts on the line.
LEMMA SendCases ==
    ASSUME LinkInv, SendRequest, up'
    PROVE  LET bytes == Answer(Asked(meter)) IN
           \/ meter' = Asked(meter) /\ faults' = faults /\ wire' = wire \o Echo \o bytes
           \/ faults' = faults + 1 /\ wire' = wire \o Echo
           \/ /\ faults' = faults + 1
              /\ \E b \in Damaged(bytes) \cup Delayed(bytes) : wire' = wire \o Echo \o b
<1>1. SUFFICES ASSUME faults < MaxFaults, handle.transport = "tcp", up' = FALSE PROVE FALSE
  BY DEF SendRequest
<1>2. QED
  BY <1>1

\* A fault costs at most what the budget grows by.
LEMMA SendFault ==
    ASSUME LinkInv, PhaseInv, SendRequest, up', faults' = faults + 1, retry' = retry,
           NEW g \in Nat, AtMost(wire, g), retry + g <= Budget
    PROVE  Owes'
<1> DEFINE bytes == Answer(Asked(meter))
<1>1. fcb \in {0, FCB} /\ meter \in MeterStates /\ wire \in Seq(Signals) /\ faults \in Nat
      /\ retry \in Nat
  BY DEF LinkInv, PhaseInv
<1>2. bytes \in Seq(Byte)
  BY <1>1, AskedType, AnswerType
<1>3. Echo \in Seq(Byte)
  BY <1>1, EchoType
<1> HIDE DEF bytes
<1>4. faults' # faults
  BY <1>1
<1>5. \/ wire' = wire \o Echo
      \/ \E b \in Damaged(bytes) \cup Delayed(bytes) : wire' = wire \o Echo \o b
  BY <1>4, SendCases DEF bytes
<1>6. AtMost(wire \o Echo, g) /\ wire \o Echo \in Seq(Signals)
  BY <1>1, <1>3, BytesBehind
<1> DEFINE v == wire \o Echo
<1> HIDE DEF v
<1>7. AtMost(v, g) /\ v \in Seq(Signals)
  BY <1>6 DEF v
<1>8. \E n \in 0..MaxSilence : AtMost(wire', g + n)
  <2>1. CASE wire' = v
    <3>1. 0 \in 0..MaxSilence /\ g + 0 = g
      BY LinkAssumption
    <3>2. AtMost(wire', g + 0)
      BY <1>7, <2>1, <3>1
    <3>3. QED
      BY <3>1, <3>2
  <2>2. ASSUME NEW b \in Damaged(bytes), wire' = v \o b
        PROVE  \E n \in 0..MaxSilence : AtMost(wire', g + n)
    <3>1. b \in Seq(Byte)
      BY <1>2, <2>2, DamagedType
    <3>2. AtMost(v \o b, g)
      BY <1>7, <3>1, BytesBehind
    <3>3. 0 \in 0..MaxSilence /\ g + 0 = g
      BY LinkAssumption
    <3>4. AtMost(wire', g + 0)
      BY <2>2, <3>2, <3>3
    <3>5. QED
      BY <3>3, <3>4
  <2>3. ASSUME NEW b \in Delayed(bytes), wire' = v \o b
        PROVE  \E n \in 0..MaxSilence : AtMost(wire', g + n)
    <3>1. PICK n \in 0..MaxSilence : AtMost(b, n)
      BY <1>2, DelayedGaps
    <3>2. b \in Seq(Signals) /\ n \in Nat
      BY <1>2, DelayedType, LinkAssumption
    <3>3. AtMost(v \o b, g + n)
      BY <1>7, <3>1, <3>2, GapsAdd
    <3>4. AtMost(wire', g + n)
      BY <2>3, <3>3
    <3>5. QED
      BY <3>4
  <2>4. wire' = v \/ \E b \in Damaged(bytes) \cup Delayed(bytes) : wire' = v \o b
    BY <1>5 DEF v
  <2>5. QED
    BY <2>1, <2>2, <2>3, <2>4
<1>9. PICK n \in 0..MaxSilence : AtMost(wire', g + n)
  BY <1>8
<1>10. PICK h \in Nat : h = g + n /\ AtMost(wire', h)
  BY <1>9, LinkAssumption
<1>11. retry' + h + 1 <= Budget'
  <2>1. Budget \in Nat /\ Budget' = Budget + MaxSilence + 1 /\ MaxSilence \in Nat
    BY <1>1, BudgetGrows, LinkAssumption
  <2>2. QED
    BY <1>1, <1>10, <2>1
<1>12. QED
  BY <1>10, <1>11 DEF Owes

\* The answer comes in undisturbed on an empty line.
LEMMA CleanStarts ==
    ASSUME fcb \in {0, FCB}, handle.echo \in BOOLEAN, Fresh, ~again',
           fcb' = fcb, handle' = handle, meter'.at # 0,
           NEW b, IsFrame(b), b = Answer(meter)', wire' = <<>> \o Echo \o b
    PROVE  Clean'
<1>1. b \in Seq(Byte) /\ Len(b) \in Nat /\ Len(b) >= 1
  BY DEF IsFrame
<1>2. buff' = <<>> /\ remaining' = 1
  BY DEF Fresh
<1>3. CASE handle.echo = FALSE
  <2>1. Echo = <<>>
    BY <1>3 DEF Echo
  <2>2. <<>> \o <<>> = <<>> /\ <<>> \o b = b /\ b \o <<>> = b /\ <<>> \in Seq(Byte)
    BY <1>1
  <2>3. wire' = b
    BY <2>1, <2>2
  <2>4. SubSeq(b, 1, 0) = <<>> /\ Left(b, <<>>, 0) = b
    BY <1>1, <2>2, ComingStarts
  <2>5. 1 \in 1..(Len(b) - 0) /\ 0 \in 0..(Len(b) - 1)
    BY <1>1
  <2>6. buff' = SubSeq(b, 1, 0) /\ wire' = Left(b, <<>>, 0) /\ remaining' \in 1..(Len(b) - 0)
    BY <1>2, <2>3, <2>4, <2>5
  <2>7. Coming(b, <<>>, 0)'
    BY <2>6 DEF Coming
  <2>8. (\E k \in 0..(Len(Answer(meter)) - 1) : Coming(Answer(meter), <<>>, k))'
    BY <2>5, <2>7
  <2>9. QED
    BY <2>8 DEF Clean
<1>4. CASE handle.echo = TRUE
  <2>1. PICK p : p = RequestBytes(fcb)
    OBVIOUS
  <2>2. Echo = p
    BY <1>4, <2>1, EchoIs
  <2>3. p \in Seq(Byte) /\ Len(p) = 5
    <3>1. p \in Seq(Byte)
      BY <2>1, RequestIsFrame DEF IsFrame
    <3>2. Len(p) = 5
      BY <2>1 DEF RequestBytes
    <3>3. QED
      BY <3>1, <3>2
  <2>4. <<>> \o p = p
    BY <2>3
  <2>5. SubSeq(p, 1, 0) = <<>> /\ Left(p, b, 0) = p \o b
    BY <1>1, <2>3, ComingStarts
  <2>6. 1 \in 1..(Len(p) - 0) /\ 0 \in 0..4
    BY <2>3
  <2>7. buff' = SubSeq(p, 1, 0) /\ wire' = Left(p, b, 0) /\ remaining' \in 1..(Len(p) - 0)
    BY <1>2, <2>2, <2>4, <2>5, <2>6
  <2>8. Coming(p, b, 0)'
    BY <2>7 DEF Coming
  <2>9. p = RequestBytes(fcb)'
    BY <2>1 DEF RequestBytes
  <2>10. (\E k \in 0..4 : Coming(RequestBytes(fcb), Answer(meter), k))'
    BY <2>6, <2>8, <2>9
  <2>11. handle'.echo = TRUE
    BY <1>4
  <2>12. QED
    BY <2>10, <2>11 DEF Clean
<1>5. QED
  BY <1>3, <1>4
-----------------------------------------------------------------------------
\* The line as it is may be charged to the budget when a request is sent.
LEMMA SendOwes ==
    ASSUME LinkInv, PhaseInv, SuccessInv, Expected, pc = "send"
    PROVE  \E g \in Nat : AtMost(wire, g) /\ retry + g <= Budget /\ (wire # <<>> => retry + g + 1 <= Budget)
<1>1. retry <= Budget /\ (wire # <<>> => Owes) /\ retry \in Nat /\ Budget \in Nat
  BY BudgetGrows DEF SuccessInv, PhaseInv
<1>2. CASE wire = <<>>
  <2>1. AtMost(<<>>, 0)
    <3>1. <<>> \in Seq(Byte)
      OBVIOUS
    <3>2. QED
      BY <3>1, BytesAreLoud
  <2>2. 0 \in Nat /\ AtMost(wire, 0) /\ retry + 0 <= Budget
    BY <1>1, <1>2, <2>1
  <2>3. QED
    BY <1>2, <2>2
<1>3. CASE wire # <<>>
  <2>1. PICK g \in Nat : AtMost(wire, g) /\ retry + g + 1 <= Budget
    BY <1>1, <1>3 DEF Owes
  <2>2. retry + g <= Budget
    BY <1>1, <2>1
  <2>3. QED
    BY <2>1, <2>2
<1>4. QED
  BY <1>2, <1>3

\* A meter that is asked answers with a telegram, if it has one.
LEMMA AskedAnswers ==
    ASSUME LinkInv, PhaseInv, ExactInv, Expected, pc = "send"
    PROVE  /\ Asked(meter).at # 0
           /\ IsFrame(Answer(Asked(meter)))
<1> DEFINE m == Asked(meter)
           N == Len(meter.telegrams)
<1>1. /\ m.telegrams = meter.telegrams
      /\ m.at = IF fcb = meter.fcb \/ meter.at = N THEN meter.at ELSE meter.at + 1
  BY DEF Asked, LinkInv, MeterStates
<1>2. meter.telegrams # <<>> /\ Quiet
  BY DEF Expected, Readable
<1>3. NotAsked \/ WasAsked
  BY <1>2 DEF ExactInv, NoTelegrams
<1>4. meter.at \in Nat /\ N \in Nat /\ N # 0 /\ Len(frames) \in Nat
  BY <1>2 DEF LinkInv, MeterStates
<1> HIDE DEF m, N
<1>5. m.at # 0
  <2>1. CASE NotAsked
    BY <1>1, <1>4, <2>1 DEF NotAsked, N
  <2>2. CASE WasAsked
    BY <1>1, <1>4, <2>2 DEF WasAsked
  <2>3. QED
    BY <1>3, <2>1, <2>2
<1>6. m \in MeterStates
  BY AskedType DEF LinkInv, m
<1>7. m.telegrams[m.at] \in Telegrams
  <2>1. m.telegrams \in Seq(Telegrams) /\ m.at \in Nat /\ m.at <= Len(m.telegrams)
    BY <1>6 DEF MeterStates
  <2>2. m.at \in 1..Len(m.telegrams)
    BY <1>5, <2>1
  <2>3. QED
    BY <2>1, <2>2
<1>8. Answer(m) = TelegramBytes(m.telegrams[m.at])
  BY <1>5 DEF Answer
<1>9. IsFrame(Answer(m))
  BY <1>7, <1>8, TelegramIsFrame
<1>10. QED
  BY <1>5, <1>9 DEF m

\* A request that is sent on an empty line is answered cleanly, a fault is charged to the budget.
LEMMA SuccessSend ==
    ASSUME LinkInv, PhaseInv, ExactInv, SuccessInv, SendRequest
    PROVE  SuccessInv'
<1>1. /\ pc = "send" /\ pc' = "read" /\ Fresh /\ up
      /\ UNCHANGED <<handle, retval, retry, fcb, again, purging, misread, strayed>>
      /\ meter' = Asked(meter) \/ meter' = meter
      /\ faults' = faults \/ faults' = faults + 1
  BY DEF SendRequest, Sent, request, history
<1>2. meter'.telegrams = meter.telegrams
  <2>1. Asked(meter).telegrams = meter.telegrams
    BY DEF Asked, LinkInv, MeterStates
  <2>2. QED
    BY <1>1, <2>1
<1>3. SUFFICES ASSUME Expected' PROVE
        /\ (retval = 0 /\ retry <= Budget)'
        /\ (Clean \/ Owes)'
  BY <1>1 DEF SuccessInv
<1>4. Expected /\ up'
  BY <1>1, <1>2, <1>3 DEF Expected, Quiet
<1>5. retval = 0 /\ retry <= Budget /\ retry \in Nat /\ Budget \in Nat /\ Budget' \in Nat /\ Budget <= Budget'
  <2>1. faults \in Nat /\ retry \in Nat /\ MaxSilence \in Nat
    BY LinkAssumption DEF PhaseInv
  <2>2. Budget \in Nat /\ (faults' = faults + 1 => Budget' = Budget + MaxSilence + 1)
    BY <2>1, BudgetGrows
  <2>3. faults' = faults => Budget' = Budget
    BY DEF Budget
  <2>4. QED
    BY <1>1, <1>4, <2>1, <2>2, <2>3 DEF SuccessInv
<1>6. (retval = 0 /\ retry <= Budget)'
  BY <1>1, <1>5
<1>7. PICK g \in Nat : AtMost(wire, g) /\ retry + g <= Budget /\ (wire # <<>> => retry + g + 1 <= Budget)
  BY <1>1, <1>4, SendOwes
<1>8. CASE faults' = faults + 1
  <2>1. Owes'
    BY <1>1, <1>4, <1>7, <1>8, SendFault
  <2>2. QED
    BY <1>6, <2>1
<1>9. CASE faults' = faults
  <2>1. faults' # faults + 1
    BY <1>9 DEF PhaseInv
  <2> DEFINE b == Answer(Asked(meter))
  <2>2. meter' = Asked(meter) /\ wire' = wire \o Echo \o b
    BY <1>4, <2>1, SendCases
  <2>3. b = Answer(meter)'
    BY <2>2 DEF Answer
  <2>4. Asked(meter).at # 0 /\ IsFrame(b)
    BY <1>1, <1>4, AskedAnswers
  <2> HIDE DEF b
  <2>5. CASE wire = <<>>
    <3>1. wire' = <<>> \o Echo \o b
      BY <2>2, <2>5
    <3>2. fcb \in {0, FCB} /\ handle.echo \in BOOLEAN /\ ~again'
      BY <1>1, LinkAssumption DEF PhaseInv, LinkInv
    <3>3. meter'.at # 0 /\ fcb' = fcb /\ handle' = handle
      BY <1>1, <2>2, <2>4
    <3>4. Clean'
      BY <1>1, <2>3, <2>4, <3>1, <3>2, <3>3, CleanStarts
    <3>5. QED
      BY <1>6, <3>4
  <2>6. CASE wire # <<>>
    <3>1. wire \in Seq(Signals) /\ Echo \in Seq(Byte) /\ b \in Seq(Byte)
      <4>1. b \in Seq(Byte)
        BY <2>4 DEF IsFrame
      <4>2. QED
        BY <4>1, EchoType DEF LinkInv
    <3>2. AtMost(wire \o Echo, g) /\ wire \o Echo \in Seq(Signals)
      BY <1>7, <3>1, BytesBehind
    <3> DEFINE v == wire \o Echo
    <3> HIDE DEF v
    <3>3. AtMost(v \o b, g)
      <4>1. AtMost(v, g) /\ v \in Seq(Signals)
        BY <3>2 DEF v
      <4>2. QED
        BY <3>1, <4>1, BytesBehind
    <3>4. AtMost(wire', g)
      BY <2>2, <3>3 DEF v
    <3>5. Budget' = Budget
      BY <1>9 DEF Budget
    <3>6. retry' + g + 1 <= Budget'
      BY <1>1, <1>7, <2>6, <3>5
    <3>7. Owes'
      BY <3>4, <3>6 DEF Owes
    <3>8. QED
      BY <1>6, <3>7
  <2>7. QED
    BY <2>5, <2>6
<1>10. QED
  BY <1>1, <1>8, <1>9

\* The frame of a telegram comes from a slave.
LEMMA AnswerIsFromSlave ==
    ASSUME NEW t \in Telegrams
    PROVE  mbus_frame_direction(AnswerFrame(t)) = "S2M" /\ AnswerFrame(t).type # "ACK"
<1> DEFINE f == AnswerFrame(t)
<1>1. f.control = RSP_UD /\ f.type \in {"CONTROL", "LONG"}
  BY DEF AnswerFrame
<1> HIDE DEF f
<1>2. ~Has(RSP_UD, DIR_M2S)
  BY DEF Has, RSP_UD, DIR_M2S
<1>3. mbus_frame_direction(f) = "S2M" /\ f.type # "ACK"
  BY <1>1, <1>2 DEF mbus_frame_direction
<1>4. QED
  BY <1>3 DEF f

\* What is owed while the request receives.
LEMMA OwesLess ==
    ASSUME NEW g \in Nat, AtMost(wire', g), retry + g + 1 <= Budget, retry' = retry,
           faults' = faults
    PROVE  Owes'
<1>1. Budget' = Budget
  BY DEF Budget
<1>2. retry' + g + 1 <= Budget'
  BY <1>1
<1>3. QED
  BY <1>2 DEF Owes

\* A purge that goes on or ends, and a receive that begins again, cost nothing.
LEMMA SuccessReceive ==
    ASSUME PhaseInv, SuccessInv, Expected, Expected', pc = "read", UNCHANGED <<handle, meter, faults>>,
           pc' \in {"read", "send", "process"}, retval' = 0, retry' \in Nat, retry' <= Budget,
           pc' = "send" /\ wire' # <<>> => Owes',
           pc' = "read" /\ purging' = NoPurge => Clean' \/ Owes'
    PROVE  SuccessInv'
<1>1. Budget' = Budget
  BY DEF Budget
<1>2. retry' <= Budget'
  BY <1>1
<1>3. QED
  BY <1>2 DEF SuccessInv
-----------------------------------------------------------------------------
\* A receive that ends with something owed, or in a purge.
LEMMA ReturnedOwes ==
    ASSUME PhaseInv, SuccessInv, Expected, Expected', pc = "read", UNCHANGED <<handle, meter, faults>>,
           NEW f, NEW result \in Results, Returned(result, f), result # "RESET",
           purging = NoPurge => \E g \in Nat : AtMost(wire', g) /\ retry + g + 1 <= Budget,
           purging = NoPurge /\ result = "TIMEOUT" /\ wire' # <<>> =>
                \E g \in Nat : AtMost(wire', g) /\ (retry + 1) + g + 1 <= Budget
    PROVE  SuccessInv'
<1>1. ReceivesAgain(f) \/ IsAnswered(result, f) \/ PurgesOn \/ PurgeEnds
  BY ReturnedCases
<1>2. retval = 0 /\ retry <= Budget /\ retry \in Nat /\ Budget \in Nat
  BY BudgetGrows DEF SuccessInv, PhaseInv
<1>3. Budget' = Budget
  BY DEF Budget
<1>4. CASE ReceivesAgain(f)
  <2>1. pc' = "read" /\ retval' = 0 /\ retry' = retry /\ purging' = purging
    BY <1>2, <1>4 DEF ReceivesAgain
  <2>2. purging' = NoPurge => Owes'
    <3>1. SUFFICES ASSUME purging = NoPurge PROVE Owes'
      BY <2>1
    <3>2. QED
      BY <2>1, <3>1, OwesLess
  <2>3. QED
    BY <1>2, <2>1, <2>2, SuccessReceive
<1>5. CASE IsAnswered(result, f)
  <2>1. purging = NoPurge
    BY <1>5 DEF IsAnswered
  <2>2. PICK g \in Nat : AtMost(wire', g) /\ retry + g + 1 <= Budget
    BY <2>1
  <2>3. CASE result = "OK"
    <3>1. pc' = "read" /\ purging' = "process" /\ retry' = 0 /\ retval' = 0
      BY <1>2, <1>5, <2>3 DEF IsAnswered
    <3>2. 0 <= Budget /\ "process" # NoPurge
      BY <1>2 DEF NoPurge
    <3>3. QED
      BY <3>1, <3>2, SuccessReceive
  <2>4. CASE result = "INVALID"
    <3>1. pc' = "read" /\ purging' = "send" /\ retry' = retry + 1 /\ retval' = 0
      BY <1>2, <1>5, <2>4 DEF IsAnswered
    <3>2. "send" # NoPurge
      BY DEF NoPurge
    <3>3. retry' \in Nat /\ retry' <= Budget
      BY <1>2, <2>2, <3>1
    <3>4. QED
      BY <3>1, <3>2, <3>3, SuccessReceive
  <2>5. CASE result = "TIMEOUT"
    <3>1. pc' = "send" /\ purging' = NoPurge /\ retry' = retry + 1 /\ retval' = 0
      BY <1>2, <1>5, <2>5 DEF IsAnswered
    <3>2. retry' \in Nat /\ retry' <= Budget
      BY <1>2, <2>2, <3>1
    <3>3. ASSUME wire' # <<>> PROVE Owes'
      <4>1. PICK h \in Nat : AtMost(wire', h) /\ (retry + 1) + h + 1 <= Budget
        BY <2>1, <2>5, <3>3
      <4>2. retry' + h + 1 <= Budget'
        BY <1>3, <3>1, <4>1
      <4>3. QED
        BY <4>1, <4>2 DEF Owes
    <3>4. QED
      BY <3>1, <3>2, <3>3, SuccessReceive
  <2>6. QED
    BY <2>3, <2>4, <2>5 DEF Results
<1>6. CASE PurgesOn
  <2>1. pc' = "read" /\ retval' = 0 /\ retry' = retry /\ purging' # NoPurge
    BY <1>2, <1>6 DEF PurgesOn
  <2>2. QED
    BY <1>2, <2>1, SuccessReceive
<1>7. CASE PurgeEnds
  <2>1. pc' = purging /\ purging # NoPurge /\ strayed' = (strayed \/ wire' # <<>>)
        /\ retval' = 0 /\ retry' = retry
    BY <1>2, <1>7 DEF PurgeEnds
  <2>2. pc' \in {"send", "process"}
    BY <2>1 DEF PhaseInv
  <2>3. wire' = <<>>
    <3>1. ~strayed'
      BY DEF Expected, Quiet
    <3>2. QED
      BY <2>1, <3>1
  <2>4. QED
    BY <1>2, <2>1, <2>2, <2>3, SuccessReceive
<1>8. QED
  BY <1>1, <1>4, <1>5, <1>6, <1>7

\* A read of the answer, as it comes in undisturbed.
LEMMA SuccessRead_Clean ==
    ASSUME LinkInv, PhaseInv, ExactInv, SuccessInv, Expected, Expected', Read, Clean, purging = NoPurge
    PROVE  SuccessInv'
<1>1. /\ pc = "read" /\ UNCHANGED <<handle, meter, faults, fcb>>
      /\ retval = 0 /\ retry <= Budget /\ retry \in Nat /\ Budget \in Nat
  <2>1. pc = "read" /\ UNCHANGED <<handle, meter, faults, fcb>>
    BY ReadCases DEF line
  <2>2. QED
    BY <2>1, BudgetGrows DEF SuccessInv, PhaseInv
<1>2. PICK t \in Telegrams, b \in Seq(Byte) :
        b = TelegramBytes(t) /\ b = Answer(meter) /\ IsFrame(b) /\ Len(b) >= 1
  <2>1. meter.telegrams \in Seq(Telegrams) /\ meter.at \in Nat /\ meter.at <= Len(meter.telegrams)
        /\ meter.at # 0
    BY DEF LinkInv, MeterStates, Clean
  <2>2. meter.at \in 1..Len(meter.telegrams)
    BY <2>1
  <2>3. meter.telegrams[meter.at] \in Telegrams
    BY <2>1, <2>2
  <2> DEFINE t == meter.telegrams[meter.at]
  <2>4. Answer(meter) = TelegramBytes(t)
    BY <2>1 DEF Answer
  <2>5. IsFrame(TelegramBytes(t))
    BY <2>3, TelegramIsFrame
  <2>6. TelegramBytes(t) \in Seq(Byte) /\ Len(TelegramBytes(t)) >= 1
    <3> DEFINE c == TelegramBytes(t)
    <3> HIDE DEF c
    <3>1. c \in Seq(Byte) /\ c # <<>>
      BY <2>5 DEF IsFrame, c
    <3>2. c \in Seq(Byte) /\ Len(c) >= 1
      BY <3>1
    <3>3. QED
      BY <3>2 DEF c
  <2>7. QED
    BY <2>3, <2>4, <2>5, <2>6
<1>3. b = Answer(meter)' /\ meter'.at # 0
  BY <1>1, <1>2 DEF Answer, Clean
<1>4. Memory \in Frames
  BY DEF LinkInv, Memory
<1>5. CASE /\ handle.echo = TRUE /\ ~again
           /\ \E k \in 0..4 : Coming(RequestBytes(fcb), Answer(meter), k)
  <2>1. PICK p : p = RequestBytes(fcb) /\ fcb \in {0, FCB}
    BY DEF LinkInv
  <2>2. IsFrame(p) /\ Len(p) = 5
        /\ \A f \in Frames : mbus_frame_direction(mbus_parse(f, p).frame) = "M2S"
    <3>1. Len(p) = 5
      BY <2>1 DEF RequestBytes
    <3>2. QED
      BY <2>1, <3>1, RequestIsFrame
  <2>3. PICK k \in 0..4 : Coming(p, b, k)
    BY <1>2, <1>5, <2>1
  <2>4. k \in 0..(Len(p) - 1)
    BY <2>2
  <2>5. \/ /\ UNCHANGED <<pc, retval, retry, again, purging, history>>
           /\ \E j \in 0..(Len(p) - 1) : Coming(p, b, j)'
        \/ wire' = b /\ Returned("OK", mbus_parse(Memory, p).frame)
    BY <1>2, <2>2, <2>3, <2>4, ComingRead
  <2>6. CASE /\ UNCHANGED <<pc, retval, retry, again, purging, history>>
             /\ \E j \in 0..(Len(p) - 1) : Coming(p, b, j)'
    <3>1. PICK j \in 0..4 : Coming(p, b, j)'
      BY <2>2, <2>6
    <3>2. p = RequestBytes(fcb)'
      BY <1>1, <2>1 DEF RequestBytes
    <3>3. (\E i \in 0..4 : Coming(RequestBytes(fcb), Answer(meter), i))'
      BY <1>3, <3>1, <3>2
    <3>4. handle'.echo = TRUE /\ ~again'
      BY <1>1, <1>5, <2>6
    <3>5. Clean'
      BY <1>3, <3>3, <3>4 DEF Clean
    <3>6. QED
      BY <1>1, <2>6, <3>5, SuccessReceive
  <2>7. CASE wire' = b /\ Returned("OK", mbus_parse(Memory, p).frame)
    <3> DEFINE f == mbus_parse(Memory, p).frame
    <3>1. mbus_frame_direction(f) = "M2S" /\ Returned("OK", f)
      BY <1>4, <2>2, <2>7
    <3> HIDE DEF f
    <3>2. handle.purge = "M2S"
      BY <1>5, StandardAssumption DEF HandleAssumption, PhaseInv
    <3>3. Fresh /\ UNCHANGED <<pc, retval, retry, purging>>
      BY <1>5, <3>1, <3>2 DEF Returned
    <3>4. SubSeq(b, 1, 0) = <<>> /\ Left(b, <<>>, 0) = b
      <4>1. <<>> \in Seq(Byte) /\ b \o <<>> = b
        BY <1>2
      <4>2. QED
        BY <1>2, <4>1, ComingStarts
    <3>5. 1 \in 1..(Len(b) - 0) /\ 0 \in 0..(Len(b) - 1)
      BY <1>2
    <3>6. buff' = SubSeq(b, 1, 0) /\ wire' = Left(b, <<>>, 0) /\ remaining' \in 1..(Len(b) - 0)
      BY <2>7, <3>3, <3>4, <3>5 DEF Fresh
    <3>7. Coming(b, <<>>, 0)'
      BY <3>6 DEF Coming
    <3>8. Clean'
      BY <1>3, <3>5, <3>7 DEF Clean
    <3>9. QED
      BY <1>1, <3>3, <3>8, SuccessReceive
  <2>8. QED
    BY <2>5, <2>6, <2>7
<1>6. CASE \E k \in 0..(Len(Answer(meter)) - 1) : Coming(Answer(meter), <<>>, k)
  <2>1. PICK k \in 0..(Len(b) - 1) : Coming(b, <<>>, k)
    BY <1>2, <1>6
  <2>2. <<>> \in Seq(Byte)
    OBVIOUS
  <2>3. \/ /\ UNCHANGED <<pc, retval, retry, again, purging, history>>
           /\ \E j \in 0..(Len(b) - 1) : Coming(b, <<>>, j)'
        \/ wire' = <<>> /\ Returned("OK", mbus_parse(Memory, b).frame)
    BY <1>2, <2>1, <2>2, ComingRead
  <2>4. CASE /\ UNCHANGED <<pc, retval, retry, again, purging, history>>
             /\ \E j \in 0..(Len(b) - 1) : Coming(b, <<>>, j)'
    <3>1. Clean'
      BY <1>3, <2>4 DEF Clean
    <3>2. QED
      BY <1>1, <2>4, <3>1, SuccessReceive
  <2>5. CASE wire' = <<>> /\ Returned("OK", mbus_parse(Memory, b).frame)
    <3> DEFINE f == mbus_parse(Memory, b).frame
    <3>1. f = AnswerFrame(t)
      <4>1. mbus_parse(Memory, b) = Parsed(0, AnswerFrame(t))
        BY <1>2, <1>4, TelegramIsFrame
      <4>2. QED
        BY <4>1 DEF Parsed
    <3>2. mbus_frame_direction(f) = "S2M" /\ Returned("OK", f)
      BY <2>5, <3>1, AnswerIsFromSlave
    <3> HIDE DEF f
    <3>3. handle.purge # "S2M"
      BY StandardAssumption DEF HandleAssumption, PhaseInv
    <3>4. IsAnswered("OK", f)
      <4>1. ReceivesAgain(f) \/ IsAnswered("OK", f) \/ PurgesOn \/ PurgeEnds
        BY <3>2, ReturnedCases DEF Results
      <4>2. ~ReceivesAgain(f)
        BY <3>2, <3>3 DEF ReceivesAgain
      <4>3. ~PurgesOn /\ ~PurgeEnds
        BY DEF PurgesOn, PurgeEnds
      <4>4. QED
        BY <4>1, <4>2, <4>3
    <3>5. pc' = "read" /\ purging' = "process" /\ retry' = 0 /\ retval' = 0
      BY <1>1, <3>4 DEF IsAnswered
    <3>6. 0 <= Budget /\ "process" # NoPurge
      BY <1>1 DEF NoPurge
    <3>7. QED
      BY <1>1, <3>5, <3>6, SuccessReceive
  <2>6. QED
    BY <2>3, <2>4, <2>5
<1>7. QED
  BY <1>5, <1>6 DEF Clean
-----------------------------------------------------------------------------
\* What is expected after a receive was expected before.
LEMMA ExpectedBefore ==
    ASSUME UNCHANGED line, Quiet' => Quiet, Expected'
    PROVE  Expected
  BY DEF Expected, line

\* A read: of the answer, of what is owed, or of a purge.
LEMMA SuccessRead ==
    ASSUME LinkInv, PhaseInv, ExactInv, SuccessInv, Read
    PROVE  SuccessInv'
<1> DEFINE r == mbus_parse(Memory, buff \o Arrived)
<1>1. /\ pc = "read" /\ wire' = SubSeq(wire, Len(Arrived) + 1, Len(wire))
      /\ UNCHANGED line
      /\ \/ ReadOn(r)
         \/ Returned("INVALID", r.frame)
         \/ Returned("OK", r.frame)
  BY ReadCases
<1> HIDE DEF r
<1>2. UNCHANGED <<handle, meter, faults>>
  BY <1>1 DEF line
<1>3. Quiet' => Quiet
  <2>1. CASE ReadOn(r)
    BY <2>1 DEF ReadOn, history, Quiet
  <2>2. CASE \E result \in Results : Returned(result, r.frame)
    BY <1>1, <2>2, ReturnedEnds
  <2>3. QED
    BY <1>1, <2>1, <2>2 DEF Results
<1>4. SUFFICES ASSUME Expected' PROVE SuccessInv'
  BY DEF SuccessInv
<1>5. Expected
  BY <1>1, <1>3, <1>4, ExpectedBefore
<1>6. retval = 0 /\ retry <= Budget /\ retry \in Nat /\ (purging = NoPurge => Clean \/ Owes)
  BY <1>1, <1>5 DEF SuccessInv, PhaseInv
<1>7. CASE purging = NoPurge /\ Clean
  BY <1>4, <1>5, <1>7, SuccessRead_Clean
<1>8. CASE purging = NoPurge => Owes
  <2>1. purging = NoPurge => \E g \in Nat : AtMost(wire', g) /\ retry + g + 1 <= Budget
    <3>1. SUFFICES ASSUME purging = NoPurge
                   PROVE  \E g \in Nat : AtMost(wire', g) /\ retry + g + 1 <= Budget
      OBVIOUS
    <3>2. PICK g \in Nat : AtMost(wire, g) /\ retry + g + 1 <= Budget
      BY <1>8, <3>1 DEF Owes
    <3>3. wire \in Seq(Signals) /\ Len(Arrived) \in 0..Len(wire)
      BY ArrivedType DEF LinkInv
    <3> DEFINE k == Len(Arrived)
    <3> HIDE DEF k
    <3>4. AtMost(SubSeq(wire, k + 1, Len(wire)), g)
      BY <3>2, <3>3, GapsLeft DEF k
    <3>5. AtMost(wire', g)
      BY <1>1, <3>4 DEF k
    <3>6. QED
      BY <3>2, <3>5
  <2>2. CASE ReadOn(r)
    <3>1. UNCHANGED <<pc, retval, retry, purging>>
      BY <2>2 DEF ReadOn
    <3>2. ASSUME purging = NoPurge PROVE Owes'
      BY <1>2, <2>1, <3>1, <3>2, OwesLess
    <3>3. QED
      BY <1>1, <1>2, <1>4, <1>5, <1>6, <3>1, <3>2, SuccessReceive
  <2>3. CASE \E result \in {"INVALID", "OK"} : Returned(result, r.frame)
    <3>1. PICK result \in {"INVALID", "OK"} : Returned(result, r.frame)
      BY <2>3
    <3>2. result \in Results /\ result # "RESET" /\ result # "TIMEOUT"
      BY DEF Results
    <3> DEFINE f == r.frame
    <3>3. Returned(result, f)
      BY <3>1
    <3> HIDE DEF f
    <3>4. QED
      BY <1>1, <1>2, <1>4, <1>5, <2>1, <3>2, <3>3, ReturnedOwes
  <2>4. QED
    BY <1>1, <2>2, <2>3
<1>9. QED
  BY <1>6, <1>7, <1>8

\* A silence is owed, or ends a purge.
LEMMA SuccessSilence ==
    ASSUME LinkInv, PhaseInv, ExactInv, SuccessInv, Silence
    PROVE  SuccessInv'
<1>1. /\ pc = "read" /\ Silent
      /\ wire' = IF wire = <<>> THEN wire ELSE Tail(wire)
      /\ UNCHANGED line
      /\ \/ Returned("TIMEOUT", Memory)
         \/ wire = <<>> /\ ~up /\ Returned("RESET", Memory)
         \/ Returned("INVALID", Memory)
         \/ Waits
  BY SilenceCases
<1>2. UNCHANGED <<handle, meter, faults>>
  BY <1>1 DEF line
<1>3. Quiet' => Quiet
  <2>1. CASE \E result \in Results : Returned(result, Memory)
    BY <1>1, <2>1, ReturnedEnds
  <2>2. CASE Waits
    BY <2>2 DEF Waits, history, Quiet
  <2>3. QED
    BY <1>1, <2>1, <2>2 DEF Results
<1>4. SUFFICES ASSUME Expected' PROVE SuccessInv'
  BY DEF SuccessInv
<1>5. Expected /\ up
  BY <1>1, <1>3, <1>4, ExpectedBefore DEF Expected
<1>6. retval = 0 /\ retry <= Budget /\ retry \in Nat /\ (purging = NoPurge => Clean \/ Owes)
  BY <1>1, <1>5 DEF SuccessInv, PhaseInv
<1>7. ~Clean
  <2>1. SUFFICES ASSUME Clean PROVE ~Silent
    BY <1>1
  <2>2. CASE \E k \in 0..4 : Coming(RequestBytes(fcb), Answer(meter), k)
    <3>1. PICK k \in 0..4 : Coming(RequestBytes(fcb), Answer(meter), k)
      BY <2>2
    <3>2. PICK p : p = RequestBytes(fcb) /\ fcb \in {0, FCB}
      BY DEF LinkInv
    <3>3. IsFrame(p) /\ Len(p) = 5
      <4>1. Len(p) = 5
        BY <3>2 DEF RequestBytes
      <4>2. QED
        BY <3>2, <4>1, RequestIsFrame
    <3>4. k \in 0..(Len(p) - 1)
      BY <3>3
    <3>5. Answer(meter) \in Seq(Byte) /\ Coming(p, Answer(meter), k)
      BY <3>1, <3>2, AnswerType DEF LinkInv
    <3>6. QED
      BY <3>3, <3>4, <3>5, ComingIsLoud
  <2>3. CASE \E k \in 0..(Len(Answer(meter)) - 1) : Coming(Answer(meter), <<>>, k)
    <3>1. PICK b : b = Answer(meter)
      OBVIOUS
    <3>2. PICK k \in 0..(Len(b) - 1) : Coming(b, <<>>, k)
      BY <2>3, <3>1
    <3>3. IsFrame(b)
      <4>1. meter.telegrams \in Seq(Telegrams) /\ meter.at \in Nat
            /\ meter.at <= Len(meter.telegrams) /\ meter.at # 0
        BY <2>1 DEF LinkInv, MeterStates, Clean
      <4>2. meter.at \in 1..Len(meter.telegrams)
        BY <4>1
      <4>3. meter.telegrams[meter.at] \in Telegrams
        BY <4>1, <4>2
      <4>4. Answer(meter) = TelegramBytes(meter.telegrams[meter.at])
        BY <4>1 DEF Answer
      <4>5. QED
        BY <3>1, <4>3, <4>4, TelegramIsFrame
    <3>4. <<>> \in Seq(Byte)
      OBVIOUS
    <3>5. QED
      BY <3>2, <3>3, <3>4, ComingIsLoud
  <2>4. QED
    BY <2>1, <2>2, <2>3 DEF Clean
<1>8. wire \in Seq(Signals)
  BY DEF LinkInv
<1>9. ASSUME purging = NoPurge
      PROVE  \E g \in Nat : /\ AtMost(wire', g) /\ retry + g + 1 <= Budget
                            /\ wire' # <<>> => (retry + 1) + g + 1 <= Budget
  <2>1. PICK g \in Nat : AtMost(wire, g) /\ retry + g + 1 <= Budget
    BY <1>6, <1>7, <1>9 DEF Owes
  <2>2. CASE wire = <<>>
    BY <1>1, <2>1, <2>2
  <2>3. CASE wire # <<>>
    <3>1. Head(wire) = GAP /\ wire' = Tail(wire)
      BY <1>1, <2>3 DEF Silent
    <3>2. g >= 1 /\ AtMost(Tail(wire), g - 1)
      BY <1>8, <2>1, <2>3, <3>1, GapPasses
    <3>3. PICK h \in Nat : h = g - 1
      BY <3>2
    <3>4. AtMost(wire', h)
      BY <3>1, <3>2, <3>3
    <3>5. Budget \in Nat
      BY BudgetGrows DEF PhaseInv
    <3>6. retry + h + 1 <= Budget /\ (retry + 1) + h + 1 <= Budget
      BY <1>6, <2>1, <3>3, <3>5
    <3>7. QED
      BY <3>4, <3>6
  <2>4. QED
    BY <2>2, <2>3
<1>10. CASE Waits
  <2>1. UNCHANGED <<pc, retval, retry, purging>>
    BY <1>10 DEF Waits
  <2>2. ASSUME purging = NoPurge PROVE Owes'
    <3>1. PICK g \in Nat : AtMost(wire', g) /\ retry + g + 1 <= Budget
      BY <1>9, <2>2
    <3>2. QED
      BY <1>2, <2>1, <3>1, OwesLess
  <2>3. QED
    BY <1>1, <1>2, <1>4, <1>5, <1>6, <2>1, <2>2, SuccessReceive
<1>11. CASE \E result \in {"INVALID", "TIMEOUT"} : Returned(result, Memory)
  <2>1. PICK result \in {"INVALID", "TIMEOUT"} : Returned(result, Memory)
    BY <1>11
  <2>2. result \in Results /\ result # "RESET"
    BY DEF Results
  <2>3. purging = NoPurge => \E g \in Nat : AtMost(wire', g) /\ retry + g + 1 <= Budget
    BY <1>9
  <2>4. purging = NoPurge /\ wire' # <<>> =>
            \E g \in Nat : AtMost(wire', g) /\ (retry + 1) + g + 1 <= Budget
    BY <1>9
  <2> DEFINE f == Memory
  <2>5. Returned(result, f)
    BY <2>1
  <2> HIDE DEF f
  <2>6. QED
    BY <1>1, <1>2, <1>4, <1>5, <2>2, <2>3, <2>4, <2>5, ReturnedOwes
<1>12. QED
  BY <1>1, <1>5, <1>10, <1>11

\* An answer that can be parsed does not fail.
LEMMA ProcessSucceeds ==
    ASSUME Process
    PROVE  /\ pc = "process" /\ UNCHANGED <<line, wire, retry, reading, history>>
           /\ \E tail \in StaleBytes :
                \/ mbus_frame_data_parse(frame, tail).code = -1
                \/ /\ retval' \in {retval, 0, ABORTED} /\ pc' \in {"send", "done"}
                   /\ pc' = "send" => retval' = retval
<1>1. PICK tail \in StaleBytes :
         LET parsed == mbus_frame_data_parse(frame, tail)
             variable == mbus_frame_data_type(frame) = "variable"
         IN  IF parsed.code = -1
             THEN ProcessFails /\ UNCHANGED <<frames, held>>
             ELSE /\ frames' = Append(frames, frame)
                  /\ IF variable THEN ProcessVariable(parsed) ELSE ProcessOther
                  /\ held' = (held \/ (variable /\ parsed.records # <<>>))
  BY DEF Process
<1> DEFINE parsed == mbus_frame_data_parse(frame, tail)
<1>2. pc = "process" /\ UNCHANGED <<line, wire, retry, reading, history>>
  BY DEF Process
<1> HIDE DEF parsed
<1>3. CASE parsed.code = -1
  BY <1>2, <1>3 DEF parsed
<1>4. CASE parsed.code # -1
  <2>1. ProcessVariable(parsed) \/ ProcessOther
    BY <1>1, <1>4 DEF parsed
  <2>2. CASE ProcessVariable(parsed)
    <3>1. retval' = retval /\ pc' \in {"send", "done"}
      BY <2>2 DEF ProcessVariable
    <3>2. QED
      BY <1>2, <3>1
  <2>3. CASE ProcessOther
    <3>1. retval' \in {0, ABORTED} /\ pc' = "done"
      BY <2>3 DEF ProcessOther
    <3>2. QED
      BY <1>2, <3>1
  <2>4. QED
    BY <2>1, <2>2, <2>3
<1>5. QED
  BY <1>3, <1>4

\* The answer is processed, and the next one is asked for on an empty line.
LEMMA SuccessProcess ==
    ASSUME LinkInv, PhaseInv, ExactInv, AnswerIntact, SuccessInv, Process
    PROVE  SuccessInv'
<1>1. pc = "process" /\ UNCHANGED <<handle, meter, up, faults, wire, retry, purging, misread, strayed>>
  BY ProcessSucceeds DEF line, reading, history
<1>2. SUFFICES ASSUME Expected' PROVE SuccessInv'
  BY DEF SuccessInv
<1>3. Expected /\ Quiet
  BY <1>1, <1>2 DEF Expected, Quiet
<1>4. retval = 0 /\ retry <= Budget /\ wire = <<>> /\ retry \in Nat
  BY <1>1, <1>3 DEF SuccessInv, ExactInv, PhaseInv
<1> DEFINE t == meter.telegrams[meter.at]
<1>5. /\ meter.at # 0 /\ frame.control = RSP_UD
      /\ frame.control_information = t.ci /\ frame.data = t.data
  BY <1>1, <1>3 DEF AnswerIntact
<1>6. meter.at \in DOMAIN meter.telegrams
  <2>1. meter.telegrams \in Seq(Telegrams) /\ meter.at \in Nat /\ meter.at <= Len(meter.telegrams)
    BY DEF LinkInv, MeterStates
  <2>2. QED
    BY <1>5, <2>1
<1>7. mbus_frame_data_parse(FrameOf(t), 0).code = 0
  BY <1>3, <1>6 DEF Expected, Readable
<1> HIDE DEF t
<1>8. ASSUME NEW tail \in StaleBytes PROVE mbus_frame_data_parse(frame, tail).code # -1
  <2>1. frame \in Frames
    BY DEF LinkInv
  <2>2. mbus_frame_data_parse(frame, 0).code = 0
    <3>1. mbus_frame_data_parse(FrameOf(t), 0) = mbus_frame_data_parse(frame, 0)
      BY <1>5, <2>1, ParsedAlike, Zenon
    <3>2. QED
      BY <1>7, <3>1
  <2>3. frame.data \in Seq(Byte) /\ tail \in Byte
    BY <2>1, LinkAssumption DEF Frames
  <2>4. QED
    BY <2>2, <2>3, ParsedWithAnyTail
<1>9. /\ retval' \in {retval, 0, ABORTED} /\ pc' \in {"send", "done"}
      /\ pc' = "send" => retval' = retval
  BY <1>8, ProcessSucceeds
<1>10. retval' # 1
  BY <1>4, <1>9 DEF ABORTED
<1>11. Budget' = Budget
  BY <1>1 DEF Budget
<1>12. QED
  BY <1>1, <1>4, <1>9, <1>10, <1>11 DEF SuccessInv

\* At first nothing has been tried.
LEMMA SuccessInit == ASSUME Init PROVE SuccessInv
<1>1. pc = "send" /\ retval = 0 /\ retry = 0 /\ wire = <<>> /\ \E m \in Meters : faults = m.faults
  BY DEF Init
<1>2. faults \in Nat
  BY <1>1, LinkAssumption
<1>3. Budget \in Nat
  BY <1>2, BudgetGrows
<1>4. retry <= Budget
  BY <1>1, <1>3
<1>5. QED
  BY <1>1, <1>4 DEF SuccessInv

\* What is owed never exceeds what the faults may cost.
LEMMA SuccessStep ==
    ASSUME LinkInv, PhaseInv, ExactInv, AnswerIntact, SuccessInv, [Next]_vars
    PROVE  SuccessInv'
<1>1. CASE SendRequest
  BY <1>1, SuccessSend
<1>2. CASE SendClosed
  <2>1. ~up'
    BY <1>2 DEF SendClosed, line
  <2>2. QED
    BY <2>1 DEF SuccessInv, Expected
<1>3. CASE GiveUp
  <2>1. /\ pc = "send" /\ pc' = "done" /\ retval' = 1 /\ ~(retry <= MaxDataRetry)
        /\ UNCHANGED <<meter, up, faults, misread, strayed>>
    BY <1>3 DEF GiveUp, TriesLeft, line, history
  <2>2. SUFFICES ASSUME Expected PROVE (MaxDataRetry < Budget)'
    BY <2>1 DEF SuccessInv, Expected, Quiet
  <2>3. retry <= Budget /\ Budget' = Budget
    BY <2>1, <2>2 DEF SuccessInv, Budget
  <2>4. Budget \in Nat /\ retry \in Nat /\ MaxDataRetry \in Nat
    BY BudgetGrows, LinkAssumption DEF PhaseInv
  <2>5. QED
    BY <2>1, <2>3, <2>4
<1>4. CASE Read
  BY <1>4, SuccessRead
<1>5. CASE Silence
  BY <1>5, SuccessSilence
<1>6. CASE Process
  BY <1>6, SuccessProcess
<1>7. CASE UNCHANGED vars
  <2>1. /\ UNCHANGED <<handle, meter, up, faults, wire, pc, retval, retry, fcb, misread, strayed>>
        /\ UNCHANGED <<purging, again, buff, remaining>>
    BY <1>7 DEF vars, line, request, reading, history
  <2>2. Clean' = Clean
    BY <2>1 DEF Clean, Coming, RequestBytes, Answer
  <2>3. Budget' = Budget /\ Owes' = Owes
    BY <2>1 DEF Budget, Owes
  <2>4. Expected' = Expected
    BY <2>1 DEF Expected, Quiet
  <2>5. QED
    BY <2>1, <2>2, <2>3, <2>4 DEF SuccessInv
<1>8. CASE SendFails
  <2>1. pc' = "done" /\ retval' = -1 /\ retval' # 1
    BY <1>8 DEF SendFails
  <2>2. QED
    BY <2>1 DEF SuccessInv
<1>9. QED
  BY <1>1, <1>2, <1>3, <1>4, <1>5, <1>6, <1>7, <1>8 DEF Next, Step, Done

(***************************************************************************)
(* As many faults as max_data_retry allows for never make a request fail,  *)
(* whatever they damage, lose or delay and whenever they come: for every   *)
(* meter whose telegrams can be parsed, every line and every number of     *)
(* tries, while the connection is up, the checksum finds the damage        *)
(* (AnswerIntact), nothing comes after a purge has ended and no damaged    *)
(* byte is taken for an acknowledgement.                                   *)
(***************************************************************************)
THEOREM RequestsSucceed == Spec /\ []AnswerIntact => []RequestSucceeds
<1>1. Init => ExactInv /\ SuccessInv
  BY ExactInit, SuccessInit
<1>2. LinkInv /\ PhaseInv /\ AnswerIntact /\ ExactInv /\ SuccessInv /\ [Next]_vars
      => ExactInv' /\ SuccessInv'
  BY ExactStep, SuccessStep
<1>3. PhaseInv /\ SuccessInv => RequestSucceeds
  <2>1. SUFFICES ASSUME PhaseInv, SuccessInv, pc = "done", Expected, Budget <= MaxDataRetry
                 PROVE  retval # 1
    BY DEF RequestSucceeds, Expected, Budget
  <2>2. Budget \in Nat /\ MaxDataRetry \in Nat
    BY <2>1, BudgetGrows, LinkAssumption DEF PhaseInv
  <2>3. QED
    BY <2>1, <2>2 DEF SuccessInv
<1>4. QED
  BY <1>1, <1>2, <1>3, PhaseTyped, PTL DEF Spec
-----------------------------------------------------------------------------
(***************************************************************************)
(* What the checksum is worth: one byte of a telegram that comes in as     *)
(* another one.                                                            *)
(***************************************************************************)
\* One byte more or less in a sequence changes its sum by that much.
LEMMA SumChanged ==
    ASSUME NEW d \in Seq(Byte), NEW e \in Seq(Byte), Len(e) = Len(d), NEW i \in 1..Len(d),
           \A j \in 1..Len(d) : j # i => e[j] = d[j]
    PROVE  SumOf(d) \in Nat /\ SumOf(e) = SumOf(d) + (e[i] - d[i])
<1> DEFINE n == Len(d)
<1>1. n \in Nat /\ i \in 1..n
  OBVIOUS
<1>2. PICK r : IsValue(r, Len(d), 0, 1, d) /\ SumOf(d) = r[Len(d)]
  BY SumExists
<1>3. PICK q : IsValue(q, Len(e), 0, 1, e) /\ SumOf(e) = q[Len(e)]
  BY SumExists
<1>4. \A j \in 1..n : d[j] \in Byte /\ e[j] \in Byte
  OBVIOUS
<1>5. \A j \in 1..n : d[j] \in Nat /\ e[j] \in Nat
  BY <1>4, ByteIsNat, Zenon
<1>6. \A j \in 1..n : j # i => e[j] = d[j]
  OBVIOUS
<1>7. Len(e) = n
  OBVIOUS
<1> HIDE DEF n
<1>8. r \in [0..n -> Nat] /\ r[0] = 0 /\ \A j \in 1..n : r[j] = d[j] + 1 * r[j - 1]
  BY <1>2 DEF IsValue, n
<1>9. q \in [0..n -> Nat] /\ q[0] = 0 /\ \A j \in 1..n : q[j] = e[j] + 1 * q[j - 1]
  BY <1>3, <1>7 DEF IsValue
<1> DEFINE T == {j \in 0..n : q[j] = r[j] + (IF j < i THEN 0 ELSE e[i] - d[i])}
<1>10. 0 \in T
  BY <1>1, <1>8, <1>9
<1>11. ASSUME NEW j \in 1..n, j - 1 \in T PROVE j \in T
  <2>1. q[j - 1] = r[j - 1] + (IF j - 1 < i THEN 0 ELSE e[i] - d[i])
    BY <1>11
  <2>2. j - 1 \in 0..n /\ j \in 0..n
    BY <1>1
  <2>3. q[j] = e[j] + q[j - 1] /\ r[j] = d[j] + r[j - 1] /\ r[j - 1] \in Nat /\ q[j - 1] \in Nat
    <3>1. q[j - 1] \in Nat /\ r[j - 1] \in Nat
      BY <1>8, <1>9, <2>2
    <3>2. q[j] = e[j] + 1 * q[j - 1] /\ r[j] = d[j] + 1 * r[j - 1]
      BY <1>8, <1>9
    <3>3. QED
      BY <3>1, <3>2
  <2>4. e[j] \in Nat /\ d[j] \in Nat /\ e[i] \in Nat /\ d[i] \in Nat /\ (j # i => e[j] = d[j])
    BY <1>1, <1>5, <1>6
  <2>5. CASE j < i
    BY <1>1, <2>1, <2>2, <2>3, <2>4, <2>5
  <2>6. CASE j = i
    BY <1>1, <2>1, <2>2, <2>3, <2>4, <2>6
  <2>7. CASE j > i
    BY <1>1, <2>1, <2>2, <2>3, <2>4, <2>7
  <2>8. QED
    BY <1>1, <2>5, <2>6, <2>7
<1> HIDE DEF T
<1>12. n \in T
  BY <1>1, <1>10, <1>11, Upto, n \in 0..n
<1>13. q[n] = r[n] + (e[i] - d[i]) /\ r[n] \in Nat
  BY <1>1, <1>8, <1>12 DEF T
<1>14. QED
  BY <1>2, <1>3, <1>7, <1>13 DEF n

\* The sum over the data of a control or long frame.
DataSum(b) == IF b[2] = 3 THEN 0 ELSE SumOf(SubSeq(b, 8, 4 + b[2]))

\* It changes by as much as a byte of the data.
LEMMA DataSumChanged ==
    ASSUME NEW b \in Seq(Byte), NEW c \in Seq(Byte), NEW n \in 3..255,
           Len(b) = 6 + n, Len(c) = 6 + n, b[2] = n, c[2] = n,
           NEW i \in 1..(6 + n), \A j \in 1..(6 + n) : j # i => c[j] = b[j]
    PROVE  /\ DataSum(b) \in Nat
           /\ DataSum(c) = DataSum(b) + (IF i \in 8..(4 + n) THEN c[i] - b[i] ELSE 0)
<1> DEFINE d == SubSeq(b, 8, 4 + n)
           e == SubSeq(c, 8, 4 + n)
<1>1. CASE n = 3
  <2>1. i \notin 8..(4 + n)
    BY <1>1
  <2>2. DataSum(b) = 0 /\ DataSum(c) = 0
    BY <1>1 DEF DataSum
  <2>3. QED
    BY <2>1, <2>2
<1>2. CASE n # 3
  <2>1. DataSum(b) = SumOf(d) /\ DataSum(c) = SumOf(e)
    BY <1>2 DEF DataSum
  <2>2. d \in Seq(Byte) /\ Len(d) = n - 3
    BY <1>2
  <2>3. e \in Seq(Byte) /\ Len(e) = n - 3
    BY <1>2
  <2>4. \A j \in 1..(n - 3) : d[j] = b[7 + j] /\ e[j] = c[7 + j]
    BY <1>2
  <2>5. \A j \in 1..(n - 3) : 7 + j \in 1..(6 + n)
    OBVIOUS
  <2> HIDE DEF d, e
  <2>6. CASE i \in 8..(4 + n)
    <3>1. i - 7 \in 1..(n - 3) /\ 7 + (i - 7) = i
      BY <2>6
    <3>2. d[i - 7] = b[i] /\ e[i - 7] = c[i]
      BY <2>4, <3>1
    <3>3. \A j \in 1..(n - 3) : j # i - 7 => 7 + j # i
      BY <3>1
    <3>4. \A j \in 1..(n - 3) : j # i - 7 => e[j] = d[j]
      BY <2>4, <2>5, <3>3
    <3>5. SumOf(d) \in Nat /\ SumOf(e) = SumOf(d) + (e[i - 7] - d[i - 7])
      <4>1. Len(e) = Len(d) /\ i - 7 \in 1..Len(d)
        BY <2>2, <2>3, <3>1
      <4>2. \A j \in 1..Len(d) : j # i - 7 => e[j] = d[j]
        BY <2>2, <3>4
      <4>3. QED
        BY <2>2, <2>3, <4>1, <4>2, SumChanged, Zenon
    <3>6. QED
      BY <2>1, <2>6, <3>2, <3>5
  <2>7. CASE i \notin 8..(4 + n)
    <3>1. \A j \in 1..(n - 3) : 7 + j # i
      BY <2>7
    <3>2. \A j \in 1..(n - 3) : e[j] = d[j]
      BY <2>4, <2>5, <3>1
    <3>3. e = d
      BY <2>2, <2>3, <3>2, SameSequence
    <3>4. \E r : IsValue(r, Len(d), 0, 1, d) /\ SumOf(d) = r[Len(d)]
      BY <2>2, SumExists
    <3>5. PICK r : IsValue(r, Len(d), 0, 1, d) /\ SumOf(d) = r[Len(d)]
      BY <3>4
    <3>6. SumOf(d) \in Nat
      BY <2>2, <3>5 DEF IsValue
    <3>7. QED
      BY <2>1, <2>7, <3>3, <3>6
  <2>8. QED
    BY <2>6, <2>7
<1>3. QED
  BY <1>1, <1>2

\* The bytes of a control or long frame that agree with each other.
IsLong(b) ==
    /\ b[2] \in 3..255 /\ b[3] = b[2] /\ Len(b) = 6 + b[2]
    /\ b[1] = LONG_START /\ b[4] = LONG_START /\ b[5] \in LongControls
    /\ b[6 + b[2]] = STOP
    /\ b[5 + b[2]] = (b[5] + b[6] + b[7] + DataSum(b)) % 256

\* What an accepted frame says of itself, in its bytes.
LEMMA LongSays ==
    ASSUME NEW f \in Frames, NEW b \in Seq(Byte), ParseLong(f, b).code = 0
    PROVE  IsLong(b)
<1> DEFINE g == ParseLong(f, b).frame
           n == b[2]
<1>1. /\ n \in Byte /\ n >= 3 /\ n = b[3] /\ Len(b) = 6 + n
      /\ mbus_frame_verify(g) /\ g \in Frames
      /\ g.type = IF n = 3 THEN "CONTROL" ELSE "LONG"
      /\ g.start1 = b[1] /\ g.length1 = n /\ g.length2 = b[3]
      /\ g.start2 = b[4] /\ g.control = b[5] /\ g.address = b[6]
      /\ g.control_information = b[7] /\ g.data = SubSeq(b, 8, 4 + n)
      /\ g.checksum = b[5 + n] /\ g.stop = b[6 + n]
  BY LongFields
<1>n. n = b[2]
  OBVIOUS
<1> HIDE DEF g, n
<1>2. g.type # "SHORT" /\ g.type \in {"CONTROL", "LONG"}
  BY <1>1
<1>3. /\ g.start1 = LONG_START /\ g.start2 = LONG_START /\ g.control \in LongControls
      /\ g.stop = STOP /\ g.checksum = calc_checksum(g)
  BY <1>1, <1>2 DEF mbus_frame_verify
<1>4. calc_checksum(g) = (g.control + g.address + g.control_information + DataSum(b)) % 256
  <2>1. CASE n = 3
    <3>1. g.type = "CONTROL" /\ DataSum(b) = 0
      BY <1>1, <1>n, <2>1 DEF DataSum
    <3>2. calc_checksum(g) = (g.control + g.address + g.control_information) % 256
      BY <3>1 DEF calc_checksum
    <3>3. g.control + g.address + g.control_information + 0
            = g.control + g.address + g.control_information
      <4>1. g.control \in Nat /\ g.address \in Nat /\ g.control_information \in Nat
        BY <1>1, FrameFields, ByteIsNat, Zenon
      <4>2. QED
        BY <4>1
    <3>4. QED
      BY <3>1, <3>2, <3>3
  <2>2. CASE n # 3
    <3>1. g.type = "LONG" /\ DataSum(b) = SumOf(g.data)
      BY <1>1, <1>n, <2>2 DEF DataSum
    <3>2. QED
      BY <3>1 DEF calc_checksum
  <2>3. QED
    BY <2>1, <2>2
<1>5. n \in 3..255
  <2>1. n \in Byte /\ n >= 3
    BY <1>1
  <2>2. QED
    BY <2>1 DEF Byte
<1>6. b[1] = LONG_START /\ b[4] = LONG_START /\ b[5] \in LongControls /\ b[6 + n] = STOP
  BY <1>1, <1>3
<1>7. b[5 + n] = (b[5] + b[6] + b[7] + DataSum(b)) % 256
  <2>1. b[5 + n] = (g.control + g.address + g.control_information + DataSum(b)) % 256
    BY <1>1, <1>3, <1>4
  <2>2. g.control = b[5] /\ g.address = b[6] /\ g.control_information = b[7]
    BY <1>1
  <2>3. QED
    BY <2>1, <2>2
<1>8. b[3] = n /\ Len(b) = 6 + n
  BY <1>1
<1>9. QED
  BY <1>5, <1>6, <1>7, <1>8 DEF IsLong, n

\* A change by less than 256 changes the low byte of a sum.
LEMMA SameRemainder ==
    ASSUME NEW u \in Nat, NEW z \in -255..255, u % 256 = (u + z) % 256
    PROVE  z = 0
<1>1. \A h \in Int : h = 256 * (h \div 256) + (h % 256) /\ h \div 256 \in Int /\ h % 256 \in Int
  OBVIOUS
<1> DEFINE k == u \div 256
           l == (u + z) \div 256
           e == u % 256
<1>2. k \in Int /\ l \in Int /\ e \in Int
  BY <1>1
<1>3. u = 256 * k + e
  BY <1>1
<1>4. u + z = 256 * l + e
  BY <1>1
<1> HIDE DEF k, l, e
<1>5. z = 256 * l - 256 * k
  BY <1>2, <1>3, <1>4
<1>6. k = l
  BY <1>2, <1>5
<1>7. QED
  BY <1>2, <1>5, <1>6

\* Two accepted frames that differ in no byte but one do not differ.
LEMMA OneByteDiffers ==
    ASSUME NEW f \in Frames, NEW g \in Frames, NEW b \in Seq(Byte), NEW c \in Seq(Byte),
           ParseLong(f, b).code = 0, ParseLong(g, c).code = 0, Len(c) <= Len(b),
           NEW i \in 1..Len(b), \A j \in 1..Len(c) : j # i => c[j] = b[j]
    PROVE  Len(c) = Len(b) /\ c[i] = b[i]
<1> DEFINE n == b[2]
           w == 6 + n
<1>1. /\ n \in 3..255 /\ b[3] = n /\ Len(b) = w
      /\ b[1] = LONG_START /\ b[4] = LONG_START /\ b[5] \in LongControls /\ b[w] = STOP
      /\ b[5 + n] = (b[5] + b[6] + b[7] + DataSum(b)) % 256
  <2>1. IsLong(b)
    BY LongSays
  <2>2. QED
    BY <2>1 DEF IsLong
<1>2. /\ c[2] \in 3..255 /\ c[3] = c[2] /\ Len(c) = 6 + c[2]
      /\ c[1] = LONG_START /\ c[4] = LONG_START /\ c[6 + c[2]] = STOP
      /\ c[5 + c[2]] = (c[5] + c[6] + c[7] + DataSum(c)) % 256
  <2>1. IsLong(c)
    BY LongSays
  <2>2. QED
    BY <2>1 DEF IsLong
<1>3. 2 \in 1..Len(c) /\ 3 \in 1..Len(c)
  <2>1. \A h \in 3..255 : 2 \in 1..(6 + h) /\ 3 \in 1..(6 + h)
    OBVIOUS
  <2>2. QED
    BY <1>2, <2>1, Zenon
<1>n. n = b[2]
  OBVIOUS
<1> HIDE DEF n
<1>4. c[2] = n
  BY <1>1, <1>2, <1>3, <1>n
<1>5. Len(c) = w /\ c[w] = STOP /\ c[5 + n] = (c[5] + c[6] + c[7] + DataSum(c)) % 256
  BY <1>2, <1>4
<1>6. i \in 1..w /\ \A j \in 1..w : j # i => c[j] = b[j]
  BY <1>1, <1>5
<1>7. /\ DataSum(b) \in Nat
      /\ DataSum(c) = DataSum(b) + (IF i \in 8..(4 + n) THEN c[i] - b[i] ELSE 0)
  <2>1. n \in 3..255 /\ Len(b) = 6 + n /\ Len(c) = 6 + n /\ b[2] = n /\ c[2] = n
    BY <1>1, <1>4, <1>5, <1>n, Zenon
  <2>2. i \in 1..(6 + n) /\ \A j \in 1..(6 + n) : j # i => c[j] = b[j]
    BY <1>6, Zenon
  <2>3. QED
    BY <2>1, <2>2, DataSumChanged, ZenonT(30)
<1>8. \A j \in 1..w : b[j] \in 0..255 /\ c[j] \in 0..255
  <2>1. Len(b) = w /\ Len(c) = w
    BY <1>1, <1>5
  <2>2. QED
    BY <2>1 DEF Byte
<1>9. 5 \in 1..w /\ 6 \in 1..w /\ 7 \in 1..w /\ 5 + n \in 1..w /\ 1 \in 1..w /\ 4 \in 1..w
  BY <1>1
<1>10. CASE i \in {1, 2, 3, 4, w}
  <2>1. /\ b[1] = LONG_START /\ c[1] = LONG_START /\ b[4] = LONG_START /\ c[4] = LONG_START
        /\ b[w] = STOP /\ c[w] = STOP /\ b[2] = n /\ c[2] = n /\ b[3] = n /\ c[3] = n
    BY <1>1, <1>2, <1>4, <1>5, <1>n
  <2>2. c[i] = b[i]
    BY <1>10, <2>1
  <2>3. QED
    BY <1>1, <1>5, <2>2
<1>11. CASE i = 5 + n
  <2>1. i \notin 8..(4 + n) /\ 5 # i /\ 6 # i /\ 7 # i
    BY <1>1, <1>11
  <2>2. DataSum(c) = DataSum(b)
    BY <1>7, <2>1
  <2>3. c[5] = b[5] /\ c[6] = b[6] /\ c[7] = b[7]
    BY <1>6, <1>9, <2>1
  <2>4. QED
    BY <1>1, <1>5, <1>11, <2>2, <2>3
<1>12. CASE i \in 5..(4 + n)
  <2> DEFINE D == DataSum(b)
             E == DataSum(c)
             x == b[i]
             y == c[i]
  <2>1. /\ b[5] \in 0..255 /\ b[6] \in 0..255 /\ b[7] \in 0..255
        /\ c[5] \in 0..255 /\ c[6] \in 0..255 /\ c[7] \in 0..255
        /\ x \in 0..255 /\ y \in 0..255
    BY <1>6, <1>8, <1>9
  <2>2. D \in Nat /\ E = D + (IF i \in 8..(4 + n) THEN y - x ELSE 0)
    BY <1>7
  <2>3. /\ 5 = i \/ c[5] = b[5]
        /\ 6 = i \/ c[6] = b[6]
        /\ 7 = i \/ c[7] = b[7]
    BY <1>6, <1>9, Zenon
  <2>4. /\ 5 = i => c[5] = y /\ b[5] = x
        /\ 6 = i => c[6] = y /\ b[6] = x
        /\ 7 = i => c[7] = y /\ b[7] = x
    OBVIOUS
  <2> HIDE DEF D, E, x, y
  <2> DEFINE s == b[5] + b[6] + b[7] + D
             t == c[5] + c[6] + c[7] + E
  <2> HIDE DEF s, t
  <2>5. PICK k \in 0..255, l \in 0..255, o \in 0..255, p \in 0..255, q \in 0..255, r \in 0..255 :
           /\ k = b[5] /\ l = b[6] /\ o = b[7]
           /\ p = c[5] /\ q = c[6] /\ r = c[7]
    BY <2>1, ZenonT(30)
  <2>6. s \in Nat /\ t = s + (y - x)
    <3>1. s = k + l + o + D /\ t = p + q + r + E
      BY <2>5, Zenon DEF s, t
    <3>2. /\ 5 = i \/ p = k
          /\ 6 = i \/ q = l
          /\ 7 = i \/ r = o
      BY <2>3, <2>5, Zenon
    <3>3. /\ 5 = i => p = y /\ k = x
          /\ 6 = i => q = y /\ l = x
          /\ 7 = i => r = y /\ o = x
      BY <2>4, <2>5, Zenon
    <3>4. x \in 0..255 /\ y \in 0..255
      BY <2>1
    <3>5. CASE i \in 8..(4 + n)
      <4>1. E = D + (y - x) /\ 5 # i /\ 6 # i /\ 7 # i
        BY <1>1, <2>2, <3>5
      <4>2. QED
        BY <2>2, <3>1, <3>2, <3>4, <4>1
    <3>6. CASE i \in 5..7
      <4>1. E = D /\ (i = 5 \/ i = 6 \/ i = 7)
        BY <2>2, <3>6
      <4>2. QED
        BY <2>2, <3>1, <3>2, <3>3, <3>4, <4>1
    <3>7. i \in 8..(4 + n) \/ i \in 5..7
      <4>1. n \in 3..255
        BY <1>1
      <4>2. QED
        BY <1>12, <4>1
    <3>8. QED
      BY <3>5, <3>6, <3>7
  <2>7. b[5 + n] = c[5 + n]
    <3>1. i # 5 + n
      BY <1>1, <1>12
    <3>2. QED
      BY <1>6, <1>9, <3>1, Zenon
  <2>8. s % 256 = t % 256
    BY <1>1, <1>5, <2>7, Zenon DEF D, E, s, t
  <2>9. y - x \in -255..255
    BY <2>1
  <2>10. \A u \in Nat, z \in -255..255 : u % 256 = (u + z) % 256 => z = 0
    BY SameRemainder
  <2>11. y - x = 0
    <3>1. s % 256 = (s + (y - x)) % 256
      BY <2>6, <2>8, Zenon
    <3>2. QED
      BY <2>6, <2>9, <2>10, <3>1, Zenon
  <2>12. y = x
    BY <2>1, <2>11
  <2>13. c[i] = b[i]
    BY <2>12 DEF x, y
  <2>14. QED
    BY <1>1, <1>5, <2>13
<1>13. QED
  BY <1>1, <1>5, <1>6, <1>10, <1>11, <1>12

(***************************************************************************)
(* A telegram with one byte replaced by another is never accepted, however *)
(* much of it has come: neither as it is nor cut short.  The exception is  *)
(* a first byte that has become an acknowledgement.                        *)
(***************************************************************************)
THEOREM ReplacedByteIsDetected ==
    ASSUME NEW f \in Frames, NEW g \in Frames, NEW b \in Seq(Byte), b # <<>>,
           b[1] = LONG_START, mbus_parse(f, b).code = 0,
           NEW i \in 1..Len(b), NEW v \in Byte, v # b[i],
           [b EXCEPT ![i] = v][1] # ACK_START, NEW k \in 1..Len(b)
    PROVE  mbus_parse(g, SubSeq([b EXCEPT ![i] = v], 1, k)).code # 0
<1> DEFINE c == SubSeq([b EXCEPT ![i] = v], 1, k)
<1>1. ParseLong(f, b).code = 0
  BY DEF mbus_parse, ACK_START, SHORT_START, LONG_START
<1>2. /\ b[2] \in 3..255 /\ Len(b) = 6 + b[2] /\ b[5] \in LongControls
  BY <1>1, LongSays DEF IsLong
<1>3. [b EXCEPT ![i] = v] \in Seq(Byte) /\ Len([b EXCEPT ![i] = v]) = Len(b)
  BY Len(b) \in Nat
<1>4. c \in Seq(Byte) /\ Len(c) = k /\ \A j \in 1..k : c[j] = [b EXCEPT ![i] = v][j]
  BY <1>3
<1>5. \A j \in 1..k : j \in 1..Len(b)
  OBVIOUS
<1>6. \A j \in 1..k : c[j] = IF j = i THEN v ELSE b[j]
  BY <1>4, <1>5
<1>7. k \in Nat /\ k >= 1 /\ k <= Len(b) /\ Len(b) \in Nat
  OBVIOUS
<1>8. 1 \in 1..k /\ c[1] # ACK_START
  BY <1>4, <1>7
<1> HIDE DEF c
<1>9. c # <<>>
  BY <1>4, <1>7
<1>10. CASE c[1] = LONG_START
  <2>1. mbus_parse(g, c) = ParseLong(g, c)
    BY <1>9, <1>10 DEF mbus_parse, ACK_START, SHORT_START, LONG_START
  <2>2. SUFFICES ASSUME ParseLong(g, c).code = 0 PROVE FALSE
    BY <2>1 DEF c
  <2>3. Len(c) <= Len(b) /\ \A j \in 1..Len(c) : j # i => c[j] = b[j]
    BY <1>4, <1>6, <1>7
  <2>4. Len(c) = Len(b) /\ c[i] = b[i]
    BY <1>1, <1>4, <2>2, <2>3, OneByteDiffers
  <2>5. QED
    BY <1>4, <1>6, <2>4
<1>11. CASE c[1] = SHORT_START
  <2>1. mbus_parse(g, c) = ParseShort(g, c)
    BY <1>9, <1>11 DEF mbus_parse, ACK_START, SHORT_START, LONG_START
  <2>2. CASE k < 5
    <3>1. ParseShort(g, c) = Parsed(5 - k, g)
      BY <1>4, <2>2 DEF ParseShort
    <3>2. QED
      BY <1>7, <2>1, <2>2, <3>1 DEF Parsed, c
  <2>3. CASE k > 5
    <3>1. ParseShort(g, c) = Parsed(-2, g)
      BY <1>4, <1>7, <2>3 DEF ParseShort
    <3>2. QED
      BY <2>1, <3>1 DEF Parsed, c
  <2>4. CASE k = 5
    <3> DEFINE h == [g EXCEPT !.type = "SHORT", !.start1 = c[1], !.control = c[2],
                              !.address = c[3], !.checksum = c[4], !.stop = c[5]]
    <3>1. ParseShort(g, c) = Verified(h)
      BY <1>4, <2>4 DEF ParseShort
    <3>2. h.stop = c[5]
      BY DEF Frames
    <3>3. c[5] = b[5]
      <4>1. i = 1
        BY <1>6, <1>8, <1>11 DEF SHORT_START, LONG_START
      <4>2. QED
        BY <1>6, <2>4, <4>1
    <3>4. b[5] # STOP
      <4>1. STOP \notin LongControls
        BY DEF LongControls, STOP, SND_UD, RSP_UD, FCB, DFC, ACD
      <4>2. QED
        BY <1>2, <4>1, Zenon
    <3> HIDE DEF h
    <3>5. ~mbus_frame_verify(h)
      BY <3>2, <3>3, <3>4 DEF mbus_frame_verify
    <3>6. QED
      BY <2>1, <3>1, <3>5 DEF Verified, Parsed, c
  <2>5. QED
    BY <1>7, <2>2, <2>3, <2>4
<1>12. CASE c[1] # LONG_START /\ c[1] # SHORT_START
  <2>1. mbus_parse(g, c) = Parsed(-4, g)
    BY <1>8, <1>9, <1>12 DEF mbus_parse
  <2>2. QED
    BY <2>1 DEF Parsed, c
<1>13. QED
  BY <1>10, <1>11, <1>12

(***************************************************************************)
(* A telegram with one byte missing is never accepted either: the receive  *)
(* goes on asking for the last byte, or the frame is refused.  Here too    *)
(* the first byte that has come must not be an acknowledgement, which a    *)
(* length may be.                                                          *)
(***************************************************************************)
THEOREM LostByteIsDetected ==
    ASSUME NEW f \in Frames, NEW g \in Frames, NEW b \in Seq(Byte), b # <<>>,
           b[1] = LONG_START, mbus_parse(f, b).code = 0,
           NEW i \in 1..Len(b), NEW k \in 1..(Len(b) - 1),
           NEW c \in Seq(Byte), Len(c) = k,
           \A j \in 1..k : c[j] = IF j < i THEN b[j] ELSE b[j + 1],
           c[1] # ACK_START
    PROVE  mbus_parse(g, c).code # 0
<1>1. ParseLong(f, b).code = 0
  BY DEF mbus_parse, ACK_START, SHORT_START, LONG_START
<1>2. /\ b[2] \in 3..255 /\ b[3] = b[2] /\ Len(b) = 6 + b[2]
      /\ b[4] = LONG_START /\ b[5] \in LongControls
  BY <1>1, LongSays DEF IsLong
<1>3. k \in Nat /\ k >= 1 /\ k < Len(b) /\ Len(b) \in Nat /\ i \in 1..Len(b)
  OBVIOUS
<1>4. c # <<>>
  BY <1>3
<1>5. \A j \in 1..k : (j < i => c[j] = b[j]) /\ (j >= i => c[j] = b[j + 1])
  BY <1>3
<1>6. b[5] # LONG_START
  <2>1. LONG_START \notin LongControls
    BY DEF LongControls, LONG_START, SND_UD, RSP_UD, FCB, DFC, ACD
  <2>2. QED
    BY <1>2, <2>1, Zenon
<1>7. CASE c[1] = LONG_START
  <2>1. mbus_parse(g, c) = ParseLong(g, c)
    BY <1>4, <1>7 DEF mbus_parse, ACK_START, SHORT_START, LONG_START
  <2>2. SUFFICES ASSUME ParseLong(g, c).code = 0 PROVE FALSE
    BY <2>1
  <2>3. c[2] \in 3..255 /\ c[3] = c[2] /\ k = 6 + c[2] /\ c[4] = LONG_START
    BY <2>2, LongSays DEF IsLong
  <2>4. 2 \in 1..k /\ 4 \in 1..k
    <3>1. \A h \in 3..255 : 2 \in 1..(6 + h) /\ 4 \in 1..(6 + h)
      OBVIOUS
    <3>2. QED
      BY <2>3, <3>1, Zenon
  <2>5. CASE i <= 4
    <3>1. c[4] = b[5]
      BY <1>3, <1>5, <2>4, <2>5
    <3>2. QED
      BY <1>6, <2>3, <3>1
  <2>6. CASE i > 4
    <3>1. c[2] = b[2]
      BY <1>3, <1>5, <2>4, <2>6
    <3>2. QED
      BY <1>2, <1>3, <2>3, <3>1
  <2>7. QED
    BY <1>3, <2>5, <2>6
<1>8. CASE c[1] = SHORT_START
  <2>1. mbus_parse(g, c) = ParseShort(g, c)
    BY <1>4, <1>8 DEF mbus_parse, ACK_START, SHORT_START, LONG_START
  <2>2. CASE k < 5
    <3>1. ParseShort(g, c) = Parsed(5 - k, g)
      BY <2>2 DEF ParseShort
    <3>2. QED
      BY <1>3, <2>1, <2>2, <3>1 DEF Parsed
  <2>3. CASE k > 5
    <3>1. ParseShort(g, c) = Parsed(-2, g)
      BY <1>3, <2>3 DEF ParseShort
    <3>2. QED
      BY <2>1, <3>1 DEF Parsed
  <2>4. CASE k = 5
    <3> DEFINE h == [g EXCEPT !.type = "SHORT", !.start1 = c[1], !.control = c[2],
                              !.address = c[3], !.checksum = c[4], !.stop = c[5]]
    <3>1. ParseShort(g, c) = Verified(h)
      BY <2>4 DEF ParseShort
    <3>2. h.control = c[2] /\ h.type = "SHORT"
      BY DEF Frames
    <3>3. i = 1
      <4>1. c[1] # b[1]
        BY <1>8 DEF SHORT_START, LONG_START
      <4>2. QED
        BY <1>3, <1>5, <2>4, <4>1
    <3>4. c[2] = c[1]
      BY <1>2, <1>5, <2>4, <3>3
    <3>5. c[2] \notin ShortControls
      BY <1>8, <3>4 DEF SHORT_START, ShortControls, SND_NKE, REQ_UD1, REQ_UD2, FCB
    <3> HIDE DEF h
    <3>6. ~mbus_frame_verify(h)
      BY <3>2, <3>5 DEF mbus_frame_verify
    <3>7. QED
      BY <2>1, <3>1, <3>6 DEF Verified, Parsed
  <2>5. QED
    BY <1>3, <2>2, <2>3, <2>4
<1>9. CASE c[1] # LONG_START /\ c[1] # SHORT_START
  <2>1. mbus_parse(g, c) = Parsed(-4, g)
    BY <1>4, <1>9 DEF mbus_parse
  <2>2. QED
    BY <2>1 DEF Parsed
<1>10. QED
  BY <1>7, <1>8, <1>9
=============================================================================
