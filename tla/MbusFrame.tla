----------------------------- MODULE MbusFrame -----------------------------
(***************************************************************************)
(* The frames of libmbus as bytes: mbus_frame_pack writes one, mbus_parse  *)
(* reads one from what has arrived so far and says how many bytes are      *)
(* still missing.  A frame in memory is what the calls before have left    *)
(* there: mbus_parse assigns only the fields it gets to.                   *)
(***************************************************************************)
EXTENDS Integers, Sequences

Byte == 0..255
Has(byte, mask) == (byte \div mask) % 2 = 1

ACK_START == 229
SHORT_START == 16
LONG_START == 104
STOP == 22

SND_NKE == 64
SND_UD == 83
REQ_UD1 == 90
REQ_UD2 == 91
RSP_UD == 8
FCB == 32       \* frame count bit of a request
ACD == 32       \* access demand and data flow control of an answer
DFC == 16
DIR_M2S == 64

RESP_ERROR == 112
RESP_VARIABLE == 114
RESP_FIXED == 115

mbus_frame_new(type) ==
    [type |-> type,
     start1 |-> CASE type = "ACK" -> ACK_START
                  [] type = "SHORT" -> SHORT_START
                  [] type \in {"CONTROL", "LONG"} -> LONG_START
                  [] OTHER -> 0,
     start2 |-> IF type \in {"CONTROL", "LONG"} THEN LONG_START ELSE 0,
     length1 |-> IF type = "CONTROL" THEN 3 ELSE 0,
     length2 |-> IF type = "CONTROL" THEN 3 ELSE 0,
     control |-> 0, address |-> 0, control_information |-> 0, data |-> <<>>,
     checksum |-> 0,
     stop |-> IF type \in {"SHORT", "CONTROL", "LONG"} THEN STOP ELSE 0]

SumOf(bytes) ==
    LET sum[n \in 0..Len(bytes)] == IF n = 0 THEN 0 ELSE sum[n - 1] + bytes[n]
    IN  sum[Len(bytes)]

\* The arithmetic sum of the content, in an unsigned char.
calc_checksum(f) ==
    CASE f.type = "SHORT" -> (f.control + f.address) % 256
      [] f.type = "CONTROL" -> (f.control + f.address + f.control_information) % 256
      [] f.type = "LONG" ->
            (f.control + f.address + f.control_information + SumOf(f.data)) % 256
      [] OTHER -> 0

calc_length(f) ==
    CASE f.type = "CONTROL" -> 3
      [] f.type = "LONG" -> (Len(f.data) + 3) % 256
      [] OTHER -> 0

mbus_frame_direction(f) ==
    IF f.type # "ACK" /\ Has(f.control, DIR_M2S) THEN "M2S" ELSE "S2M"

ShortControls == {SND_NKE, REQ_UD1, REQ_UD1 + FCB, REQ_UD2, REQ_UD2 + FCB}
LongControls == {SND_UD, SND_UD + FCB, RSP_UD, RSP_UD + DFC, RSP_UD + ACD, RSP_UD + DFC + ACD}

mbus_frame_verify_unsummed(f) == f.stop = STOP
mbus_frame_verify(f) ==
    /\ \/ /\ f.type = "SHORT"
          /\ f.start1 = SHORT_START /\ f.control \in ShortControls
       \/ /\ f.type \in {"CONTROL", "LONG"}
          /\ f.start1 = LONG_START /\ f.start2 = LONG_START
          /\ f.control \in LongControls
          /\ f.length1 = f.length2 /\ f.length1 = calc_length(f)
    /\ f.stop = STOP
    /\ f.checksum = calc_checksum(f)
-----------------------------------------------------------------------------
(***************************************************************************)
(* mbus_parse(f, b): code is the number of bytes that are missing at least *)
(* (mbus_parse gives all of them once it knows the length), 0 for a frame, *)
(* and negative otherwise; frame is the memory of f afterwards.            *)
(***************************************************************************)
Parsed(code, frame) == [code |-> code, frame |-> frame]
Verified(f) == Parsed(IF mbus_frame_verify(f) THEN 0 ELSE -3, f)

ParseShort(f, b) ==
    CASE Len(b) < 5 -> Parsed(5 - Len(b), f)
      [] Len(b) > 5 -> Parsed(-2, f)
      [] OTHER -> Verified([f EXCEPT !.type = "SHORT", !.start1 = b[1], !.control = b[2],
                                     !.address = b[3], !.checksum = b[4], !.stop = b[5]])

ParseLong(f, b) ==
    IF Len(b) < 3 THEN Parsed(3 - Len(b), f)
    ELSE LET g == [f EXCEPT !.start1 = b[1], !.length1 = b[2], !.length2 = b[3]]
             whole == 6 + b[2]
         IN  IF b[2] < 3 \/ b[2] # b[3] \/ Len(b) > whole THEN Parsed(-2, g)
             ELSE IF Len(b) < whole THEN Parsed(whole - Len(b), g)
             ELSE Verified(
                    [type |-> IF b[2] = 3 THEN "CONTROL" ELSE "LONG",
                     start1 |-> b[1], length1 |-> b[2], length2 |-> b[3], start2 |-> b[4],
                     control |-> b[5], address |-> b[6], control_information |-> b[7],
                     data |-> SubSeq(b, 8, whole - 2),
                     checksum |-> b[whole - 1], stop |-> b[whole]])

mbus_parse(f, b) ==
    CASE b = <<>> -> Parsed(-1, f)
      [] b # <<>> /\ b[1] = ACK_START ->
            Parsed(0, [f EXCEPT !.type = "ACK", !.start1 = ACK_START])
      [] b # <<>> /\ b[1] = SHORT_START -> ParseShort(f, b)
      [] b # <<>> /\ b[1] = LONG_START -> ParseLong(f, b)
      [] OTHER -> Parsed(-4, f)

\* The length fields and the checksum are computed before a frame is written.
mbus_frame_pack(f) ==
    LET header == <<f.start1, calc_length(f), calc_length(f), f.start2,
                    f.control, f.address, f.control_information>>
    IN  CASE f.type = "ACK" -> <<f.start1>>
          [] f.type = "SHORT" ->
                <<f.start1, f.control, f.address, calc_checksum(f), f.stop>>
          [] f.type = "CONTROL" -> header \o <<calc_checksum(f), f.stop>>
          [] f.type = "LONG" -> header \o f.data \o <<calc_checksum(f), f.stop>>
=============================================================================
