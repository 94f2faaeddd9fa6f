------------------------------ MODULE MbusData ------------------------------
(***************************************************************************)
(* The data of an answer: mbus_frame_data_parse and the parsers it calls.  *)
(* The parser of variable data reads some bytes before it compares its     *)
(* position with data_size: tail stands for what is in the frame's memory  *)
(* behind the data, left there by the frames before or never written.      *)
(***************************************************************************)
EXTENDS MbusFrame, SequencesExt

DIF_MANUFACTURER_SPECIFIC == 15
DIF_MORE_RECORDS_FOLLOW == 31
DIF_IDLE_FILLER == 47
HEADER_LENGTH == 12
MaxExtensions == 10
CUSTOM_VIF_SIZE == 128

Extended(byte) == byte >= 128

mbus_dif_datalength_lookup(dif) ==
    <<0, 1, 2, 3, 4, 4, 6, 8, 0, 1, 2, 3, 4, 0, 6, 8>>[(dif % 16) + 1]

\* frame->data[i], counted from 0 as in the code.
At(d, tail, i) == IF i < Len(d) THEN d[i + 1] ELSE tail
Slice(d, tail, i, n) == [k \in 1..n |-> At(d, tail, i + k - 1)]

\* How often the loops over DIFE and VIFE are run, from position i on.
Extensions(d, i) ==
    LET ends == {k \in i..Len(d) : k < Len(d) => ~Extended(d[k + 1])}
    IN  IF i > Len(d) THEN 0 ELSE Min(ends) - i

Failed == [code |-> -1]

\* The record holds everything up to the end of the data.
RestRecord(d, i) ==
    [dif |-> d[i + 1], dife |-> <<>>, vif |-> 0, vife |-> <<>>, custom_vif |-> <<>>,
     data |-> SubSeq(d, i + 2, Len(d))]

(***************************************************************************)
(* One turn of the loop of mbus_data_variable_parse: the record at i and   *)
(* the position behind it, or Failed.                                      *)
(***************************************************************************)
LengthField(d, tail, i) ==
    LET b == At(d, tail, i)
    IN  CASE b <= 191 -> [length |-> b, size |-> 1]
          [] b \in 192..207 -> [length |-> (b - 192) * 2, size |-> 1]
          [] b \in 208..223 -> [length |-> (b - 208) * 2, size |-> 1]
          [] b \in 224..239 -> [length |-> b - 224, size |-> 1]
          [] b \in 240..250 -> [length |-> b - 240, size |-> 1]
          [] OTHER -> [length |-> 0, size |-> 0]

FitsInFrame_header(d, i, n) == i <= Len(d)
FitsInFrame(d, i, n) == i + n <= Len(d)

ParseRecord(d, tail, i) ==
    LET dif == d[i + 1]
        ndife == Extensions(d, i)
        v == i + ndife + 1                        \* the VIF
        vif == At(d, tail, v)
        custom == vif % 128 = 124
        customLength == IF custom THEN At(d, tail, v + 1) ELSE 0
        e == v + 1 + (IF custom THEN 1 + customLength ELSE 0)     \* the VIFEs
        nvife == IF Extended(vif) THEN 1 + Extensions(d, e) ELSE 0
        l == e + nvife
        field == IF dif % 16 = 13 THEN LengthField(d, tail, l)
                 ELSE [length |-> mbus_dif_datalength_lookup(dif), size |-> 0]
        b == l + field.size
    IN  IF \/ ndife > MaxExtensions \/ v > Len(d)
           \/ custom /\ (customLength > CUSTOM_VIF_SIZE \/ e > Len(d))
           \/ nvife > MaxExtensions \/ l > Len(d)
           \/ ~FitsInFrame(d, b, field.length)
        THEN Failed
        ELSE [code |-> 0, next |-> b + field.length,
              record |-> [dif |-> dif, dife |-> Slice(d, tail, i + 1, ndife),
                          vif |-> vif, vife |-> Slice(d, tail, e, nvife),
                          custom_vif |-> Reverse(Slice(d, tail, e - customLength, customLength)),
                          data |-> Slice(d, tail, b, field.length)]]

\* What a turn of the loop at each position would come to.
Turns(d, tail) == [i \in 0..(Len(d) - 1) |-> ParseRecord(d, tail, i)]

\* The records from a position on.
ParseRecords(d, turns, start) ==
    LET from[i \in 0..Len(d)] ==
            CASE i = Len(d) -> [code |-> 0, records |-> <<>>]
              [] i < Len(d) /\ d[i + 1] = DIF_IDLE_FILLER -> from[i + 1]
              [] i < Len(d) /\ d[i + 1] \in {DIF_MANUFACTURER_SPECIFIC, DIF_MORE_RECORDS_FOLLOW} ->
                    [code |-> 0, records |-> <<RestRecord(d, i)>>]
              [] OTHER ->
                    IF turns[i].code = -1 THEN Failed
                    ELSE LET rest == from[IF turns[i].next < Len(d) THEN turns[i].next ELSE Len(d)]
                         IN  IF rest.code = -1 THEN Failed
                             ELSE [rest EXCEPT !.records = <<turns[i].record>> \o @]
    IN  from[start]

mbus_data_variable_parse(d, tail) ==
    IF Len(d) < HEADER_LENGTH THEN Failed ELSE ParseRecords(d, Turns(d, tail), HEADER_LENGTH)

MoreRecordsFollow(records) ==
    \E k \in DOMAIN records : records[k].dif = DIF_MORE_RECORDS_FOLLOW

mbus_data_fixed_parse(d) ==
    IF Len(d) # 16 THEN Failed
    ELSE [code |-> 0, status |-> d[6], cnt1_type |-> d[7], cnt2_type |-> d[8],
          cnt1_val |-> SubSeq(d, 9, 12), cnt2_val |-> SubSeq(d, 13, 16)]

\* Only the direction and the control information are looked at, not the type.
mbus_frame_data_type(f) ==
    CASE mbus_frame_direction([f EXCEPT !.type = "ANY"]) = "M2S" -> "none"
      [] f.control_information = RESP_ERROR -> "error"
      [] f.control_information = RESP_FIXED /\ f.data # <<>> -> "fixed"
      [] f.control_information = RESP_VARIABLE /\ f.data # <<>> -> "variable"
      [] OTHER -> "none"

mbus_frame_data_parse(f, tail) ==
    LET type == mbus_frame_data_type(f)
    IN  CASE type = "fixed" -> mbus_data_fixed_parse(f.data)
          [] type = "variable" -> mbus_data_variable_parse(f.data, tail)
          [] type = "error" -> [code |-> 0]
          [] OTHER -> Failed

(***************************************************************************)
(* mbus_frame_internal_pack on variable data: neither the text of a custom *)
(* VIF nor the length field of data of variable length is written.         *)
(***************************************************************************)
PackRecord(r) == <<r.dif>> \o r.dife \o <<r.vif>> \o r.vife \o r.data
mbus_frame_internal_pack(header, records) == header \o FlattenSeq([k \in DOMAIN records |-> PackRecord(records[k])])
=============================================================================
