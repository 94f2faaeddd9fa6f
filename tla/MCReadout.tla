----------------------------- MODULE MCReadout ------------------------------
EXTENDS Readout

Header == <<1, 0, 0, 0, 45, 44, 1, 4, 7, 0, 0, 0>>
Variable(records) == [ci |-> RESP_VARIABLE, data |-> Header \o records]
Fixed(types) == [ci |-> RESP_FIXED, data |-> <<1, 0, 0, 0, 7, 0>> \o types \o <<1, 2, 0, 0, 3, 4, 0, 0>>]
Error == [ci |-> RESP_ERROR, data |-> <<>>]

Volume == <<2, \h13, 5, 1>>
More == <<DIF_MORE_RECORDS_FOLLOW>>
\* Two telegrams with records, a third one that MaxFrames cuts off, an error, no
\* meter.
Chains == {<<Variable(Volume \o More), Variable(<<1, \h5A, \hE5>>)>>,
           <<Variable(Volume \o More), Variable(<<1, \h6, 3>> \o More), Variable(Volume)>>,
           <<Variable(Volume \o More), Error>>, <<Fixed(<<5, \h29>>)>>, <<>>}
Short == <<Variable(<<1, \h13, 5>>)>>

\* One record: every field and length of numbers, at the ends of their ranges.
Bytes == {0, 1, \h25, \h7F, \h80, \h99, \hFF}
NumberRecords == {<<1, 3, b>> : b \in Bytes} \cup {<<2, 3, b, c>> : b, c \in Bytes}
                 \cup {<<3, 3, b, 0, c>> : b, c \in Bytes}
                 \cup {<<9, 3, b>> : b \in Bytes \cup {\hF1}}
                 \cup {<<10, 3, b, c>> : b \in Bytes, c \in Bytes \cup {\hF1}}
                 \cup {<<11, 3, b, c, 0>> : b, c \in Bytes}
UnitRecords == {<<1, v, 1>> : v \in (0..127) \ {\h7C}}
               \cup {<<1, \hFD, v, 1>> : v \in 0..127} \cup {<<1, \hFB, v, 1>> : v \in 0..127}
               \cup {<<1, \h93, v, 1>> : v \in {\h74, \h7D}}
\* Extensions, custom units, data of variable length, dates, fillers, and what
\* follows the last record.
OtherRecords == {<<\h84, \hC1, 2, 3, 1, 2, 3, 4>>, <<1, \hFC, 2, 66, 65, \h74, 9>>,
                 <<1, \hFC, 2, 66, 65, \h7D, 9>>, <<1, \hFC, 1, 65, \h78, 9>>,
                 <<1, \h7C, 1, 65, 9>>, <<13, \hFD, \h11, 3, 49, 50, 51>>,
                 <<13, \h79, \hC2, 1, 2, 3, 4>>, <<4, \h6D, 1, 2, 3, 4>>, <<2, \h6C, \h41, \h31>>,
                 <<1, \hFD, \hC8, \h3D, 1>>, <<1, \hFB, \hA1, \h3D, 1>>,
                 <<\h2F, 1, 3, 4, \h2F, 1, 3, 5, \h2F>>, <<15, 9, 9>>, <<8, 3>>, <<0, 3>>}
Alone(records) == [telegrams |-> <<Variable(records)>>, faults |-> MaxFaults]

MC_Meters ==
    {[telegrams |-> Short, faults |-> 0]}
    \cup {[telegrams |-> t, faults |-> MaxFaults - 1] : t \in Chains}
    \cup {Alone(r) : r \in NumberRecords \cup UnitRecords \cup OtherRecords}
    \cup {[telegrams |-> <<Fixed(<<c, c + 64>>)>>, faults |-> MaxFaults] : c \in 0..63}

MC_Handles == {[transport |-> "tcp", echo |-> FALSE, purge |-> "M2S"],
               [transport |-> "serial", echo |-> TRUE, purge |-> "M2S"]}
MC_Registers == <<0, 1, 1>>
MC_Noise == {22, ACK_START}
MC_StaleBytes == {0, 131, 255}
=============================================================================
