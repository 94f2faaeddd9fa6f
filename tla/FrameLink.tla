----------------------------- MODULE FrameLink ------------------------------
(***************************************************************************)
(* mbus_sendrecv_request over the serial or the TCP transport of libmbus:  *)
(* one meter is asked for its telegrams, which come back as bytes.         *)
(*                                                                         *)
(* The wire holds the bytes that have come and will come without another   *)
(* request; a GAP in it is a silence longer than a read waits.  The meter  *)
(* is the one of the standard: it repeats its telegram when the frame      *)
(* count bit of the request is the one of the request before, and goes on  *)
(* to the next one otherwise.  MaxFaults bounds the faults of the line.    *)
(***************************************************************************)
EXTENDS MbusData

CONSTANTS Handles,       \* [transport, echo, purge]: the lines and their options
          Meters,        \* [telegrams, faults]: telegrams a meter has, faults used up
          MaxFaults,
          MaxSilence,    \* the reads a late byte may outlast
          MaxDataRetry, MaxFrames,
          Noise,         \* what a damaged byte becomes
          StaleBytes     \* what is behind the data in the memory of a frame

GAP == -1
MaxData == 252           \* of a frame whose length is one byte

ASSUME LinkAssumption ==
    /\ \A h \in Handles : /\ h.transport \in {"serial", "tcp"} /\ h.echo \in BOOLEAN
                          /\ h.purge \in {"M2S", "S2M", "none"}
    /\ \A m \in Meters : /\ m.telegrams \in Seq([ci : Byte, data : Seq(Byte)])
                         /\ \A i \in DOMAIN m.telegrams : Len(m.telegrams[i].data) <= MaxData
                         /\ m.faults \in Nat
    /\ MaxFaults \in Nat /\ MaxSilence \in Nat /\ MaxDataRetry \in Nat /\ MaxFrames \in Nat \ {0}
    /\ Noise \subseteq Byte /\ StaleBytes \subseteq Byte

FrameOf(t) == [mbus_frame_new("LONG") EXCEPT
                   !.control = RSP_UD, !.control_information = t.ci, !.data = t.data]

\* A line with an echo is opened to purge it, no line to purge the answers.
HandleAssumption == \A h \in Handles : h.purge # "S2M" /\ (h.echo => h.purge = "M2S")

\* A telegram that can be parsed announces that more follow unless it is the last.
MeterAssumption ==
    \A m \in Meters : \A i \in DOMAIN m.telegrams, tail \in StaleBytes :
        LET f == FrameOf(m.telegrams[i])
            parsed == mbus_frame_data_parse(f, tail)
        IN  parsed.code # -1 =>
                (i < Len(m.telegrams)
                 <=> mbus_frame_data_type(f) = "variable" /\ MoreRecordsFollow(parsed.records))

ASSUME StandardAssumption == HandleAssumption /\ MeterAssumption

VARIABLES handle,
          meter,      \* its telegrams; at: the last one it sent; fcb: the bit it saw
          wire, up,   \* up: the peer has not closed the connection
          faults,
          pc, retval,
          retry, fcb, \* of mbus_sendrecv_request
          frame,      \* the memory next_frame points to
          frames,     \* the frames accepted before it
          held,       \* data_var.record points to records that were freed
          buff, remaining, timeouts,  \* of the receive function of the transport
          again,      \* mbus_recv_frame receives a second time
          purging,    \* where the request goes on after mbus_purge_frames
          scrap,      \* reply of mbus_purge_frames
          misread,    \* a damaged byte was taken for an acknowledgement
          strayed     \* something came after a purge had ended

request == <<retry, fcb, frame, frames, held>>
reading == <<buff, remaining, timeouts, again, purging, scrap>>
history == <<misread, strayed>>
line == <<handle, meter, up, faults>>
vars == <<line, wire, pc, retval, request, reading, history>>

NoPurge == "none"
Init == /\ handle \in Handles
        /\ \E m \in Meters : /\ meter = [telegrams |-> m.telegrams, at |-> 0, fcb |-> -1]
                             /\ faults = m.faults
        /\ wire = <<>> /\ up = TRUE
        /\ pc = "send" /\ retval = 0
        /\ retry = 0 /\ fcb = FCB
        /\ frame = mbus_frame_new("ANY") /\ frames = <<>> /\ held = FALSE
        /\ buff = <<>> /\ remaining = 1 /\ timeouts = 0
        /\ again = FALSE /\ purging = NoPurge /\ scrap = mbus_frame_new("ANY")
        /\ misread = FALSE /\ strayed = FALSE
-----------------------------------------------------------------------------
(***************************************************************************)
(* The meter and the line.  A telegram has its control information ci and  *)
(* its data; meters answer as address 1.                                   *)
(***************************************************************************)
Address == 1
TelegramBytes(t) ==
    LET content == <<RSP_UD, Address, t.ci>> \o t.data
        length == Len(content)
    IN  <<LONG_START, length, length, LONG_START>> \o content
        \o <<SumOf(content) % 256, STOP>>

Answer(m) == IF m.at = 0 THEN <<>> ELSE TelegramBytes(m.telegrams[m.at])

Asked(m) ==
    [m EXCEPT !.fcb = fcb,
              !.at = IF fcb = m.fcb \/ m.at = Len(m.telegrams) THEN m.at ELSE m.at + 1]

\* The bytes in the header of the data are as good as each other: not all are hit.
Hit(b) == 1..Min({7, Len(b)}) \cup {i \in DOMAIN b : i > Len(b) - 3}

Damaged(b) ==
    {ReplaceAt(b, i, v) : i \in Hit(b), v \in Noise}
    \cup {RemoveAt(b, i) : i \in Hit(b)}
    \cup {InsertAt(b, i, v) : i \in Hit(b), v \in Noise}

Gaps(n) == [k \in 1..n |-> GAP]
Late(b, i, n) == SubSeq(b, 1, i - 1) \o Gaps(n) \o SubSeq(b, i, Len(b))
Delayed(b) == {Late(b, i, n) : i \in Hit(b), n \in 1..MaxSilence}
-----------------------------------------------------------------------------
RequestFrame == [mbus_frame_new("SHORT") EXCEPT !.control = REQ_UD2 + fcb, !.address = Address]
Echo == IF handle.echo THEN mbus_frame_pack(RequestFrame) ELSE <<>>

TriesLeft_none == retry < 1
TriesLeft == retry <= MaxDataRetry

\* A recv function begins.
Fresh == buff' = <<>> /\ remaining' = 1 /\ timeouts' = 0

Sent == pc' = "read" /\ Fresh /\ UNCHANGED <<again, purging, scrap>>

SendRequest ==
    /\ pc = "send" /\ TriesLeft /\ up
    /\ Sent
    /\ LET bytes == Answer(Asked(meter)) IN
       \/ /\ meter' = Asked(meter)
          /\ wire' = wire \o Echo \o bytes
          /\ UNCHANGED <<faults, up>>
       \/ /\ faults < MaxFaults /\ faults' = faults + 1
          /\ \/ /\ meter' = meter \/ meter' = Asked(meter)
                /\ wire' = wire \o Echo
                /\ UNCHANGED up
             \/ /\ meter' = Asked(meter)
                /\ \E b \in Damaged(bytes) \cup Delayed(bytes) : wire' = wire \o Echo \o b
                /\ UNCHANGED up
             \/ /\ meter' = Asked(meter)
                /\ handle.transport = "tcp" /\ up' = FALSE
                /\ \E n \in {0, Min({4, Len(bytes)})} : wire' = wire \o SubSeq(bytes, 1, n)
    /\ UNCHANGED <<handle, retval, request, history>>

\* A request into a closed connection is lost, or SIGPIPE ends the program.
SIGPIPE == 141
SendClosed ==
    /\ pc = "send" /\ TriesLeft /\ ~up
    /\ \/ Sent /\ UNCHANGED retval
       \/ pc' = "done" /\ retval' = SIGPIPE /\ UNCHANGED reading
    /\ UNCHANGED <<line, wire, request, history>>

\* A write that fails ends the request without another try: the device is gone,
\* or the connection is and SIGPIPE is ignored.
SendFails ==
    /\ pc = "send" /\ TriesLeft
    /\ \/ ~up /\ UNCHANGED faults
       \/ up /\ faults < MaxFaults /\ faults' = faults + 1
    /\ pc' = "done" /\ retval' = -1
    /\ UNCHANGED <<handle, meter, up, wire, request, reading, history>>

GiveUp ==
    /\ pc = "send" /\ ~TriesLeft
    /\ pc' = "done" /\ retval' = 1
    /\ UNCHANGED <<line, wire, request, reading, history>>
-----------------------------------------------------------------------------
(***************************************************************************)
(* What follows a receive.  mbus_purge_frames receives until nothing comes *)
(* and goes on where the request was; the request has its answer, asks     *)
(* again, or ends.                                                         *)
(***************************************************************************)
CountRetry_not == UNCHANGED retry
CountRetry == retry' = retry + 1

Accepts(result) == result \in {"OK", "INVALID"}

Purge(next) == pc' = "read" /\ purging' = next /\ scrap' = mbus_frame_new("ANY")

Purged(result, f) ==
    /\ IF Accepts(result) THEN scrap' = f /\ UNCHANGED <<pc, purging>>
       ELSE pc' = purging /\ purging' = NoPurge /\ scrap' = mbus_frame_new("ANY")
    /\ strayed' = (strayed \/ (~Accepts(result) /\ wire' # <<>>))
    /\ UNCHANGED <<frame, retry, retval, misread>>

Answered(result, f) ==
    /\ frame' = f
    /\ CASE result = "OK" -> retry' = 0 /\ Purge("process") /\ UNCHANGED retval
         [] result = "INVALID" -> CountRetry /\ Purge("send") /\ UNCHANGED retval
         [] result = "TIMEOUT" ->
              pc' = "send" /\ CountRetry /\ UNCHANGED <<purging, scrap, retval>>
         [] result = "RESET" ->
              pc' = "done" /\ retval' = 1 /\ UNCHANGED <<retry, purging, scrap>>
    /\ misread' = (misread \/ (result = "OK" /\ f.type = "ACK"))
    /\ UNCHANGED strayed

\* mbus_recv_frame reads the direction from the frame's memory, whatever the
\* result was.
Memory == IF purging = NoPurge THEN frame ELSE scrap
Returned(result, f) ==
    /\ Fresh
    /\ IF ~again /\ mbus_frame_direction(f) = handle.purge
       THEN /\ again' = TRUE
            /\ IF purging = NoPurge THEN frame' = f /\ UNCHANGED scrap
               ELSE scrap' = f /\ UNCHANGED frame
            /\ UNCHANGED <<pc, retval, retry, purging, history>>
       ELSE /\ again' = FALSE
            /\ IF purging = NoPurge THEN Answered(result, f) ELSE Purged(result, f)
-----------------------------------------------------------------------------
(***************************************************************************)
(* The receive functions of the transports: reads of at most as many bytes *)
(* as mbus_parse says are missing, until there is a frame or an end.       *)
(***************************************************************************)
Silent == (IF wire = <<>> THEN GAP ELSE Head(wire)) = GAP

Arrived ==
    LET gaps == {i \in DOMAIN wire : wire[i] = GAP}
        available == IF gaps = {} THEN Len(wire) ELSE Min(gaps) - 1
    IN  SubSeq(wire, 1, Min({remaining, available}))

Read ==
    /\ pc = "read" /\ ~Silent
    /\ wire' = SubSeq(wire, Len(Arrived) + 1, Len(wire))
    /\ \E p \in {mbus_parse(Memory, buff \o Arrived)} :
         IF p.code > 0
         THEN /\ buff' = buff \o Arrived /\ remaining' = p.code
              /\ IF purging = NoPurge THEN frame' = p.frame /\ UNCHANGED scrap
                 ELSE scrap' = p.frame /\ UNCHANGED frame
              /\ UNCHANGED <<pc, retval, retry, timeouts, again, purging, history>>
         ELSE Returned(IF p.code < 0 THEN "INVALID" ELSE "OK", p.frame)
    /\ UNCHANGED <<line, fcb, frames, held>>

\* mbus_tcp_recv_frame ends at once, mbus_serial_recv_frame when there was no
\* byte yet or at the third silence.
Silence ==
    /\ pc = "read" /\ Silent
    /\ wire' = IF wire = <<>> THEN wire ELSE Tail(wire)
    /\ CASE handle.transport = "tcp" ->
              Returned(IF wire = <<>> /\ ~up THEN "RESET" ELSE "TIMEOUT", Memory)
         [] handle.transport = "serial" /\ buff = <<>> -> Returned("TIMEOUT", Memory)
         [] handle.transport = "serial" /\ buff # <<>> /\ timeouts = 2 ->
              Returned("INVALID", Memory)
         [] OTHER -> /\ timeouts' = timeouts + 1
                     /\ UNCHANGED <<pc, retval, retry, frame, buff, remaining, again, purging,
                                    scrap, history>>
    /\ UNCHANGED <<line, fcb, frames, held>>
-----------------------------------------------------------------------------
\* The records of a telegram are freed, the pointer to them stays.
ExpectMore(parsed) == MoreRecordsFollow(parsed.records) /\ Len(frames) + 1 < MaxFrames

NextFcb_same == fcb
NextFcb == FCB - fcb

ProcessVariable(parsed) ==
    IF ExpectMore(parsed)
    THEN /\ pc' = "send" /\ fcb' = NextFcb
         /\ frame' = mbus_frame_new("ANY")
         /\ UNCHANGED retval
    ELSE pc' = "done" /\ UNCHANGED <<fcb, frame, retval>>

(***************************************************************************)
(* An error or fixed data after a telegram with records frees those a      *)
(* second time: the library may abort, or not notice.                      *)
(***************************************************************************)
ABORTED == 134
ProcessOther ==
    /\ pc' = "done"
    /\ retval' \in IF held THEN {0, ABORTED} ELSE {0}
    /\ UNCHANGED <<fcb, frame>>

ProcessFails == pc' = "done" /\ retval' = 1 /\ UNCHANGED <<fcb, frame>>

Process ==
    /\ pc = "process"
    /\ \E tail \in StaleBytes :
         LET parsed == mbus_frame_data_parse(frame, tail)
             variable == mbus_frame_data_type(frame) = "variable"
         IN  IF parsed.code = -1
             THEN ProcessFails /\ UNCHANGED <<frames, held>>
             ELSE /\ frames' = Append(frames, frame)
                  /\ IF variable THEN ProcessVariable(parsed) ELSE ProcessOther
                  /\ held' = (held \/ (variable /\ parsed.records # <<>>))
    /\ UNCHANGED <<line, wire, retry, reading, history>>

Done == pc = "done" /\ UNCHANGED vars
Step == SendRequest \/ SendClosed \/ SendFails \/ GiveUp \/ Read \/ Silence \/ Process
Next == Step \/ Done

Spec == Init /\ [][Next]_vars
\* Every read and write of the transports returns.
FairSpec == Spec /\ WF_vars(Step)
-----------------------------------------------------------------------------
Contents == [i \in DOMAIN frames |-> [ci |-> frames[i].control_information, data |-> frames[i].data]]
Quiet == ~misread /\ ~strayed

(***************************************************************************)
(* The checksum does its work: what the request takes for an answer, after *)
(* whatever damage, loss and delay, is the telegram the meter sent last,   *)
(* unchanged.                                                              *)
(***************************************************************************)
AnswerIntact ==
    pc = "process" /\ Quiet =>
        /\ meter.at # 0
        /\ LET t == meter.telegrams[meter.at] IN
           frame.control = RSP_UD /\ frame.control_information = t.ci /\ frame.data = t.data

(***************************************************************************)
(* A request that succeeds returns the telegrams of the meter, each once,  *)
(* in their order and unchanged, up to the last or to MaxFrames: provided  *)
(* that nothing came after a purge had ended and that no damaged byte was  *)
(* taken for an acknowledgement, which mbus_sendrecv_request does not tell *)
(* from an answer.                                                         *)
(***************************************************************************)
ReplyExact ==
    pc = "done" /\ retval = 0 /\ Quiet =>
        Contents = SubSeq(meter.telegrams, 1, Min({MaxFrames, Len(meter.telegrams)}))

(***************************************************************************)
(* As many faults as max_data_retry allows for never make a request fail:  *)
(* what is damaged, lost or late is asked for again.  A byte that is late  *)
(* costs a try for every read it outlasts and one for the rest of its      *)
(* telegram.  The connection is up and the telegrams can be parsed.  (A     *)
(* request that cannot be written is not asked again: it ends with -1.)    *)
(***************************************************************************)
Readable(telegrams) ==
    /\ telegrams # <<>>
    /\ \A i \in DOMAIN telegrams : mbus_frame_data_parse(FrameOf(telegrams[i]), 0).code = 0
RequestSucceeds ==
    (/\ pc = "done" /\ up /\ Quiet
     /\ faults * (MaxSilence + 1) <= MaxDataRetry
     /\ Readable(meter.telegrams)) => retval # 1

\* Every request ends, with a meter or without.
RequestEnds == <>(pc = "done")
=============================================================================
