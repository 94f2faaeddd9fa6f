----------------------------- MODULE MbusQuery -----------------------------
(***************************************************************************)
(* queryMeter of mbusread.cpp over the connections of TcpPool and the      *)
(* serial port: a request is written, one frame is read back, a failure is *)
(* retried once, and whatever is then in the reply buffer is parsed.       *)
(*                                                                         *)
(* A line is a gateway or the serial port, shared by its meters.  A meter  *)
(* answers with its data at once, or late, not at all, with a damaged      *)
(* frame, an error or data in the fixed format; MaxFaults bounds how often *)
(* all but the first happens.  A frame is known by its sender and by being *)
(* fresh, that is, an answer to the query under way; the code sees         *)
(* neither: it compares no address.                                        *)
(*                                                                         *)
(* A definition name_variant states a plausible mistake in name; the       *)
(* specification uses none of them, they show that the properties notice.  *)
(***************************************************************************)
EXTENDS TcpPool

CONSTANTS Meters,
          SerialPort,
          LineOf,          \* LineOf[m]: the gateway of m or SerialPort
          MaxFaults,
          NoMeter,
          Zero,            \* the value of a register that was reset
          Junk             \* a reply buffer nothing was received into

RETRY_COUNT == 2
Lines == Gateways \cup {SerialPort}
Kinds == {"data", "fixed", "error", "damaged"}
Frames == [from : Meters, kind : Kinds, fresh : BOOLEAN]

ASSUME QueryAssumption ==
    /\ SerialPort \notin Gateways
    /\ LineOf \in [Meters -> Lines]
    /\ MaxFaults \in Nat
    /\ NoMeter \notin Meters
    /\ {Zero, Junk} \cap Frames = {} /\ Zero # Junk

VARIABLES pc,         \* "idle", "sending", "receiving"; "exit", "killed"
          meter,      \* the meter that is queried
          tries,      \* retryCount of queryMeter
          reply,      \* the reply buffer, on the stack
          value,      \* value[m]: the frame the register of m comes from
          result,     \* result[m]: how the last query of m ended
          inbox,      \* inbox[l]: the frames that have arrived on a line
          late,       \* late[l]: the answers still to arrive
          received,   \* this query has received a valid frame
          failures,   \* failures[l]: the receives that failed so far
          faults,
          sigpipeIgnored  \* the MQTT library, where it is used, ignores SIGPIPE

queryVars == <<pc, meter, tries, reply, value, result, received, failures>>
lineVars == <<inbox, late>>
vars == <<poolVars, queryVars, lineVars, faults, sigpipeIgnored>>

Init == /\ PoolInit
        /\ pc = "idle" /\ meter = NoMeter /\ tries = 0
        /\ reply = Junk
        /\ value = [m \in Meters |-> Zero]
        /\ result = [m \in Meters |-> "none"]
        /\ inbox = [l \in Lines |-> <<>>]
        /\ late = [l \in Lines |-> <<>>]
        /\ received = FALSE
        /\ failures = [l \in Lines |-> 0]
        /\ faults = 0
        /\ sigpipeIgnored \in BOOLEAN

line == LineOf[meter]
Running == pc \notin {"exit", "killed"}
-----------------------------------------------------------------------------
\* The frames still around are no answers to a new query.
Stale(f) == [from |-> f.from, kind |-> f.kind, fresh |-> FALSE]
Outdated(s) == [i \in DOMAIN s |-> Stale(s[i])]

(***************************************************************************)
(* queryMeter up to the first request: the values are reset only when      *)
(* there is a connection.  The reply buffer is not initialised: it holds   *)
(* what the last query left there, unless another call has overwritten it. *)
(***************************************************************************)
StartQuery(m) ==
    /\ pc = "idle"
    /\ IF LineOf[m] = SerialPort THEN UNCHANGED poolVars ELSE mbusTCP_open(LineOf[m])
    /\ pc' = "sending" /\ meter' = m /\ tries' = RETRY_COUNT
    /\ value' = [value EXCEPT ![m] = Zero]
    /\ reply' \in {Junk, IF reply = Junk THEN Junk ELSE Stale(reply)}
    /\ inbox' = [l \in Lines |-> Outdated(inbox[l])]
    /\ late' = [l \in Lines |-> Outdated(late[l])]
    /\ received' = FALSE
    /\ UNCHANGED <<result, failures, faults, sigpipeIgnored>>

NoConnection(m) ==
    /\ pc = "idle"
    /\ LineOf[m] \in Gateways /\ mbusTCP_open_fails(LineOf[m])
    /\ result' = [result EXCEPT ![m] = "failed"]
    /\ UNCHANGED <<pc, meter, tries, reply, value, received, failures,
                   lineVars, faults, sigpipeIgnored>>

(***************************************************************************)
(* mbus_send_request_frame.  The meter answers at once or a fault happens. *)
(***************************************************************************)
LineUp(l) == l \in Gateways => socket[l] = "up"

SendRequest ==
    /\ pc = "sending" /\ LineUp(line)
    /\ pc' = "receiving"
    /\ LET answer(k) == [from |-> meter, kind |-> k, fresh |-> TRUE] IN
       \/ /\ inbox' = [inbox EXCEPT ![line] = Append(@, answer("data"))]
          /\ UNCHANGED <<late, faults>>
       \/ /\ faults < MaxFaults /\ faults' = faults + 1
          /\ \/ \E k \in Kinds \ {"data"} :
                   inbox' = [inbox EXCEPT ![line] = Append(@, answer(k))] /\ UNCHANGED late
             \/ late' = [late EXCEPT ![line] = Append(@, answer("data"))] /\ UNCHANGED inbox
             \/ UNCHANGED lineVars
    /\ UNCHANGED <<poolVars, meter, tries, reply, value, result, received, failures,
                   sigpipeIgnored>>

\* The request could not be written: queryMeter gives up without a retry.
WriteFails_retried == UNCHANGED <<pc, meter, result>>
WriteFails ==
    IF sigpipeIgnored
    THEN /\ pc' = "idle" /\ meter' = NoMeter
         /\ result' = [result EXCEPT ![meter] = "failed"]
    ELSE pc' = "killed" /\ UNCHANGED <<meter, result>>

\* The first write to a socket the gateway has closed succeeds, the next does
\* not: it raises SIGPIPE, which ends the program unless it is ignored.
SendToClosed ==
    /\ pc = "sending" /\ ~LineUp(line)
    /\ \/ /\ socket[line] = "closed"
          /\ socket' = [socket EXCEPT ![line] = "reset"]
          /\ pc' = "receiving"
          /\ UNCHANGED <<meter, result>>
       \/ /\ socket[line] = "reset"
          /\ WriteFails
          /\ UNCHANGED socket
    /\ UNCHANGED <<isConnected, retryCount, listening, tries, reply, value, received,
                   failures, lineVars, faults, sigpipeIgnored>>
-----------------------------------------------------------------------------
(***************************************************************************)
(* mbus_frame_data_parse and process_mbus_data on the reply buffer: a      *)
(* frame with data becomes the value of the meter that is queried; one in  *)
(* the fixed format ends the program.  A damaged frame and what happens to *)
(* be on the stack may look like anything.                                 *)
(***************************************************************************)
LooksLike(f, k) == f # Junk => f.kind \in {k, "damaged"}

Accept(f) ==
    /\ LooksLike(f, "data")
    /\ value' = [value EXCEPT ![meter] = f]
    /\ result' = [result EXCEPT ![meter] = "ok"]
    /\ pc' = "idle" /\ meter' = NoMeter

process_mbus_data_fixed(f) ==
    /\ LooksLike(f, "fixed")
    /\ pc' = "exit"
    /\ UNCHANGED <<meter, value, result>>

Reject_counted(f) ==
    /\ LooksLike(f, "error")
    /\ result' = [result EXCEPT ![meter] = "ok"]
    /\ pc' = "idle" /\ meter' = NoMeter
    /\ UNCHANGED value
Reject(f) ==
    /\ LooksLike(f, "error")
    /\ result' = [result EXCEPT ![meter] = "failed"]
    /\ pc' = "idle" /\ meter' = NoMeter
    /\ UNCHANGED value

Process(f) == Accept(f) \/ process_mbus_data_fixed(f) \/ Reject(f)

Taken_peek(s) == s
Taken(s) == Tail(s)

\* mbus_recv_frame takes one frame from the line, whoever has sent it.
ReceiveFrame ==
    /\ pc = "receiving" /\ inbox[line] # <<>>
    /\ Head(inbox[line]).kind # "damaged"
    /\ reply' = Head(inbox[line])
    /\ inbox' = [inbox EXCEPT ![line] = Taken(@)]
    /\ received' = TRUE
    /\ Process(reply')
    /\ UNCHANGED <<poolVars, tries, late, failures, faults, sigpipeIgnored>>

RetryLeft == tries > 1

(***************************************************************************)
(* A receive fails: the checksum of the frame is wrong, although it is in  *)
(* the reply buffer then, or nothing came in time, or the gateway has      *)
(* closed the connection.  After the last try the buffer is parsed anyhow. *)
(***************************************************************************)
ReceiveFails ==
    /\ pc = "receiving"
    /\ \/ /\ inbox[line] # <<>> /\ Head(inbox[line]).kind = "damaged"
          /\ reply' = Head(inbox[line])
          /\ inbox' = [inbox EXCEPT ![line] = Taken(@)]
       \/ /\ inbox[line] = <<>>
          /\ UNCHANGED <<reply, inbox>>
    /\ failures' = [failures EXCEPT ![line] = @ + 1]
    /\ tries' = tries - 1
    /\ IF RetryLeft
       THEN pc' = "sending" /\ UNCHANGED <<meter, value, result>>
       ELSE Process(reply')
    /\ UNCHANGED <<poolVars, late, received, faults, sigpipeIgnored>>
-----------------------------------------------------------------------------
Arrive(l) ==
    /\ late[l] # <<>> /\ LineUp(l)
    /\ inbox' = [inbox EXCEPT ![l] = Append(@, Head(late[l]))]
    /\ late' = [late EXCEPT ![l] = Tail(@)]
    /\ UNCHANGED <<poolVars, queryVars, faults, sigpipeIgnored>>

GatewayFault(g) ==
    /\ faults < MaxFaults /\ faults' = faults + 1
    /\ (g \in listening /\ ListenChange(g)) \/ PeerCloses(g)
    /\ UNCHANGED <<queryVars, lineVars, sigpipeIgnored>>

GatewayBack(g) ==
    /\ g \notin listening /\ ListenChange(g)
    /\ UNCHANGED <<queryVars, lineVars, faults, sigpipeIgnored>>

Transfer == SendRequest \/ SendToClosed \/ ReceiveFrame \/ ReceiveFails
Environment == \/ \E l \in Lines : Arrive(l)
               \/ \E g \in Gateways : GatewayFault(g) \/ GatewayBack(g)
Next == \/ \E m \in Meters : StartQuery(m) \/ NoConnection(m)
        \/ Transfer
        \/ Running /\ Environment

Spec == Init /\ [][Next]_vars
(***************************************************************************)
(* Every read and write returns: there is a timeout on the sockets and on  *)
(* the serial port.  The schedules come round again for every meter.       *)
(***************************************************************************)
FairSpec == /\ Spec /\ WF_vars(Transfer)
            /\ \A m \in Meters : SF_vars(StartQuery(m) \/ NoConnection(m))
-----------------------------------------------------------------------------
QueryTypeOK ==
    /\ pc \in {"idle", "sending", "receiving", "exit", "killed"}
    /\ meter \in Meters \cup {NoMeter}
    /\ (pc = "idle") <=> (meter = NoMeter)
    /\ tries \in IF pc \in {"sending", "receiving"} THEN 1..RETRY_COUNT
                 ELSE 0..RETRY_COUNT
    /\ reply \in Frames \cup {Junk}
    /\ value \in [Meters -> Frames \cup {Zero, Junk}]
    /\ result \in [Meters -> {"none", "ok", "failed"}]

LineTypeOK ==
    /\ inbox \in [Lines -> Seq(Frames)] /\ late \in [Lines -> Seq(Frames)]
    /\ failures \in [Lines -> Nat]

TypeOK == /\ PoolTypeOK /\ QueryTypeOK /\ LineTypeOK
          /\ faults \in 0..MaxFaults
          /\ received \in BOOLEAN /\ sigpipeIgnored \in BOOLEAN

(***************************************************************************)
(* As long as no receive has failed on a line, a meter on it that was read *)
(* holds the answer it gave itself to that very query, although nothing in *)
(* the code compares an address.                                           *)
(***************************************************************************)
OwnAnswer ==
    \A m \in Meters \ {meter} : result[m] = "ok" /\ failures[LineOf[m]] = 0 =>
        value[m] \in Frames /\ value[m].from = m /\ value[m].fresh

(***************************************************************************)
(* The frames that wait on a line, or have still to come, are at most as   *)
(* many as the receives that failed there, plus the answer to the request  *)
(* under way: a failure can shift the answers of a line by one meter, for  *)
(* good, but nothing else can.                                             *)
(***************************************************************************)
OnTheWay(l) == Len(inbox[l]) + Len(late[l])
Requested(l) == IF pc = "receiving" /\ line = l THEN 1 ELSE 0
OneAnswerPerRequest == \A l \in Lines : OnTheWay(l) <= failures[l] + Requested(l)

(***************************************************************************)
(* The inductive invariant behind both: before the first failure on a line *)
(* all that can come in there is the answer to the request under way.      *)
(***************************************************************************)
AnswerToRequest ==
    pc = "receiving" /\ failures[line] = 0 =>
        \A s \in {inbox[line], late[line]} : \A i \in DOMAIN s :
            s[i].from = meter /\ s[i].fresh

IInv == TypeOK /\ OwnAnswer /\ OneAnswerPerRequest /\ AnswerToRequest

\* A query ends, with a result or with the program.
QueryEnds == pc \in {"sending", "receiving"} ~> pc \in {"idle", "exit", "killed"}

(***************************************************************************)
(* A gateway that cannot be reached at first is connected once it can, the *)
(* queries that let the retry delay pass included.                         *)
(***************************************************************************)
Used(g) == \E m \in Meters : LineOf[m] = g
ConnectsLater ==
    \A g \in Gateways :
        Used(g) /\ <>[](g \in listening) => <>(g \in isConnected \/ ~Running)

(***************************************************************************)
(* meterDef.cpp:811: the open is done when the meter is queried "to be     *)
(* able to retry of temporary not available", so a meter is read again     *)
(* when its gateway is back.  The code does otherwise.                     *)
(***************************************************************************)
ReadAgain ==
    \A m \in Meters : <>[](Gateways \subseteq listening) =>
                      []<>(result[m] = "ok" \/ ~Running)
=============================================================================
