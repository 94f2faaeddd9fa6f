# emmbus2influx in TLA+

emmbus2influx is a daemon that reads M-Bus meters, on the serial line or behind
TCP gateways, on cron-like schedules, computes formulas over their values, and
sends the results to InfluxDB, Grafana Live and an MQTT broker.  It is one
thread: a main loop calls the parts below one after the other.  What makes it
hard is outside (servers and gateways that disappear and come back between two
calls, meters that answer late, wrongly or not at all, a signal at any moment,
the clock) and the state that survives from one round of the loop to the next:
the queue of unsent lines, the countdown to the next write, the values a write
sums up, connections taken for open, frames left on a line.

## Inventory

| Component | Source | State it keeps | Operations | What is hard | What makes it correct |
| --- | --- | --- | --- | --- | --- |
| InfluxDB client | `influxdb-post/influxdb-post.c` | the line in `influxBuf`, the queue at `firstEntry`, `numEntriesQueued`, the curl handle | post a line, `addToQueue`, `influxdb_deQueue`, the flush in `influxdb_post_deInit` | the server changes between two exchanges of one call, an answer is lost, the queue is full | no line twice without a lost answer, one owner of every buffer, a bounded FIFO, the backlog gets out |
| Grafana Live client | same file, `emmbus2influx.cpp` | websocket handle, `isWebsocket`, `firstConnectionAttempt`, `url` | connect, fall back to http, ping, send | a failed send in the middle of a line, a reconnect that fails, the ping's missing arguments | a line is stored whole, once, and lost only by a failure; the connection comes back |
| Line formatter | same files | the buffer, `last_type` | append measurement, tag, field, timestamp; JSON for MQTT | the order of calls, meters without a field for a sink | every text is well formed and holds the enabled fields |
| Main loop | `emmbus2influx.cpp` | `terminated`, `isFirstQuery`, `dryrun` | initial query, rounds, what is sent in which round, the end | a signal anywhere, a dry run that counts down | a signal ends it, a dry run sends nothing |
| Aggregation (influxwritemult) | `mbusread.cpp`, `cron.cpp` | `influxWriteCountdown`, `fvalue`, `fvalueInflux`, `fvalueInfluxLast` | `executeInfluxWriteCalc`, `setMeterFvalueInflux(Last)`, the reset after a write | readings that fail within a window, a meter in several schedules | a write covers exactly n readings and is their maximum, minimum or last |
| Formulas | `mbusread.cpp` | parser variables | per meter type, per meter | they read what failed queries left | evaluated after all registers |
| Schedules | `cron.cpp` | `nextQueryTime` per schedule, members, `isDue` | `cron_is_due`, `cron_queryMeters`, registration | a clock that is set back, a round longer than a period | no match forgotten or served twice, a meter once per round |
| Meter query | `mbusread.cpp` | the reply buffer on the stack, `meterHasBeenRead`, the registers | `queryMeter`: request, receive, retry, parse | late, lost or damaged answers, lines shared by meters | a meter holds its own answer to this query or counts as failed |
| TCP pool | `mbusread.cpp` | an entry per host and port: `isConnected`, `retryCount` | `mbusTCP_open` | a gateway that refuses, goes away and comes back | tried again, used only when it works |
| Requests and transport of libmbus | `libmbus/mbus/mbus-protocol-aux.c`, `mbus-tcp.c`, `mbus-serial.c` | descriptor, frame count bit, retries | send and receive a frame, purge, `mbus_sendrecv_request` | bytes lost, added, damaged or late | a request returns the meter's telegrams, each once |
| Frame codec of libmbus | `libmbus/mbus/mbus-protocol*.c` | the frame in memory | pack, parse, records, units | incremental parsing, lengths at the end of the data, two unit tables | what is accepted is what was packed; numbers and units are right |
| Secondary addresses and tools of libmbus | same files, `libmbus/bin/` | what is selected, the address mask | select, probe, scan, set an address | collisions, slaves that do not hear | every slave is found, no address is given away twice |
| MQTT publisher | `mqtt_publish.c` | the client, `isDisconnected` | publish, reconnect and publish again, yield | a broker that goes away between the two | nothing lost without a failure |
| Configuration reader | `meterDef.cpp`, `parser.c` | types, meters, schedules | one pass at the start | defaults, inheritance, the order of the lines | a meter has what the file says |
| Command line, log, build, libmbus tests and hardware | the rest | - | - | - | - |

The main loop calls `cron_queryMeters`, which calls `queryMeter` for every due
meter and then the formulas and the aggregation; the values wait in the meters.
It then builds one line of all meters due for a write and hands it to the
InfluxDB client, another one to the Grafana client, and publishes every meter.
Nothing is called back but the signal handlers, which set `terminated`.
`PROJECT.json` lists the hazards of all this with their lines, the covered ones
with the properties that would notice.

## Modules

| Module | Models | Proofs |
| --- | --- | --- |
| `LineCache` | the promise of the cache: a bounded FIFO that loses a line only when full | |
| `InfluxPost` | the InfluxDB client, one step per HTTP exchange | `InfluxPostProofs` |
| `MeterCycle` | main loop, queries of a round, formulas, aggregation, what is sent | `MeterCycleProofs` |
| `Cron` | the table of schedules and the rounds against a clock | `CronProofs` |
| `TcpPool` | `mbusTCP_open` and the gateways | |
| `MbusQuery` | `queryMeter` on shared lines, over `TcpPool` | `MbusQueryProofs` |
| `GrafanaPush` | the Grafana client, one step per exchange | |
| `MqttPublish` | `mqtt_pub` over the Paho client | |
| `Push` | the rounds of the main loop over `GrafanaPush` and `MqttPublish` | `PushProofs` |
| `MeterConfig` | the configuration file, one action per line | |
| `LineFormat` | `influxdb_format_line` and the texts of a meter | |
| `ConfigLines` | `MeterConfig`, then the texts of a round with `LineFormat` | `ConfigProofs` |
| `MbusFrame` | the frames of libmbus as bytes: pack, parse, verify | `ReadoutProofs` |
| `MbusData` | the data of an answer: fixed and variable structure | `ReadoutProofs` |
| `UnitTables`, `UnitTexts` | the tables of units for numbers, and the texts of units | |
| `Records` | what a record is worth to the daemon and to the normalising reader | `ReadoutProofs` |
| `FrameLink` | `mbus_sendrecv_request`, byte by byte, over both transports | `ReadoutProofs` |
| `Readout` | `FrameLink` with `Records` | `ReadoutProofs` |
| `SlaveBus` | the slaves of a bus: selection, collisions, deaf slaves | |
| `BusTools` | the scans and the setting of an address, over `SlaveBus` | `BusToolsProofs` |
| `MC*` | the instances TLC checks | |

An operator `name_variant` states a plausible mistake in `name`; no
specification uses one.  They are there to see a property fail.

**InfluxPost.**  `pc` is where the thread is: in the main loop, in
`influxdb_post_http_line`, in `influxdb_deQueue` or in `influxdb_post_deInit`.
Every call of `post_http_send_line` is a step of its own, so the server, an
environment action, changes between two posts of one call.  `queue` is the list
at `firstEntry`, `numEntriesQueued` the counter the code keeps beside it; that
the two agree is an invariant, not an assumption.  What the server has stored,
refused and answered without the daemon hearing of it are history variables.
The retry on the result -1 is left out: only a websocket returns -1, and the
client of InfluxDB has none.

**LineCache** is what `readme.md` promises, short of the ring buffer (see the
divergences): `InfluxPost` implements it under the mapping `pending <- queue`,
`fresh <- influxBuf`, `stored <- {l : copies[l] > 0}`.

**MeterCycle.**  A meter has one value, a register or a formula: registers of a
meter are processed alike and independently.  A round is three steps,
`cron_queryMeters` (with every answer, the formulas and
`executeInfluxWriteCalc`), the sending, and the test of `terminated`; a signal
comes between any two.  `window[m]`, the readings since the last write of m, and
`started`, the meters whose window begins with a reading, are history variables
the properties compare the written value with.  Which
schedules are due is chosen freely, which covers every clock.

**TcpPool and MbusQuery.**  One step per request and per receive.  A frame is
its sender, its kind and whether it answers the query under way; the code sees
only the kind, as it compares no address.  A damaged frame reaches the reply
buffer (the check comes after the copy) and fails; after the last try the
buffer is parsed anyhow, and then it is the damaged frame, what an earlier
query has left on the stack, or `Junk`, any of which may look like data.
`SIGPIPE` ends the program unless the MQTT library, whose configuration the
variable `sigpipeIgnored` stands for, ignores it.

**Cron.**  The sections of the file are actions in any order, as a file may have
them, then rounds: `BeginRound` marks the members of the due schedules and sets
the next times, each marked meter is queried, `EndRound` returns.  The clock
ticks between any two steps, in the middle of a round too, and may be set back.
`cron_next` of the library is the function `CronNext`.

**GrafanaPush, MqttPublish, Push.**  `GrafanaPush` is `influxdb_post_http_line`
and the ping over `post_http_send_line`: connection, up to `Pieces` sends of a
line, the repetition on -1, the fallback to http, and the ping's read of an
argument that was not passed.  Its variable `stored` counts what Grafana has of
the current line, `torn` says that it took the end of a line for a line.
`MqttPublish` has the client's belief (`link`) beside the broker's state.
`Push` makes the calls one after the other, as the one thread does: the servers
change during a call of either, never both calls at once.

**MeterConfig, LineFormat, ConfigLines.**  A line of the file is a section, an
entry or a field; the refusals end the program.  A field has a name, what it is
enabled for and its array.  A text is the sequence of its elements with what
separates each from the one before, so that a missing separator, an open array or
a line without a field is visible; names and values are opaque.

**MbusFrame to Readout.**  Here data is bytes, because the properties are about
bytes.  `mbus_parse` works on the frame the calls before have left in memory.
`MbusData` gives the parser of variable data a byte `tail` that stands for what
is in memory behind the data.  `Records` models the conversion to text and back
by the number it yields.  `FrameLink` has the wire as a sequence of bytes and
gaps, the meter of the standard with its frame count bit, and a fault per step.

**SlaveBus, BusTools.**  An address is a function from positions to nibbles.
The recursion of `mbus_scan_2nd_address_range` is one mask and a position:
going down sets the next position wild, coming back is finding the next digit.
What several slaves at once look like is a set of results: acknowledgements are
one byte each and may overlap into one.  What a tool has selected stays selected
for the next one, unless that begins with `init_slaves`, as the setting of an address
and `mbus-serial-scan-secondary` do; a slave may hear neither of its two frames.

## Runs

| Run | Question | Bounds |
| --- | --- | --- |
| `influx_outages` | Is the cache consistent, does it store twice, does it implement `LineCache`, does a backlog get out, does a shutdown end? | 4 lines, queue of 3, batches of 2: a full queue, a line beyond it, and a batch that does not empty it |
| `influx_blocked` | divergence, below | 3 lines, one of them malformed |
| `cycle_aggregate` | Does a write cover the right readings, with the right value? | a TCP meter (imin, every 2nd), a serial one (iavg, every 3rd), a virtual one (imax, every 2nd) computed from the first; two schedules that share a meter, two values of either sign, any query may fail in any round |
| `cycle_live` | Is what is read written, does a signal end it, is a dry run dry? | influxwritemult 0, 1 and 2, a disabled meter, a daemon and a dry run of two rounds |
| `cron_schedules` | Is a match forgotten or served twice, is every meter scheduled, is it queried once? | three meters, one disabled; the default schedule and a named one, periods of 2 and 3 so that matches coincide at 6, the last time; one set-back of any length |
| `query_lines` | Whose answer does a meter hold, how far do lines shift, do queries end, is a gateway tried again? | two meters behind a gateway, one on the serial line; two faults, so that a failed receive and its retry, or an outage and a late answer, combine; a retry delay of 2 |
| `query_again` | divergence, below | one meter and one fault |
| `push_outages` | Is a line stored whole and once, what loses a line or a message, do both sinks recover? | a line in two pieces (a first send that succeeds, a second that fails), two messages a round (one that reconnects, one after it), QoS 0, the level at which a loss is reported; the outages are unbounded |
| `config_lines` | Is what is sent well formed and complete, which setting wins, are names unique? | files of up to 9 lines, one type, two meter names, fields with and without array, two of them in one array of a message, enabled or disabled for each sink, two settings with two values |
| `config_handle` | divergence, below | a meter, address 0 or 5 |
| `telegrams` | Does a request return the meter's telegrams, is an accepted telegram intact, are numbers and units right, is memory behind the data used? | every unit code of the three tables, numbers at the ends of every width, chains of up to three telegrams with `MaxFrames` 2, two faults for short telegrams, one for chains; both transports |
| `bus_tools` | Is every slave found, is an address given twice, do the tools end? | five slaves: two share the first digit, two the whole number, one has a letter; addresses of 4 positions (two digits, one byte), primary addresses 0 to 2, two tools one after the other, two faults, one search retry; five masks: everything, a first digit, a second digit, a whole address with a letter, a whole number |

The values of `cycle_aggregate` are multiples of 8 so that the halving of iavg
is exact for its windows.  More meters, lines or faults add no new case: the
state of a meter, of a line and of an entry does not depend on the others except
through what the instances contain (a shared schedule, a shared line, the head
of the queue), and the theorems below hold for all sizes.  Addresses have 4
positions in place of 16 because every position of a kind is treated alike: what
matters is a first and a last digit and a byte.  A fault is one lost, added,
damaged or late byte, or one frame a slave does not hear; the retries of the
code are 1 to 8, and a fault more than a retry makes up for is allowed where the
property speaks of it.  Values are unbounded integers in `MeterCycle`: registers
are doubles in the code, their overflow is not modelled.

`CHECK_DEADLOCK FALSE` stands where the program really stops: the daemon of
`MeterCycle` and `MbusQuery` ends (a signal, the end of a dry run, `exit(1)`,
`SIGPIPE`), a file with an error ends it (`Cron`, `ConfigLines`), the clock of
`Cron` is at its bound, a crash in the ping ends `Push`, and the tools of
`BusTools` have all run.

### Fairness

- `InfluxPost`: weak fairness of the four program actions.  The thread runs, and
  every exchange ends: libcurl returns.  (The code sets no timeout, so this can
  take libcurl's default; a hazard, listed as such.)  The poll loop posts again
  and again; the shutdown and the server are not fair.
- `MeterCycle`, `Cron`: weak fairness of the main loop as a whole, which never
  waits for another process.  No fairness for answers, schedules, signals, the
  clock or its being set.
- `MbusQuery`: weak fairness of the transfer, as sockets and the serial port
  have timeouts; strong fairness per meter for its next query, as the schedules
  come round again and a meter waits only for the other queries.  Neither the
  gateway nor late answers are fair.
- `Push`: weak fairness of the daemon; strong fairness of posting a line, as
  meters are read now and then, and of the two ways in which a dead connection is
  noticed (TCP resets it, the MQTT client's own ping is not answered).  Recovery
  is promised only once the servers and the network stay up.
- `FrameLink`, `BusTools`: weak fairness of the step: every read returns, with
  bytes or at its time-out.

### Divergences the runs show

Each `violation` run checks one property that a document or comment states.

- `influx_blocked`: a queued line the server answers with 4xx stays at the head
  for ever and holds up the rest, although the server is reachable.
- `query_again`: once a gateway has closed the connection its meters are never
  read again, although a comment says the open is done at the query to be able to
  retry.
- `config_handle`: a serial meter with `address=0` and no id gets no handle, and
  the assertion of `queryMeter` fails.

### Divergences plain on reading

These have no run; the models have the code's behaviour.

- Cache: `readme.md` calls it a ring buffer; when full it keeps the old lines and
  loses the new one.  A new line is posted before the queued ones.
- Aggregation: iavg halves the sum of the running value and the new one, which is
  no mean of three readings.  A meter the initial query could not read starts its
  first window with the 0 its registers were reset to, so imin of positive readings
  is 0 there; `WritesAggregate` and `WritesBetween` count this 0 (`Merged`), and no
  later one.  The values of the initial query are sent in the first round
  (`emmbus2influx.cpp:920` says not).
- Virtual meters alone, which the readme offers for test data, end the daemon at
  the initial query.  A virtual meter is computed from meters that have failed.
- After two failed receives the reply buffer is parsed, and the meter may count
  as read.
- Sinks: `influx=0` of a formula does not keep it from the InfluxDB line.  Grafana
  as the only sink ends the program.  MQTT gets every round and unread meters
  too.  The defaults of `mqttqos` and `mqttretain` never reach a meter.
- Configuration: a list in `schedule=` is an error (`meterDef.cpp:447`); the check
  "No mbus address or id" (`meterDef.cpp:681`) compares an unsigned number and
  never fires; a word behind a register without a comma is ignored; a formula may
  have the name of a register; fields of one `arr=` that are apart make a JSON key
  twice, and `arr=""` makes malformed JSON; a virtual meter without a host needs
  the serial port.
- Records: of two registers with one record number the first alone is set;
  negative BCD numbers are read as 0; a date gives its year; a storage number of
  eight or more extensions is shifted beyond an int; a record of type 0D at the
  end of the data is accepted if the byte in memory behind it is FB or above.
- Codec: an acknowledgement is accepted as an answer, with the data of the frame
  before; `mbus_frame_internal_pack` writes neither a custom unit nor the length
  byte of variable data; `mbus_data_bcd_encode` has its bytes in reverse; the
  tables of units for numbers and for texts differ (FB 08, 09, 30, 31, 50, 51 and
  79, and fixed codes 0D, 0E, 15 to 1C, 2F, 30, 79 and 7E), and only the former
  know the correction extensions (of a custom unit, FC, the texts know 70 to 77 but
  not 7D).  `UnitsAgree` states the codes on which they agree.
- Requests: `mbus_sendrecv_request` frees the records of an earlier telegram twice
  (`mbus-protocol-aux.c:2159`); on TCP a time-out does not purge.
- Scans: a lost telegram after a selection is not asked for again; an error of a
  probe gives up its level while the caller goes on; slaves with the same number
  but another manufacturer, version or medium are never told apart (half a wild
  byte matches nothing); a letter in a number is packed as another digit; a slave
  that answers in the fixed format is not found; overlapped acknowledgements may
  make `mbus-serial-set-address` change two slaves at once.
  `mbus-serial-scan-secondary` says "F is a wildcard character", but a mask with a
  whole number and wild bytes behind it finds nothing
  (`mbus-protocol-aux.c:2468`): the scan tries every nibble of the bytes, and a
  slave knows only whole wild bytes.  The attempt to prove the scan showed this,
  and that below the last open digit a damaged answer loses the slave; both are
  in `ToBeFound` and `MadeGood`.

## Proofs

TLAPS checks these for every value of the constants, under the named
assumptions of the modules: types of the constants, that a formula yields a
number, that `CronNext` yields the next match.

**InfluxPostProofs.**  `Invariance`: `IInv` is inductive.  That no line is
stored twice does not follow from itself: it needs that no line still held was
answered 2xx (`NotAnswered`), which needs that a line has one place
(`OneOwner`), which needs that a buffer is in hand exactly while it is posted
(`BufferInHand`).  `BacklogExplained` needs the batch counter (`BatchOpen`) and
that the counter is the length of the list (`CountIsLength`).  From it follow
`TypeCorrect`, `DuplicateOnlyAfterLostReply`, `BuffersAndEntries`,
`BacklogOnlyAfterFailure`, and `Implementation`: every step of the client is a
step of `LineCache` or leaves it unchanged.

**MeterCycleProofs.**  `Invariance`: `CountFollowsReadings` says the countdown
and the number of readings since the last write determine each other, also for
a meter that was not read yet (its countdown is 0 while `started` lacks it);
`ValueFollowsReadings` that `fvalueInflux` sums up exactly those readings, and for
such a meter the 0 that its first window begins with (`Merged`); `FirstRoundFirst` ties the first round to the initial
query.  Each is needed by the next: a window is restarted by the countdown, not
by the write.  The action properties follow: `WritesEveryNth`,
`WritesTheAggregate`, `AverageLiesBetween`.  `DryRunIsSilent`
has an invariant of its own, `Silent`: `dryrun`, which is also the switch that
keeps the daemon from sending, is 0 only when the loop is about to end.

**CronProofs.**  `Invariance`: `NextIsNext` says the next time of a schedule is
the first match after its last round, whatever the clock did since; from it
follow `NoMatchForgotten` and, as the schedule is due only at that time, that none
is served twice.  `CountsNames` says that a meter counts as scheduled only if a
named schedule has it, so that the default schedule gets all others.  Theorems
`NoMeterWithoutSchedule`, `MatchesAreKept` and, as action properties,
`MatchesAreServedOnce` and `MetersAreQueriedOnce` (with `QueriedAtMostOnce`).

**MbusQueryProofs.**  `Invariance`: `OneAnswerPerRequest` is inductive given the
types; with no failure on a line it says the line is empty when a request is
sent, hence all that comes in is the answer to it (`AnswerToRequest`), hence a
meter that was read holds its own answer (`OwnAnswer`).  Theorems `TypeCorrect`,
`ReadsItsOwnAnswer`, `FramesFollowFailures`.

**PushProofs.**  `Invariance`: `GrafanaInv` ties what is stored of a line to the
point the call is at and to the handle's state, `MqttInv` the client's belief to
the link.  Neither mentions the other component, so a step of one keeps the
other's by keeping its variables.  Theorems `NoDuplicateLine`,
`LossNeedsFailure`, `PublishedOnce`, for lines in any number of pieces and any
QoS.

**ReadoutProofs.**  For frames of every length: `AcceptedIsPacked`, what
`mbus_parse` accepts is what the accepted frame packs to (an acknowledgement
excepted, which is recognised by its first byte alone), so nothing that was
received is lost or misread; and `AsksForWhatIsMissing`: on a proper prefix of a
packed long frame it asks for at least one byte and for no more than are missing,
which is what the receive loops rely on.  The lemmas spell out the bytes of a packed
frame; the checksum is not expanded there.

`LinkTyped` is the inductive invariant of `FrameLink`: through every loss, damage,
delay and retry the frames in memory hold bytes in their fields, the wire bytes and
gaps.  It is what the two theorems of `Readout` need of the line, the rest is about
the parsers.  `StaleBytesAreUnused`: the position never moves back (`PartsFollow`)
and what is accepted ends within the data (`PartsWithin`); so each byte read behind
the end has made the record a refused one whatever it was (`RefusedSame`), save a
length of FB or above, which moves the position by nothing and is excluded.
`NumbersAreExact`: a record of a type with a fixed length has its data (`TurnType`),
`Times256`, `Decimal` and `Power256` go through the values of one recursion
(`IsRun`), and both decoders end at the same number: the inverted bytes are the
complement (`Complement`, `TwosComplementDecoded`), and the digits printed without
leading zeros are read back as their value (`LeadingZeros`, `StrtodDecimal`,
`BcdDecoded`).  This is `RecordExact`, for records of any width; `NumbersExact` stops
at three bytes because the integers of TLC do.  (The double that strtod yields holds
six bytes exactly, but not all eight: a limit of the code that is not modelled.)

`ReplacedByteIsDetected` and `LostByteIsDetected` say what the checksum is worth: a
telegram in which one byte came as another one, or did not come, is accepted in no
part, as the sum changes by less than 256 (`SumChanged`, `OneByteDiffers`) and a
shorter frame lacks its end.  Not so if the first byte that comes is E5, which
`mbus_parse` takes for an acknowledgement whatever follows, and not for an added
byte, which may make the sum fit and the last data byte the checksum.

`RepliesAreExact` rests on `ExactInv`: until the request has ended, either the meter
has not been asked for the next telegram and nothing but the echo of the request
can come in (`NotAsked`, `Coming`), or it was asked, with the frame count bit of the
request, so that all it sends is that telegram, however often (`WasAsked`), or it has
none.  The accepted frames are then its telegrams so far, each once (`Collected`),
since the bit is toggled exactly when one has been processed, and behind a purge that
ended nothing of an earlier answer is left on the wire.  `RequestsSucceed` rests on
`SuccessInv`, a budget: a fault pays for `MaxSilence + 1` tries (`Budget`), and the
tries made, those that the gaps still on the wire can cost and the one under way are
within it (`Owes`, where `AtMost` counts gaps), unless the answer comes in undisturbed
(`Clean`) and is accepted at its last byte (`ParsedWithAnyTail`: that it can be parsed
does not depend on the memory behind its data).

Both have `[]AnswerIntact` as a hypothesis: a frame that passed `mbus_frame_verify` is
the telegram the meter sent.  It is what a checksum can promise but not guarantee:
one byte lost or damaged is found, by the theorems above, but an added one or several
may agree with the sum, or leave of a telegram a part that is one itself.  The run
`telegrams` checks it for its faults and noise.  Of the constants the two assume the
purge mode that every handle is created with and nothing changes
(`mbus-protocol-aux.c:1517`), or no purge where there is no echo (`HandleAssumption`),
and that a telegram which can be parsed announces more exactly if more follow
(`MeterAssumption`, the standard).

The recursive functions (the parser's loop, the sums) are chosen by the logic, so
that one exists is shown first (`RunExists`, `RecordsExist`), by the numbers up to
which it does: a set of naturals without a gap (`Upto`, from `WFMin`).  This is
induction over a set, which the prover can do; over an operator it cannot.

**ConfigProofs.**  `Invariance`, for files of every length and order: what the
meter under construction has so far is what the section said or what its type
says (`MeterSettings`; `type=` overwrites settings, which is sound only because
the section has said none before it, the flag `conflict`); the counters are those
of the fields (`Counted`, and of the types `TypesKnown`); no enabled meter has the
name of the one under construction (`NameFree`: `findMeter` is asked where `name=`
stands, a section later the meter is stored).  Theorems `MostSpecificHolds` and
`NamesAreUnique`.

The texts of a round are folds over the elements of a line, the fields of a meter
and the meters.  `FoldExists` builds the function that a fold is defined with, for
any base and steps, and `FoldRun` makes it a run: a value for every prefix, each
one step from the one before; from there on it is induction up to a number
(`Upto`).  A buffer holds `CompleteLines`; `Fitting` says `format_line` refuses
nothing that fits, `LineAppended` that a line with a field fits behind complete
lines, and `CounterSays` ties this to `Counted`: a meter that is not passed over has
a field.  `LinesExtended` says that a line adds its fields to those of its meter
alone, whose name and place no other has.  A message under construction is
`Writing`: the beginning of an object (`Begun`) that is inside an array exactly if
`appendField` has one open; `ObjectClosed` makes it JSON.  `TextsInv` adds both
properties to `IInv`.  Theorems `TextsAreWellFormed` and `EnabledFieldsAreSent`, for
any number of meters, fields and arrays, if InfluxDB, Grafana and MQTT are among
the sinks (`SinksAssumption`).

**BusToolsProofs.**  `Invariance`, for every bus with finitely many slaves, every
mask and every length of an address.  The masks of a scan come in the order of
their open digits, so that a slave is `Passed`, `Current` or `Ahead`;
`ReportedIfPassed` says that exactly the passed ones have been reported.  A mask
selects the slaves that are current (`CurrentIsSelected`,
`OnlyCurrentIsSelected`), two of them differ at an open digit to come
(`TwoSelected`), so a collision can go down and `Descend` passes nobody
(`WalkDown`), and `NextDigit` passes who was current and nobody ahead
(`WalkNext`).  Theorems `ScansFindEveryDevice` and `NewAddressIsNobodys`, from
`NewAddressIsFree`: after a silent ping nobody is at the address, until it is set.
`LeastNatural`, that a set of naturals has a least element, stands in for
induction: `Min` and `Max` choose something because of it.

Only model-checked: everything under fairness (`BacklogDrains`, `ShutdownEnds`,
`ReadIsWritten`, `SignalEnds`, `QueryEnds`, `ConnectsLater`, `DueIsServed`,
`Recovers`, `RequestEnds`, `ToolEnds`), as liveness is beyond this prover.
`AnswerIntact` (`FrameLink`) depends on the faults and the noise of the instance, as
said above; it is what the proofs of `ReplyExact` and `RequestSucceeds` take from the
run.  `UnitsAgree` (`Readout`) compares two tables entry by entry; what it says of a
record depends on the low seven bits of two bytes, and the run goes through all of
them, so that a proof would repeat the run.

## Not modelled, and why

- Libraries outside the repository: the expression language of muParser, the cron
  expressions of ccronexpr, the protocol of Paho, libcurl below its results.
- Text and layout beyond what decides if a text is well formed; logs; the XML, hex
  and name output of the tools; names of manufacturers and media.
- Several registers of a meter in `MeterCycle` and `MbusQuery` (one value stands
  for them; they are processed alike), and one clock for all modules: how long a
  query or a post takes is in `Cron` as ticks, not in the clients.  Hence the
  missing timeout of curl has no property.  Nor has the number of descriptors
  leaked by refused connects, which needs the table of open ones, and the parse
  of a reply buffer after two failed receives, which `MbusQuery` has with its
  effects but of which no document says what it should do.
- The duplicate that a publish with QoS above 0 may leave at the broker when it is
  repeated: Paho is modelled as reporting MQTTCLIENT_DISCONNECTED before it hands
  anything over.  The crash of the ping and the two ends of the program during a
  query, `exit(1)` on the fixed format and `SIGPIPE`, are modelled, but nothing says
  they do not happen: `Recovers` and `QueryEnds` excuse them.
- The memory of the frame in which `mbus-serial-set-address` waits for an answer to
  its ping, which is not initialised (line 54): `Verify` has only the result.
- Memory, except where ownership decides (`OneOwner`) or stale bytes are read
  (`StaleBytesUnused`): the growth of the line buffers (`influxdb-post.c:341`).
- `mbus_scan_2nd_address_range2`, `mqtt_pub_str`, `_int` and `_float`, which are
  called nowhere; `mbus_send_switch_baudrate_frame` and
  `mbus_send_application_reset_frame`, one frame each for a tool.
- The option parser, which runs once and sequentially; the verbosity signals;
  `mbusTCP_freeAll` at the end of the program.
