# Verification of the DSRC location-verification firmware

The program is the firmware of a research prototype for vehicular networks
(VANETs): up to four devices, each a TI Tiva board with a GPS receiver (L80) and
a WiFi module (MCW1001A), broadcast heartbeats with the position they claim. A
receiver compares the direction a heartbeat came from (the *angle of arrival* of
a simulated phased array antenna) with the direction of the claimed position,
broadcasts its opinion, and one device adds up the opinions of its neighbours
into a trust value. Everything is C for one Cortex-M4: a main loop and five
interrupt handlers (two UARTs, two timers, the switches), no operating system.

This directory holds TLA+ models of that code, TLC configurations that check
them on small instances, and proofs that TLAPS checks. `PROJECT.json` says for
every definition which lines it models, and lists the runs, the mutants that show
that each property can fail, the hazards of the code and the theorems.

Paths below are relative to `src/src/`.

## The system

| component | code | state | operations |
|---|---|---|---|
| event byte and timers | `task_manager.c` | `task_events`, a byte of bits (ANY, GPS, WIFI, RECV_FROM, TIMER0, TIMER1); `timer_events[]` | `task_set_event`, `task_clear_event`, `task_get_events`, `task_wait_for_event_wto`, timer handlers |
| main loop | `dsrc.c` `main` | sockets, own location, `gtg`, counters | take a snapshot of the byte, run the branch of every event in it |
| heartbeat timing, switch | `dsrc.c` TIMER0 branch, `port_f_handler` | `hz_count`, `pck_count`, `gtg` | tick, press, `send_heartbeat` |
| device table and trust | `device_table.c`, `list.c`, RECV_FROM branch of `dsrc.c` | list of `DSRC_DEVICE` | heartbeat, opinion, `device_table_update` |
| angle of arrival | `wifi_process_packet`, RECV_FROM branch | `dir` of a datagram, location | compute, compare |
| queue of datagrams | `include/queue.h` | `recv_from_buffer` of 40 | `queue_push`, `queue_pop` |
| WiFi packet ring | `wifi_mcw1001a_mikro.c` | `buffer[][]`, `buffer_index`, `buffer_packet_index` | UART handler, `wifi_get_packet` |
| WiFi requests, boot | same, `dsrc.c:121-137`, `444-477` | status, socket handles | send and wait, configure, connect, create, bind |
| WiFi datagrams | same | `recv_from_clear` | `wifi_socket_recv_from`, `wifi_socket_send_to`, `wifi_process_packet` |
| GPS line | `gps_l80_mikro.c` handler | `buffer`, `nmea_record_strings`, dirty bits | a character, a newline |
| GPS records | `gps_l80_mikro.c`, `xstrtok` of `common.c` | `gprmc_record`, `valid_values` | `gps_l80_mikro_records_update`, `gps_l80_get_*` |
| network of devices | the heartbeats and opinions of `dsrc.c` | what every neighbour counts and has on the air | period, restart, hear, vouch |

How they interact:

- **Interrupt handlers to main()**: through the event byte (bits set by
  handlers, tested and cleared by main()), the packet ring, the GPS strings with
  their dirty bits, and the counters that the switch resets. All handlers have
  one priority, so a handler is atomic; main() can be interrupted between any
  two instructions, also between the load and the store of `|=` and `&=`.
- **main() to the WiFi module**: requests on a UART, each repeated every 100 ms
  until a packet of the awaited type is read; the module's packets come back
  through the ring. A RECV_FROM request is not waited for: its answer comes
  whenever a datagram does, also in the middle of another request.
- **Within main()**: `wifi_process_packet` queues a datagram and sets RECV_FROM;
  the RECV_FROM branch pops it, works on the device table and broadcasts an
  opinion, whose wait for an answer runs `wifi_process_packet` again.
- **Between devices**: UDP broadcasts, each sent three times, unreliable. A
  heartbeat is known by its sender and a packet id that comes round after 60
  periods; an opinion names the heartbeat it is about.

Note that `main()` as committed stops at `dsrc.c:102` in `while(true);`, after a
test print. The models are of the code after that line, as it runs when the line
is taken out; the interrupt handlers are modelled with it.

What is hard here: read-modify-write on shared bytes; work that arrives between
the last look and the clear; answers that come twice, late or in the same batch
as the next; a ring and a line buffer without bounds on what is in them; state
set in one order and used in another; and arithmetic in bytes and truncated
integers. `hazards` in `PROJECT.json` has each of them at its line, with the
properties that cover it or a note on what is *not* promised.

What makes each component correct:

- event byte: main() never sleeps over an event; a queued datagram is flagged;
- datagrams, ring: nothing lost, repeated, reordered or half read;
- table: one record per device, each opinion counted once, no byte wraps, and
  what an unfilled record leaves in it does not stay;
- network: trust is earned with the very heartbeat it is recorded for, only
  repetitions are taken for repetitions, and who falls silent is dropped;
- boot: ends, with two different sockets each bound to its own port, created
  after main()'s own attempt to connect;
- traffic: one RECV_FROM at a time, and always another one;
- GPS: whole sentences, fields that are not mixed up, a location that never
  goes back;
- heartbeats: go on, not too close, with changing packet ids;
- angle: points to the sender; honest senders are trusted and others are not.

## The modules

| module | models | state and actions |
|---|---|---|
| `TaskManager` | the event byte and the main loop around it | the byte as a set of bits; `task_set_event` and `task_clear_event` of main() as loads, stores, a test and a zeroing, each a step; handlers as one step; the branches of the loop with the work each consumes (`dirty`) |
| `BoundedFifo` | what a bounded channel promises | `contents`, `taken`; put, take. Abstract specification of the next two |
| `RecvQueue` | `queue.h` as used for datagrams | `arr`, `st`, `en`, `cnt`; push, pop |
| `WifiRing` | packet ring | slots of bytes; `ReceiveByte`, `RefuseByte` are the handler; `Call`, `Look`, `TakePacket` are `wifi_get_packet` |
| `WifiLink` | request/response protocol | request line, unread packets, event bit; the steps of `wifi_send_basic_packet`, `wifi_wait_for_response`, parameterised by what is awaited |
| `WifiBoot` | `wifi_configure`, `wifi_start` over `WifiLink`, and the module | position in the script of requests and waits, handles, network |
| `WifiTraffic` | the loop's RECV_FROM, TIMER0 and TIMER1 branches over `WifiLink`, with `RecvQueue` between them | `recv_from_clear`, the RECV_FROM bit and main()'s copy of it, repetition count, the queue |
| `DeviceTable` | table, heartbeat and opinion handlers | slots with records or NULL; `Heartbeat`, `FirstHeartbeat`, `Opinion`, `device_table_update` |
| `Vanet` | the table in a network of neighbours | what each neighbour counts (`pck_count`), sent in the last periods (`aired`) and has vouched for (`vouched`); `Period`, `Restart`, `Vouch`, `HearHeartbeat`, `HearOpinion`, `Update` |
| `Heartbeat` | TIMER0 branch and switch | counters, with loads and stores |
| `Angle` | both angle computations and the judgement, with and without a fix | positions, the heartbeat under way |
| `GpsLine` | GPS UART handler | buffer, stored sentences, characters on the line |
| `Gps` | GPS records, with the handler | the sentence and its copy as cells of characters, dirty bits, parsed fields, the location; `strcpy` character by character (`Copy`), `xstrtok` (`NextField`), the walk through the fields with its pointer (`FirstField`, `EachField`, `FieldsDone`), the load and store of a dirty bit, the calls and what they deliver; `copied` and `whole` are history |

The theorems are in `TaskManagerProofs`, `WifiTrafficProofs` (with those of the
queue it extends), `WifiRingProofs`, `WifiBootProofs`, `VanetProofs` (with those of
the table it extends), `HeartbeatProofs`, `GpsProofs` (about `GpsLine` and `Gps`,
whose definitions have names of their own for this) and `AngleProofs`; each `MC*`
module holds the values of the constants for TLC.

How they compose. `WifiBoot` and `WifiTraffic` extend `WifiLink`; `WifiTraffic`
extends `RecvQueue` too, whose push is part of `wifi_process_packet` and whose pop
is part of the RECV_FROM branch. `WifiLink` uses the ring as the first-in first-out
channel that `WifiRing` is shown to implement, and treats `task_clear_event` as one
step, whose steps `TaskManager` has. `RecvQueue` and `WifiRing` instantiate
`BoundedFifo` with a refinement mapping. `Vanet` extends `DeviceTable`: the table
alone takes packet ids and opinions from anywhere, and `Vanet` restricts them to
those that are on the air, so that it can be said which heartbeat is meant. Whether
a claim is "near" is a free choice in `DeviceTable`, one for each neighbour in
`Vanet`, and computed in `Angle`. `Gps` takes the stored sentences from `GpsLine`.

Abstractions that a reader should know:

- A step of main() is as small as what an interrupt can see between: a load, a
  store, a look at a slot, the copy of a character. Work that touches only main()'s
  own data is one step, in `Gps` one for each turn of the loop over the fields.
- The module and the GPS are environments, modelled from what the code expects
  of them (`"external"` in `PROJECT.json`); so is the C library's `atan`.
- Payloads are small values. In `WifiRing` the two header bytes are one, as are
  the two length bytes. In `GpsLine` a field is one character. In `Gps` a
  digit is known by its field and the number of the sentence it came in; latitude
  and longitude have two digits, the speed one or two, other fields one or none.
- In `Gps` what the stack holds behind the copy is a constant, `Stacks`: any text,
  commas and NULs. `record_str` is not initialised, and nothing in the code stops
  the loop over the fields but two NULs in a row, so the model gives the stack two
  at its end, wherever the array ends. How far away they are is not known: the loop
  may read, and `xstrtok` write NULs, behind the array.
- In `WifiRing` the slots are rows of one array, as in the code: a packet that is
  longer than a slot, or two that a lost end byte joins, are written on into the
  next slot. What is behind the last slot is not modelled.
- A connection of `WifiBoot` may fail, and a network drop, with the same event as
  a success: the code does not read the status in it.
- In `Vanet` a neighbour may vouch for any heartbeat in the air: what its own
  table holds is left open, which allows more than the program does.
- Memory from `malloc` is whatever `HeapRecords` allows: any bytes, but no
  device's address where the record's address goes (`HeapAssumption`). `free()`
  writes its links over a record's first bytes, which hold the address. What is
  left out is memory that keeps an address in that place for another reason: a
  packet's that was freed, or RAM that outlives a reset.
- A record read through a NULL pointer is "no match".

## The runs

All runs are `tlc -config X.cfg M`. Deadlock is checked except in `MCWifiBoot`,
where booting ends.

| run | what it shows | bounds |
|---|---|---|
| `MCTaskManager` | with interrupts anywhere: ANY still stands for the rest of the byte outside the two calls that write it, a queued datagram always has its event, and TIMER1, the last branch of the loop, is served again and again | finite as it is |
| `MCTaskManagerDirty` *(violated)* | "dirty tasks to be triggered" (`task_manager.c:11`): an interrupt between the last look and the clear, or within a load and store, is forgotten until the next one | same |
| `MCDeviceTable` | trust bookkeeping under any order of heartbeats, opinions and expiries, with records of nobody in the table | three devices, two places (so it is full), two packet ids, `DEVICE_TIMEOUT` 2, symmetric devices; fresh memory holds one of the ids or none |
| `MCVanet` | only repetitions of the heartbeat answered last are taken for repetitions; who is counted has vouched for that heartbeat; who falls silent is dropped, and so are records of nobody | two neighbours, one believed, fresh memory as above, ids that come round after two periods, datagrams on the way for two, `DEVICE_TIMEOUT` 2 |
| `MCWifiRing` | handler and `wifi_get_packet` together implement `BoundedFifo`, and no byte is refused, until a packet with 0x45 within it or longer than a slot is sent or a byte is lost; short of the last two nothing is written outside a slot | three slots of five bytes, two packets unread, one of them with 0x45 or too long, one byte lost, three bytes during the looks of one call |
| `MCWifiBoot` | two different sockets; created when main()'s own attempt to connect has ended, on a network that is up if nothing failed (unless it was up at power up); booting ends with the sockets bound to their ports (unless the attempt ends before main() looks out for it) | two settings for ten, which are treated alike, two requests unhandled, three sockets in the module, one failed attempt or dropped network |
| `MCWifiTraffic` | one RECV_FROM under way at most; main() asks again and again as long as answers are whole; the queue implements `BoundedFifo`, is emptied again and again, and once emptied never fills up | datagrams sent twice, three requests unhandled, a queue of three, two kinds of datagrams |
| `MCGpsLine` | without losses each sentence is stored, the first included; after one or two losses from some time on again; the buffer is never overrun with three | a buffer of three sentences, as 255 is of 82 |
| `MCGps` | a whole sentence is parsed exactly, whatever stands behind the copy; a torn copy of sentences with positions mixes no fields before the speed; longitude is never older than latitude; while all copies are whole the location never goes back | three GPRMC sentences, each with a speed of one digit or two or without a position, one of those without short of a comma (`Losses`), so that the copies after it must recover, other sentences at any time; one content of the stack, with a character, a NUL or a comma where the copies end (the proofs are for every one, and every loss) |
| `MCHeartbeat` | packet ids of successive heartbeats differ (with one press); at least a period less a second between heartbeats; they go on for ever | period 4 and 3 ids for 20 and 60, two presses |
| `MCAngle` | angle in the right quadrant within a hundredth of a degree; honest senders with whole slopes trusted; claims from the other side never, also with a position that the stack held | twelve places on both sides of a meridian where the four digits start again: slopes 0, 1/3, 1/2, 2/3, 1, 3/2, 2, 3, infinite and nearly 0, all quadrants |
| `MCAngleHonest` *(violated)* | the tolerance of `common.h:63` with true and claimed position the same: the integer division of `dsrc.c:220` turns 1/2 and 1/0 into 0 | same |

The type invariants of all modules are proved for every value of the constants
(below); the runs check those of `WifiBoot`, `GpsLine`, `Gps` and `Angle`
only, which say more than types: the bound of the GPS buffer, which handles exist,
the range of an angle.

Why the bounds are enough. What can go wrong in the queue and the ring depends on
indices meeting (empty, full, wrapped), which three places show. A device table
needs one device more than places to be full, two ids for "new" and "again", and
a timeout of 2 for "late" and "gone". Of the link, two unhandled requests in the
boot let the answer to a repetition be read for the next request, three in the
traffic for the one after that; a second repetition of a datagram is to the
code like a third. For `WifiRing`, three bytes during one call are more than the
code allows the line to send: a byte takes some 1400 cycles, a look a few tens.
Period and ids only need to be larger than 1; four and three leave room for an
early or late step to differ from a reset. In `Vanet` two ids, with datagrams on
the way for as long as ids last and records that outlive them, are the tightest
case that the assumption `AIR <= IDS` allows. Three sentences are one that is
stored, one that tears its copy, and one that comes before the dirty bit is
cleared. The tangents of the table are exact enough for the slopes that occur.

Fairness. Each condition is one that the hardware, the module or the loop keeps:

- `TaskManager`: main() runs on (weak). TIMER1 strikes while main() waits, for the
  two are not in step and main() sleeps nearly all the time (strong). While main()
  waits for a response it repeats its request every 100 ms, so the module goes on
  to interrupt (weak); it gives the response and comes to the end of its packets,
  a received datagram is the last one queued, and the repetitions of a datagram
  come to their end, each in the end if it can again and again (strong). Without
  these a module that never stops talking would keep the branches before TIMER1
  busy.
- `WifiBoot`: main() runs, the module handles requests, and an attempt to connect
  or to disconnect ends; each weak. No connection has to fail.
- `WifiTraffic`: main(), the module and the neighbours' datagrams, weakly; polling
  and the start of a send, strongly, as TIMER1 and TIMER0 make main() do each
  again and again, though in between it may be busy.
- `Vanet`: this device's periods pass (weak).
- `GpsLine`: the GPS sends once per second for ever and the handler is called for
  every character that is not lost.
- `Heartbeat`: the hardware timer ticks, and main() runs.

`RecvQueue`, `WifiRing`, `DeviceTable`, `Gps` and `Angle` have safety properties
only and need none.

## What is proved

For every value of the constants that their named assumptions allow:

| theorem | says | along which invariant |
|---|---|---|
| `TaskManagerProofs!TypeCorrect`, `AnyCorrect`, `DatagramCorrect` | type correctness, `AnySummarises`, `DatagramFlagged`, with either module compiled in or not | `ByteInv`: what the byte and its loaded copy hold at each step within the two calls (a copy about to be stored is summarised by its ANY; after a clear the byte is empty or has ANY). `DatagramInv`: no stale copy lacks RECV_FROM while a datagram is queued, and its clear is only called on an empty queue. Neither `AnySummarises` nor `DatagramFlagged` says anything of the copy, which a later step stores |
| `WifiTrafficProofs!QueueTypeCorrect`, `QueueEndsAgree`, `QueueWritten`, `QueueImplementsFifo` | the indices are within the array and agree; only written places are read; every step is a step of `BoundedFifo` or a stutter, for every size | types and `EndsAgree`, `Written`; lemmas on `Place`: that it is inside, injective on 1..size, and moves by one with `st` |
| `WifiTrafficProofs!TrafficImplementsQueue` | every step of the loop is a step of the queue or leaves it alone | none: by cases on `Next`. It carries the theorems of the queue over to the program around it: `TrafficEndsAgree`, `TrafficWritten`, `TrafficImplementsFifo` |
| `WifiTrafficProofs!TrafficTypeCorrect`, `OneRecvFromCorrect` | types; one RECV_FROM request or answer at most, for any number of repetitions and of unhandled requests | `OneInv`: the places of the request on the line, in the module and in the ring exclude each other, and `recv_from_clear` excludes all three. The set `UnderWay` of the property is the union of the three; the invariant says how each step moves the one from one to the next |
| `WifiTrafficProofs!TrafficStaysRoomy` | `StaysRoomy`: from any moment at which the queue is empty, with the switch pressed, it never fills up, if it has three places | `Roomy`, which holds at such a moment and from then on: the datagrams in the queue and the one that `recv_from_clear` says may come are two at most, and one at most in a round that has nothing to serve (`~serving`), which is when main() polls (`PollsUnserved`). Only a poll adds to them, and the next round serves. `OneInv` is needed for a stored datagram to have been expected |
| `VanetProofs!TableTypeCorrect`, `OneRecordEachCorrect`, `OpinionsCountOnceCorrect`, `TrustNeverWrapsCorrect`, `TimeoutNeverWrapsCorrect` | types and the four invariants of the table, for any number of devices up to `MAX_NEIGHBORS`, places, and any content of fresh memory | `TableInv`, of all records of devices (`Known`) together: types, uniqueness, `used_neighbors_cnt` = number of addresses, trust between its bounds, timeout positive. Trust needs the count, and the count needs uniqueness of addresses |
| `VanetProofs!CountedStaysCorrect` | an action property: what was counted is not taken back while the record is about the same heartbeat | `TableInv`; that the sum of trust does not wrap is what makes "not less" of a byte true |
| `VanetProofs!NetTypeCorrect`, `SameIdCorrect`, `TrustEarnedCorrect` | types, `SameIdSameHeartbeat`, `TrustEarned`, for any number of neighbours, ids and periods in the air | `NetInv`: what is on the air is numbered backwards from `pck_count` (`AiredInOrder`, with `Back`), and each record is about the heartbeat sent `missed` periods ago and counts only who vouched for that one (`AboutHeard`). The properties say nothing of a heartbeat that is no longer on the air, which the next period moves by one |
| `HeartbeatProofs!HeartbeatTypeCorrect`, `HeartbeatsSpacedCorrect`, `SuccessiveIdsDifferCorrect` | types, heartbeats at least a period less a second apart, different ids with one press, for every period and number of ids | `SpacedInv`: `hz_count`, and its copy between load and store, is at most the seconds since the last heartbeat, or was reset by a switch. `IdsInv`: what was sent last carried `pck_count`, or its copy |
| `WifiRingProofs!RingWritesInSlot` | no write outside a slot, for any packets, until one is too long or a byte is lost | until then, what is left of the packet on the line always fits into what is left of the slot and ends with 0x45; `WritesInSlot` alone says nothing of the next byte |
| `WifiRingProofs!RingTypeCorrect` | types; a packet that is taken is the one that was found whole, until a byte is lost or a packet is too long | `TakesWhole`: until it is taken, its slot is not the handler's, or the handler is at its start and refuses. Without it the length that `TakePacket` goes by may be any byte |
| `WifiRingProofs!RingRefusesNothing`, `RingImplementsChannel` | `NothingRefused`; every step is a step of `BoundedFifo` or a stutter, for every ring and every set of packets with `RoomEnough` | `ChannelInv`, until a packet has been cut: the slots behind the handler's hold the unread packets in their order, whole, and all others are free (`SlotsInOrder`); the handler's holds what is through of the packet on the line (`FilledInPart`); main() looks at the oldest packet, or has come to the handler's slot, and then the bytes of this call are spent (`LooksForOldest`). The last says that main() never passes an older packet that is completed in a slot it has left |
| `WifiBootProofs!BootTypeCorrect` | types, with it that every handle is one the module gave out or a mark for none | `PlaceOK`: which sockets are known at which step of the script |
| `WifiBootProofs!SocketsDifferCorrect` | `SocketsDiffer`, for any number of settings, sockets and unhandled requests | `HandlesInOrder`: the answers under way carry later and later handles, all later than the one main() keeps or has read and not kept yet. `SocketsDiffer` alone says nothing of an answer to a repeated request, which is still in the ring when main() waits for the next socket |
| `WifiBootProofs!ConnectedBeforeSocketsCorrect` | `ConnectedBeforeSockets`, for any number of failures | `SaidWhenUp`: as long as no disconnection was handled, everything from which main() could tell that its attempt has ended (the event in the ring, its having been read, a request to create a socket, a socket) exists only when the network is up, or something failed |
| `GpsProofs!LineTypeCorrect`, `SentenceStoredCorrect` | types, with it that the buffer is not overrun whatever is lost; `SentenceStored` | `LineInv`: before the first whole sentence buffer and line together hold less than a sentence and no `$` (`CutOff`); then the buffer ends with what is through of the current sentence, behind little and no `$` (`Buffered`), so there is room for the rest, the first `$` is the sentence's, and its type is where the handler looks |
| `GpsProofs!GpsTypeCorrect` | types, for any number of sentences, any stack, whatever was torn or damaged: the copy ends within the longest sentence, and the walk at the first two NULs in a row | `CopyInv`: the copy, complete up to `ptr`, ends within the 25 cells that the longest sentence takes, where the array it is copied from has had NULs at all times (`StringInv`), and the two NULs behind them stay (`Ended`). Where these are is the assumption: the theorem does not say that the walk stays within the array |
| `GpsProofs!ParseExactCorrect` | an action property: `ParseExact`, for any number of sentences, and of torn and damaged copies before, and any stack | `WalkInv`, of every copy that is laid out like a sentence up to its m-th field: until the loop has come there, it is at field `val_state`, `ptr` is one field further, behind it the copy is as it was copied, and each value before it is stored (`Walking`). `ParseExact` says nothing of the fields still to come. The lemma `LoopGoesOn`: there is text at `ptr` until the value before that field is stored |
| `GpsProofs!TornAlignedCorrect`, `LongitudeNotOlderCorrect` | `TornAligned`, `LongitudeNotOlder`, for any number of sentences and torn copies | `PlacedInv`: while all sentences have a position the first fifteen characters of a copy, up to the speed's first, have their places in the layout, and each is no older than those before it and than the latitude in use (`PlacedCopies`), so `WalkInv` holds of it up to the speed; of the record the same, but between the storing of the latitude and of the longitude (`Between`, `PlacedRecord`). The latitude in use is compared with the longitude in the record before it is with the one in use, which is delivered later. That a speed is there, for its branch sets the longitude's bit, is the lemma `SpeedComes` |
| `GpsProofs!LocationNeverOlderCorrect` | an action property: `LocationNeverOlder` | `CopyInv` and `WholeInv`: nothing that is kept is newer than the time that a copy begins with (`Behind`), and as long as all copies were whole the digits of a position are of one sentence and none in use is newer than the record's (`KeptBy`). That a delivered position is not older needs the record not to have gone back, which needs the copy under way to be of a later sentence than the last, when the dirty bits do not say so |
| `AngleProofs!AngleTypeCorrect`, `DirPointsThereCorrect` | types, with it that an angle is one of 0 to 360; `DirPointsThere`, for every set of places | `Measured`: the angle of a heartbeat is that of its sender from where it was received. `ArrivalInSector`: it lies in the quadrant of the differences of the last four digits (`Sector`), because the arctangent has the sign of the slope; `LastDigits` makes these the differences of the coordinates |
| `AngleProofs!BehindDistrustedCorrect` | an action property: `BehindDistrusted`, for every tolerance | `AngleInv`, and `ClaimedInSector`: however the quotient is cut it has the sign of the slope or is 0, so both angles of the claim are in one sector, which is a right angle wide |
| `AngleProofs!ExactHonestTrustedCorrect` | an action property: `ExactHonestTrusted`, for every tolerance above 0 | `AngleInv`, and `ExactAtan`: if the division leaves nothing, each of the 90 comparisons of the arctangent comes out as it does for the quotient, so the angles are equal |

Assumptions: sizes are at least 1 (`SizeAssumption`, `SizesAssumption`), the
length of a packet is a byte, NMEA sentences
have a `$` at their start only, no newline within, and fit three times into the
GPS buffer (`LineAssumption`: 82 of 255), no more devices
than places in `used_neighbors`, datagrams are on the way no longer than ids last
(`IdsAssumption`: 60 periods of 20 seconds), fresh memory has no device's address
where a record's goes (`HeapAssumption`), and the memory behind `record_str` two
NULs in a row (`GpsAssumption`).
For the boot, no setting is named as another step of the script, a handle is less
than the mark for none, and the module is not disconnecting at power up
(`BootAssumption`). For the channel, `RoomEnough`, a hypothesis of its two theorems
that `MCWifiRing` fulfils: the ring has a slot more than packets may be unread, and
during the looks of one call no more bytes come than the shortest packet has. With
one byte more the channel is lost: main() begins a call at the handler's slot, and
before its first look, which is at the next slot, the end of a packet may come into
the one and a whole packet into the other: main() takes the second first, as TLC
finds too with the bound raised by one. `StaysRoomy` needs three places (`dsrc.c` has 40), and a sender
that is exactly where it says is trusted if the tolerance is above 0 (it is 14).

The proofs of `Gps` go by the steps of the walk and by the layouts of the three kinds
of sentences (`Begin`, where each field begins); that a set of numbers has a least
element, by which `xstrtok` and `strcpy` find where a text ends, is the only fact
about data they take from a library (`Least`).

Only model-checked: all liveness, which is beyond TLAPS (`LastServed`, `AsksAgain`,
`Drained`, `EndsBooted`, `RecoversFromLoss`, `HeartbeatsGoOn`, `SilentDropped`,
`NobodyDropped`).
(`StaysRoomy` looks like liveness but is a safety property of a temporal form, and
is proved.) That the table of tangents is that of `atan` is not proved either:
`Angle` is about the table.

## Where the code falls short

Two runs end in a counterexample (see the table). The conditions in other
properties mark where the code stops keeping a promise; each was met while
modelling and is recorded with its hazard:

- a byte 0x45 within a packet (of a coordinate; packet ids end at 59) ends its
  slot; the pieces are never taken, and when the ring has come round to one, every
  byte is refused (`WifiRing`, `cut`);
- nothing compares the index into a slot with its size: a packet longer than 80
  bytes, which RECV_FROM asks for, or two joined by a lost end byte, are written
  on behind the slot (`WifiRing`, `faults`);
- any STATUS_CHANGED event is taken for a connection: after an attempt that failed,
  or when the network has dropped, main() creates and binds its sockets all the
  same (`WifiBoot`, `failures`);
- STATUS_CHANGED read in the same batch as the ACK of the connect request is
  consumed and `wifi_connect` waits for ever (`WifiBoot`, `early`); left over from
  `wifi_disconnect`, it is taken for the connection's;
- a short RECV_FROM answer or an error event leaves `recv_from_clear` false for
  ever (`WifiTraffic`, `Failed`);
- the third lost character may fill the GPS buffer with text without `$`, which
  is never reset (`GpsLine`, `RecoversFromLoss`);
- latitude and longitude may be of two fixes, and the speed's branch writes the
  longitude's valid bit; when the fix comes or goes, or a character is lost, a copy
  torn by the interrupt mixes fields, for its two parts are laid out differently;
  behind the speed it does so with a fix, for speed and course vary in width
  (`Gps`, `AllPlaced`, `Aligned`);
- the loop over the fields is stopped by two NULs in a row only, on a stack that
  nothing has cleared: it may read and write behind `record_str` (`Gps`, `Stacks`);
- without a fix the angle of arrival is computed from what the stack held, and
  nothing marks it (`Angle`, `NoFix`);
- a second press of the switch may repeat a packet id, which receivers drop
  (`Heartbeat`, `presses <= 1`); the handler asks whether the pin of SW2 is up,
  so it is the other switch that starts the exchange (`Press`);
- across a hundredth of a degree the angle of arrival is wrong (`Angle`,
  `SameHundredth`);
- packet ids come round after 60 periods while a record lasts 200: a neighbour
  that was out of reach for 60 is taken for repeating itself, as is one that was
  restarted and comes to the same id (`Vanet`, `missed[n] < IDS`);
- an opinion that comes before its heartbeat is dropped, and a heartbeat that comes
  late replaces a newer one (`Vanet`);
- fresh memory that happens to hold the packet id makes a device's first
  heartbeat a repetition: it is not answered, and a record of nobody takes a place
  in the table until it times out (`DeviceTable`, `HeapRecords`).

## Not modelled

- `console.c`: output only. `startup.c`, `syscalls.c`, `stellariscommon.c`: vendor
  start-up, stubs. `mikro.c` and the register set-up in `dsrc.c`: which edges and
  characters interrupt is taken into the models, the writes are not.
- `common.c`: the delays, which only take time. The conversion of GPS fields to
  numbers by `strtod()`, and the missing terminator of its argument.
- Packets with the piggyback bit, `wifi_reset`,
  `wifi_socket_recv`, `task_wait_for_event`, `queue_free`, `list_free`: never used
  by this program, or not provoked by it.
- Memory: the leaks on the drop paths (queue full, table full) are not counted.
- In `Vanet`, the neighbours' own tables: they may vouch for anything on the air.
  That opinions of 0 are sent too is left out, as they count nothing.

## Plan

Done, in this order, by weight: `TaskManager` and its proofs, `RecvQueue`,
`DeviceTable`, `WifiRing`, the link with boot and traffic, GPS, heartbeats, angle;
then the network of devices, the queue within the traffic, GPS sentences by the
character, and the proofs listed above; the last of them those of the boot, of the
ring as a channel, of the queue's room, of the angles and of the GPS records.

Left, most important first:

1. `WifiRing` with `TaskManager`'s event bit in place of the abstract channel in
   `WifiLink`: what it adds is the packet that waits for the next one.
2. `Vanet` with the table of every neighbour in place of free vouching.
3. The damaged sentences in `Gps` beyond types: what a copy that lost a comma may
   leave in the record.
