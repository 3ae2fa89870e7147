# Verification of Ethersex

Ethersex is firmware for AVR microcontrollers: a TCP/IP stack (uIP), drivers,
protocols and services, selected at build time and run by one main loop and a
set of interrupt handlers. There is no operating system and no memory
protection; what keeps the parts apart is a cooperative scheduler, a lock on the
single network buffer and the discipline of the code.

This directory holds TLA+ models of the parts whose correctness depends on
orders of events that tests hardly produce, TLC configurations that check them
on small instances, and proofs of the most important properties for every
instance. `PROJECT.json` lists the runs, the mutants that show each property to
have teeth, the source lines behind every definition, the hazards of the code
and the theorems.

## 1. Inventory

### How the system runs

* The **tick interrupt** (generated from `scripts/meta_periodic_milliticks.m4`)
  counts down the delays of all timers and, `HZ` times a second, sets `newtick`.
* The **main loop** (`ethersex.c`, generated calls from
  `scripts/meta_magic_scheduler.m4`) polls the drivers and calls
  `periodic_process`, which takes the lock of the network buffer and lets
  `scheduler_dispatch_timer` invoke the timers that are due.
* **Static timers** are declared by the modules and live for ever; **dynamic
  timers** are added, suspended, resumed, reset and deleted at run time, also by
  timer functions and by one interrupt handler (the FS20 receiver).
* Packets arrive through Ethernet, zBus, RFM12 radio or USB; all of them share
  the one buffer `uip_buf` and its **lock without an owner**.
* **uIP** calls the applications back: on new data, on a timer poll, when
  something was acknowledged or has to be sent again. An application keeps a
  small state per connection.
* Files are kept by a **copy-on-write file system** on a dataflash chip behind
  the VFS interface, or on an SD card.

### Parts, their state and what can go wrong

| part | state | operations | what makes it hard |
|---|---|---|---|
| scheduler (`core/scheduler`) | control blocks of static and dynamic timers | tick, dispatch, add, delete, suspend, resume, reset, set interval | interrupts between byte loads; timer functions that change the table being walked |
| periodic time (`core/periodic.c`) | tick counters | time stamps and their differences | reads racing the tick, wrap-around |
| network buffer lock (`uip.h`) | `_uip_buf_lock` | lock, unlock | any link can release it; a packet may leave through another link |
| dataflash file system (`hardware/storage/dataflash`) | pages, root pointer, version, bitmap in the chip's buffer | init, scan, format, create, remove, read, write, truncate | power failures between the three pages of an update; reuse of pages |
| resolver (`protocols/dns`) | table of names | query, poll, new data, lookup | lost, late and duplicate answers; a table that is full |
| clients of the resolver (`watchasync`, `httplog`, ...) | send state, ring buffers | event, poll, callback, connection events | a callback that never comes or comes with NULL |
| DHCP, BOOTP | state, timers | poll, new data | late and duplicate offers, lease limits |
| MQTT | receive and send buffers, connection state | poll, data, acknowledgement, publish | packets in arbitrary fragments, full buffers, keep alive |
| Modbus, zBus, RFM12 links | bus state machines | interrupts, requests | one bus, several requesters, timeouts |
| FS20, ASK | pulse queue | interrupt, decode | ring buffer shared with an interrupt |
| TFTP, cron, ecmd, httpd | per connection or per job state | packets, ticks, commands | retransmission, saving while running |
| `core/queue` | linked list with a limit | push, pop, peek | limit and empty queue |
| uIP | connections, retransmission timers | process, periodic | the TCP state machine itself |

The remaining parts (drivers for chips, displays, sensors, light effects, text
protocols, conversions) are listed in `PROJECT.json` with the reason why they
are not modelled. The properties that matter, in the order in which this project
takes them: no timer is lost, called twice, called too early or called while
suspended; what is stored survives a power failure, and an update touches one
file only; every request over the network comes to an end, with its callback
called at most once; no lock is held for ever.

## 2. Modules

| module | what it is |
|---|---|
| `Scheduler` | tick interrupt, `periodic_process`, dispatch, dynamic timer API, FS20 interrupt |
| `MCScheduler` | its instances for TLC |
| `SchedulerTypes` | inductive invariant of `Scheduler`, lemmas about bytes, type correctness |
| `SchedulerDispatchProofs` | tick and dispatcher preserve the invariant |
| `SchedulerProofs` | the timer API preserves it, and the theorems |
| `FileStore` | abstract specification: named files, calls that take effect when they return, power failures |
| `DataflashFs` | the file system, one step per programmed page; implements `FileStore` |
| `MCDataflashFs` | its instances for TLC |
| `Resolver` | the DNS resolver over an unreliable network |
| `ResolverProofs` | inductive invariant of `Resolver` and its theorems |
| `WatchAsync`, `MCWatchAsync` | the event reporter composed with `Resolver`, and its instance |
| `WatchAsyncProofs` | that the two implement `Resolver`, and an inductive invariant of the ring |
| `PacketBuffer` | abstract specification: the packet buffer has one owner at a time and is passed on in two ways |
| `ZBus`, `MCZBus` | the zBus link, Ethernet and the polling of connections around one buffer; implements `PacketBuffer` |
| `ZBusProofs` | inductive invariant of `ZBus`, mutual exclusion, and that it implements `PacketBuffer` |
| `Dhcp`, `MCDhcp` | the DHCP client with several servers over an unreliable network |
| `DhcpProofs` | inductive invariant of `Dhcp`: exact count of timer calls, renewal before expiry |
| `PacketStream` | abstract specification: a byte stream over one connection |
| `Mqtt`, `MCMqtt` | the MQTT client on a uIP connection, with a broker; implements `PacketStream` |
| `MqttParse` | the parser of the MQTT client, for packets in arbitrary fragments |
| `TftpBoot`, `MCTftpBoot` | the bootloader's TFTP server, its countdown and its clients |
| `TftpBootProofs` | inductive invariant of `TftpBoot`: no part or mixture of images is started |

### Scheduler

`state`, `delay` and `interval` are the control blocks of all timers, static
ones first, as the dispatcher visits them; a state byte is the set of its flags,
so `TIMER_DELETED` is the empty set. `pc`, `i` and `reg` are the main loop: where
it is, its loop index and what it holds in registers. The build modelled is for
AVR with uIP and dynamic timers, without `RFM12_IP_SUPPORT` (whose lock counts
down) and without the bootloader.

The main loop is cut exactly where an interrupt can make a difference. `CheckLow`
and `CheckHigh` are the two byte loads of the comparison `delay == 0` (avr-gcc
loads the low byte first). `LoadState` and the action behind it (`Invoke`,
`FinishStatic`, `FinishDynamic`) are the load and the store of a read-modify-write
of the state byte; consecutive statements on the same byte compile to one load
and one store. `ApiBegin` and `ApiEnd` are the same cut in suspend, resume and
reset, which also store a delay in two bytes, the high one first. Adding,
deleting and setting an interval are single steps: add and delete change a block
that the tick ignores while it is `TIMER_DELETED`, and nothing else reads it.

The API is called with handles of timers that exist, by a timer function (`pc =
"callback"`) or by other main loop code (`pc = "main"`). The receiver interrupt
suspends and resets the timers in `IsrSlots` at any time. A restarted dynamic
timer gets its delay from `FlashWords`: the code indexes the table of the static
timers, which lies in flash, with an ordinary load, so that the value is whatever
RAM holds at that address.

Three history variables serve the properties: `due` counts the ticks that a timer
still has to wait by what it was armed with, `asked` is the last request for it
(to run, to stop, or to be gone: deleted, by its user or after its one shot), `runs`
counts its invocations.

### DataflashFs and FileStore

`flash` maps each page to what it holds: a root page (version, inode table
pages, directory), an inode table, a data page (its bytes, its successor, end of
file) or nothing. `root`, `version` and `last_free` are the fields of `fs_t`, `used`
is the bitmap in the second buffer of the chip. `call` is the call in progress and
`op` how far it is, with its local variables.

Every page that is programmed is a step: `SaveNodes` (a new root page for a
directory that changed), `SaveTable` (a copy of an inode table with one entry
changed), `SaveRoot` (the root page that refers to it) and `SaveData` (the page
itself, after which `fs_write` may go on with the next one). `fs_scan`,
`fs_format`, `FormatTable`, `FormatRoot` and `MarkUsed` are the parts of `fs_init`.
`vfs_df_create`, `vfs_df_unlink`, `vfs_df_write` and `vfs_df_truncate` begin a
call; the file is opened by its name each time. `Reset` restarts an idle device,
`PowerFailure` one that is in the middle of a call or of its start, before the
next page is programmed or while it is. What an interrupted page then holds is
`Torn`: nothing, or any header and junk. The checksum of root pages appears as the
fact that such a page is not a root page; no other page has one. An interrupted
page is never read as an inode table, because only the root page programmed
after it would refer to it.

`FileStore` is the promise of `core/vfs/vfs.h` for one user: a file is absent, has
contents or is damaged; a call takes effect at the moment it returns. When the
power fails, a file that is being created or removed is there or not; a file
whose contents are being changed may have anything in it; all others are intact.
`ImplementsFileStore` is the refinement: `files` is what `fs_list` and `fs_size`
would show between calls and what they showed before the call during one.

The constant `Avoided` says which uses of the file system an instance leaves out.
The code has faults at these uses, and each one hides everything else, so the
passing runs avoid all of them (`Disciplined` in `MCDataflashFs`). The run
`dataflash_lap` drops one; dropping another is a one-line definition in
`MCDataflashFs`, with the outcome given here:

* `lap`: to let more pages be handed out since `fs_init` than were free then;
  a live page is overwritten (run `dataflash_lap`);
* `reserve`: to create or extend a file while another one is empty; both get the
  same inode (`InodesNotShared` is violated);
* `crossing`: to write over the end of a page from inside it; `fs_write` writes
  the start of its buffer again (`ImplementsFileStore` is violated);
* `boundary`: to truncate at the end of a page that is not the last; nothing
  happens (`ImplementsFileStore` is violated);
* `ghost`: to open a file that was removed; `fs_get_inode` may find its old name
  (`RemovedNotOpened` is violated);
* `inodes`: to create or extend files with no inode to spare; the comparison with
  0xffff never succeeds on a 12 bit field.

`StoresWhatItReads` is violated in every instance in which a file has two bytes:
`fs_read` copies `offset` bytes too many from the last page. With a
power failure `ChainsEnd` is violated: `fs_write` enters the new page in the inode
table before it programs it, and what is in that place, a half programmed page
or, with files of two pages, a stale one of the same file, may name its own inode
as the next one; `fs_init` then never ends. With files of two pages it violates
`ImplementsFileStore` too: a file that is being extended is left with a last page that
names an inode without an entry in the table, the next file created gets that inode,
and what is written to it is also the end of the damaged file.

### Resolver

`names` is the table of `struct namemap`, with the query in the place of its
callback. `resolv_query` takes an unused slot or replaces the one with the
greatest difference of sequence numbers, computed in `int` from 8 bit values
(`SeqBase` is 256 in the code). `resolv_periodic` is one poll by uIP: it ages the
entries up to the first one whose question is due, sends that one and stops.
`resolv_newdata` handles an answer: the id in the message is the slot, the name is
not compared. The network is the set `packets` of questions: an answer to any of
them arrives once, several times, late or never, with an address, an error or
only records of other types. `query` is the history of each query: how often it
was asked, how often its callback was called and how it ended; an end, once there,
stays, so that a callback after it would show.

### WatchAsync

`WatchAsync` extends `Resolver` and adds the state of `watchasync.c`: the ring
(`wa_buffer`, `wa_buffer_left`, `wa_buffer_right`), `wa_sendstate` (0 idle, 1
sending, 2 to be sent again) and its connection. `addToRingbuffer` is the pin
interrupt. `Resend` and `SendNext` are the two branches of
`watchasync_mainloop`; both end in `sendmessage`, which asks the resolver or, when
`resolv_lookup` finds the name, connects at once. `Poll` and `Answer` are the resolver's own
steps together with the callback that they cause (`CalledBack`). `Transmit`,
`Acked` and `Failed` are `watchasync_net_main`; `Failed` may leave the connection
in uIP's table, because uIP then waits for the acknowledgement of its own FIN.
`OtherClient` is any other user of the resolver, which can evict the query.
Events are numbered as they are accepted; `accepted`, `confirmed` and `received`
are histories.

### ZBus and PacketBuffer

The variables keep their names in `zbus.c`; `usart` is what UCSRB enables. One
action is one interrupt or one step of the main loop, cut wherever an interrupt
may see a difference: taking the buffer, routing, and `uip_buf_unlock` are
separate steps. `Receive` takes any byte, so that frames may be cut short, run
together or be invented. The branches `TxEscape`, `TxData`, `TxStop` and `TxDone`
of the transmit interrupt, and `RxStart`, `RxStop` and `RxAppend` of the receive
interrupt, are those of the code. A packet in `buf` is known by who put it there:
the line, or the main loop, with two names in turn.

The transmit interrupt releases the lock at the end of a packet, whatever the main
loop is doing. It takes 20 ms at 19200 baud to send the shortest packet, so the call
that queued it has usually returned by then; but nothing in the code waits for that.
The history `outrun` says that it once was otherwise. The lock has lost its meaning
then, and the safety properties are claimed up to that moment. The liveness
properties are claimed without it.

`PacketBuffer` is the protocol that the lock without an owner is meant to give:
`none`, `receiver`, `main` or `transmitter` owns the buffer. The refinement maps
`owner` to whoever uses the buffer, not to the lock; that the lock is held
exactly then is `LockHeldByUser`. A stop marker right behind its start marker
(`EmptyFrame`) leaves the receiver the owner for ever.

### Dhcp

The state of the client is that of `dhcp.c`; its 32 bit counters wrap at `Width`.
`dhcp_periodic` is the timer, `Reply` a message from a server and `Poll` the rest
of `dhcp_net_main`, with one disjunct per state and, in `CONFIGURED`, one per limit
of the lease. A server that was asked once may answer at any later time and any
number of times, with an offer, an acknowledgement with any lease time, or a
refusal. A reply overwrites `ipaddr` and `serverid` before the state is looked at,
as in the code. uIP polls a UDP connection every 10 ticks and `dhcp_periodic` runs
every 50, hence the guard `polled`. `age` and `renewals` are histories: the calls of
`dhcp_periodic` and the requests since the last ACK. The timer makes one call a
second, and the client takes `HZ` of them for a second; `ElapsedExact` is about that
count, not about seconds. `conn` is also `FALSE` from the start on a device that has
no UDP connection left.

### Mqtt, PacketStream and MqttParse

The client's state is one record and its functions are operators on it, so that
`mqtt_main` can be written as the code is: a sequence of calls that each change
the state. What it asks of uIP is carried out by the action of the event
(`Call`): `Connected`, `Segment`, `Poll`, `Rexmit`, `TimedOut`, `Reset`, `Fin` and
`FinAcked` are the calls that uIP makes to an application. A byte of a packet is a
pair of kind and position, which is enough to see whether the stream is cut at
packet boundaries. `RoomFor` is the length that the code checks for, which is one
byte short for packets of 128 bytes and more (`LongPackets`). uIP sends no more than
a segment, and on a retransmission no more than before. The broker answers what it has received completely, may
refuse, send packets unasked or too short, and fall silent for ever. Times are kept as ages.

`PacketStream` says what the send buffer promises; `ImplementsPacketStream` maps
`todo` to the part of the buffer that the broker has not received; only the end of
the connection drops it. This and `StreamWellFormed` are claimed for one connection
and a buffer whose length fits in a byte (`OneStream`), which the default of 256 bytes
does not.

`MqttParse` is the other direction: one action per turn of the loop in
`mqtt_parse`, with the three cases of the code (nothing stored, length known,
length not known yet), over every way of cutting a stream into segments. It is
kept apart from `Mqtt` because it is wrong in most fragmented cases.

### TftpBoot

`conn` is the remote end of the UDP connection, `flash` says for each block whose
image it is from. `tftp_handle_packet` is a write request, a data block or a packet
of another type, which is refused but binds the connection too (`OtherType`). A block
is the next one (`NextBlock`) or another one (`OtherBlock`, acknowledged again when it
is the last one received, refused otherwise). A block that lies behind
`BOOTLOADER_START_ADDRESS` is acknowledged and not programmed, so that an image
that is too large is cut off. `periodic_process` is the countdown at
the end of the function of that name. The network is a set of packets that are
never removed, so they arrive late and again; an answer may be lost.
The clients are outside of the repository; they send in lockstep, as the protocol
demands, stop at an error, and may give up.

### Interaction between the parts

The scheduler and the rest of the firmware meet in the lock of the packet buffer.
In `Scheduler`, `NetLock` and `NetUnlock` let the network take the buffer and give it
back at any time, so that a dispatch may be skipped. `ZBus` looks at the same lock
from the other side: `periodic_process` is one of its users. The scheduler's liveness
properties are conditional on dispatches happening. `LockReleased` is the part of
that condition that the links do provide: it leaves out a frame whose stop marker
does not come and an empty frame, both of which stop all timers.
The resolver, DHCP, MQTT and `zbus_core_periodic` are driven by static timers,
whose regular invocation is `StaticServed`; this justifies the fairness that their
modules assume. `WatchAsync` uses the resolver by its own actions, not by its
promise: what it sees is exactly what `Resolver` does (`UsesResolver`). The file system runs inside
timer functions and packet handlers, one call at a time.

## 3. Runs

| run | instance | what it shows |
|---|---|---|
| `scheduler` | 2 static and 2 dynamic timers, words of two 1-bit "bytes", 3 API calls, fairness | all interleavings of tick, dispatch and API: nothing lost, doubled or invoked while suspended or deleted, nothing that fits in a byte early; static and one-shot timers are served |
| `scheduler_isr` | 1 static timer longer than a byte and 2 dynamic ones, of which an interrupt handler owns one, 2 API calls | requests for the other timers are honoured and none is left running; a torn delay costs less than a byte of ticks |
| `dynamic_interval` | violation | a periodic dynamic timer is not restarted with its interval |
| `dataflash` | 10 pages, 2 files of up to 4 bytes in 2-byte pages, restarts | refinement of `FileStore`, copy on write, reading, chains that end |
| `dataflash_crash` | 10 pages, 2 inode tables, 1 power failure at any point | recovery, atomic create and remove, damage to one file only |
| `dataflash_lap` | violation | a live page is handed out again |
| `watchasync` | ring of 2, 3 events, 1 connection, 2 slots, 2 queries, fairness | every query ends after at most `MAX_RETRIES` questions, callbacks at most once and not after the end; events are reported in order, none is left out, and all are confirmed unless a query was dropped |
| `zbus` | 3-byte buffer, 2 connections, any bytes, fairness | until `outrun`: one user of the buffer, the lock held exactly while it is used or after an empty frame, refinement of `PacketBuffer`; always: transmissions end and the other holders give the lock back |
| `dhcp` | 2 servers, leases of 0, 1, 2, 5 and 16, 6-bit counters, fairness | timer calls since the last ACK counted exactly, renewal before expiry, an address in the end |
| `mqtt` | 1 connection, send buffer of 4 bytes, segments of 2, packets of 1 and 2, fairness | refinement of `PacketStream`, whole packets, keep alive |
| `mqtt_fragments` | violation: 2 packets of length 0 or 3 in any fragments | a fragmented packet is handed on incomplete |
| `tftp_boot` | 3 clients with images of 1, 3 and 5 blocks, 3 blocks of flash, fairness | no part or mixture of images is started but for the cut at the end of the flash, what is acknowledged and fits is programmed, transfers end |

Bounds and why they are enough. In `Scheduler` a word of two small "bytes" keeps
the borrow between them, which is all that tearing depends on. With `ByteBase = 2`
the static interval 2 has a non-zero high byte and can be torn; the interval 1 fits
in a byte, as `NotEarly` requires. `MaxCalls = 3` allows the sequences that matter:
delete and add again during one's own invocation after having been added, suspend
and reset. The tick is unbounded. In `DataflashFs` a file has up to two
pages, so that first, middle and last page, the step from the first write to an
extension and the two loops over pages all occur; `MaxVersion` bounds the number
of root pages written, with restarts in between, after which the search for free
pages begins anew. In `dataflash_crash` files have one page, because with two a
damaged file can run on into another one (see `DataflashFs`); a torn page can make a
chain cyclic there too, in which `fs_init` does not end, so that nothing is claimed
of its end. In `watchasync` the ring
has one place for an event that waits and one for the event being sent, so that it
wraps and fills; three events go round it; two queries in two slots can evict
each other, although the code then uses one slot only (that none is lost among
several slots is `NoQueryLost`); `MAX_RETRIES = 2` has the first question, a repetition and the end. In `zbus` the buffer
can overflow, a frame can end at every length, and two connections are what it
takes for one to overwrite the packet of another. In `dhcp` the lease of 16
overflows T2 in 6 bits, and those of 1 and 2 make limits coincide; the retry
limit of 2 is reached from every state. In `mqtt` the buffer holds two
packets, so that it fills up, a segment can end within a packet, and a packet
is written behind an unacknowledged segment. In `tftp_boot` one image ends in the
middle of the flash, one fills it and one is two blocks too large; three clients
compete for the connection.

Every module has a type invariant `TypeOK` (`WaTypeOK` for what `WatchAsync` adds). It
holds on these instances but is not a question of a run of its own; for `Scheduler`,
`Resolver`, `WatchAsync`, `ZBus`, `Dhcp` and `TftpBoot` it is proved. In `watchasync` the bound on
queries shows in `EventsConfirmed` as `OutOfQueries`: the next query would exceed it.

Fairness. `Scheduler` assumes that the tick interrupt keeps coming, that the main
loop keeps calling `periodic_process` and that timer functions return; it assumes
nothing of the network, so the liveness properties are conditional on dispatches
happening (`[]<>Dispatching`). `Resolver` assumes that uIP goes on
polling; nothing is assumed of servers. `WatchAsync` adds that the main loop runs, that connections being closed
end (uIP gives them up after its retransmissions), and, strongly, that a
network in which a message is tried again and again lets it through; connections
may still fail any number of times in between. `ZBus` assumes the main loop and the interrupts of a transmission, the
latter strongly because the timer that starts a pending transmission anew
(`zbus_core_periodic`) may come in between; it assumes nothing of the line. `Dhcp` and `Mqtt` assume their timers and
uIP's, and nothing of the servers. `TftpBoot` assumes the countdown, and that what a
client sends again and again arrives and one of the answers to it too; it
assumes nothing of clients that have given up. Deadlock is checked in every
passing run but three: `tftp_boot` ends when the application is started or no
client is left, `zbus` when an empty frame has left the lock behind, and
`dataflash_crash` when `fs_init` is in a cyclic chain.

Findings. Every violation run states what a comment or a doc of the repository
says and shows a behaviour of the code that contradicts it; `PROJECT.json` quotes
the line. In short: the interval of a restarted dynamic timer is read from the
wrong table; a page is handed out while in use; a fragmented MQTT packet is handed
on before it is complete, because the length of what is stored, header included,
is compared with the length without it.

More was met on the way. These are outcomes of TLC on the modules as they are,
with the change of an instance or the formula given:

* `IsrRequestHonoured` (`Scheduler`, `IsrSlots = {1}`): a request made by the receiver
  interrupt between load and store of the dispatcher is undone.
* `OneshotNotLost` (`Scheduler`): a one-shot timer added by a function that has just
  deleted its own timer takes its slot and is deleted with it.
* `NotEarly` without `Short`: a tick between the two byte loads of a delay makes a
  static timer fire early, by less than a byte of ticks as `EarlyByLessThanAByte`
  says.
* The uses in `Avoided` and the cyclic chain (section `DataflashFs`).
* `Resolver` with `RESOLV_ENTRIES = 4`: the second of two queries made after the start
  replaces the first before it was asked, with three slots never used.
* `WatchAsync`: when its query is evicted, or answered without an address record,
  the callback never comes and nothing is reported any more. This is the exception
  `Forsaken` of `EventsConfirmed`.
* `ZBus`: a stop marker right behind its start marker leaves the lock held for ever,
  which stops all timers (`EmptyFrame` in `LockHeldByUser` and `LockReleased`).
* `ZBus` without `outrun`: the end of a transmission releases the lock under a main
  loop that is still in the call that queued it; `BufferExclusive` is violated.
* `Resolver`: after an answer without an address record `resolv_lookup` returns the
  address that the slot had for an earlier name.
* `ZBus`: a packet queued by a dispatch is overwritten by that of the next connection
  polled; `PacketsIntact` leaves these packets out.
* `Dhcp`: a late OFFER of another server redirects the renewal requests, and the
  address is kept in use after the lease has expired, until a new one is given.
  The comment at `dhcp.c:293` says that `dhcp_periodic` is called 50 times per
  second; `timer(50, ...)` calls it once a second, so that a "second" of a lease is
  50 seconds long.
* `Mqtt` with `Conns = {1, 2}` violates `OneConnection`: the last acknowledgement of
  a connection that was closed makes the client forget the new one. Without
  `OneStream` it violates `StreamWellFormed`: the broker gets bytes of two streams.
* `Mqtt` with `ByteBase = MQTT_SENDBUFFER_LENGTH`, which is the default of the code
  (256) and allowed by the comment at `mqtt.c:52`, reaches an empty buffer with
  unacknowledged bytes: the 8 bit head of a buffer that is exactly full is 0.
* `Mqtt`: a PINGREQ for which there is no room is not sent but waited for, and the
  connection closed (`no_room` in `PingAccounted`).
* `TftpBoot`: an image that is too large is acknowledged to its end, cut off and
  started.
* `TftpBoot`: `finished ~> started` is refuted: a duplicate of the last block stops the
  countdown that was to start the application.

## 4. Proofs

`SchedulerTypes`, `SchedulerDispatchProofs` and `SchedulerProofs` prove, for any
number of static and dynamic timers, any intervals and delays, any tick rate, any byte size, any set of timers used by
the interrupt handler and any number of API calls:

| theorem | says |
|---|---|
| `TypeCorrect` | all variables keep their types; no delay leaves the 16 bit range, torn stores included |
| `StaticTimersAlive` | `StaticAlive`: a static timer is runnable or is the one being invoked |
| `NoTimerLeftRunning` | `RunningOnlyCurrent` |
| `RequestsHonoured` | `RequestHonoured`: suspend, reset, delete and re-add survive the timer's own invocation |
| `OneshotInvokedOnce` | `OneshotAtMostOnce` |
| `SuspendedNeverInvoked` | `SuspendedNotInvoked`, for suspended and deleted timers |
| `StaticEarliness` | `EarlyByLessThanAByte` |

The only assumption is `SchedulerAssumption`, the types of the constants. None of
the invariants is inductive alone, because what the dispatcher stores at the end
of a read-modify-write depends on what it loaded before. `IInv` adds, for every
value of `pc`, how the registers relate to memory: `Fresh` (the loaded byte is the
stored one, unless an interrupt handler owns the timer), `RunningInRegister`,
`StillRunnable` (from its test to its invocation a timer stays runnable),
`ApiOnDynamic`, `IsrPeriodic`, `Requests` (the request in force, including the timer
being invoked), `DueIsDelay` and `HighByteZero`. The last two carry the argument
about tearing: if the low byte was zero when it was loaded and the high byte is
zero afterwards, then the delay is below one byte now (lemma `ExpiredIsSmall`, from
`ByteSplit` and `ByteJoin`), and ticks only make it smaller. The lemmas
`DispatcherIInv` and `CallersIInv`, with one step per action, and `InitIInv` make
`IInv` inductive. For deleted timers `Gone` (a control block is free exactly when its
timer was deleted) is proved inductive relative to `IInv`. The timers that the
interrupt handler drives are left out of both properties about requests.

`ResolverProofs` proves every safety invariant of `Resolver`, for any size of the
table, any number of retries, names and queries, and any range of the sequence
number (the only assumption is `ResolverAssumption`):

| theorem | says |
|---|---|
| `TimerNeverWraps` | `TypeOK`: the retry timer of a name being asked for is never decremented from 0 |
| `NoQueryLost` | `PendingInTable`: a pending query is in exactly one slot that is polled |
| `CallbackOnce` | `CalledAtMostOnce`, and not after the query was evicted or left unanswered |
| `RetriesBounded` | `QuestionsBounded` |

The properties are about queries, the code works on slots. The inductive
invariant `RInv` ties the two: `Owners` (a query is in at most one slot, whether
open or not), `Unissued` (a query not made yet has no history) and `Progress` (the
number of questions sent is what the retry counter of the slot says). One poll
changes many slots at once; `PollBySlot` reduces it to four things that may happen
to an open slot, and `PolledSlot` shows that each of them keeps the counters in
step. That a victim is always found in the table is `VictimInTable`.

`WatchAsyncProofs` proves, for any size of the ring and of the resolver's table, any
number of events, connections, queries and other clients (the assumptions are
`ResolverAssumption` and `WatchAsyncAssumption`):

| theorem | says |
|---|---|
| `UsesResolver` | `WaSpec => Spec`: every step of the two is a step of `Resolver` or leaves it alone |
| `CallbackOnceComposed` | `CalledAtMostOnce` of the two together, from `UsesResolver` and `CallbackOnce` |
| `NoEventLost` | `RingHoldsUnconfirmed` |
| `EventsInOrder` | `NoneSkipped` |
| `RetransmitsTheSame` | `RetransmissionSame` |

The ring alone is not inductive: a callback that came while a connection is in use
would start a second one and lose what the first has sent. The inductive invariant
`WInv` therefore needs the resolver's `RInv` to show that a callback ends a pending
query (`PollEnds`, `AnswerEnds`), and adds `WaitsForQuery` (a pending query keeps
`wa_sendstate` at 1, with no connection), `Connected`, `Delivery` (the connection
carries the first event that is not confirmed) and `Ring`, which also bounds the
number of events: one place stays free while nothing is being sent, none while the
event at the left end is. Arithmetic modulo the size of the ring is confined to
`Around` and the lemmas after it.

`ZBusProofs` proves, for any buffer length, any number of connections and any bytes on
the line, empty frames included, up to the first transmission that ends before the
call that queued it has returned (`outrun`, part of each property):

| theorem | says |
|---|---|
| `BufferHasOneUser` | `BufferExclusive` |
| `LockIsExact` | `LockHeldByUser` |
| `PacketsStayIntact` | `PacketsIntact` |
| `LockImplementsPacketBuffer` | `ImplementsPacketBuffer`: every step up to `outrun` is one of `PacketBuffer` |

The three invariants need each other: an interrupt may take the buffer because the
lock is free, and the lock is free only if nobody uses the buffer. `ZInv` adds
`Wiring`, which ties the users to the hardware: the receiver is off while a
received packet waits and after an empty frame, and the transmitter is on while a
packet is being sent. For the
refinement, `TransmitOwner`, `ReceiveOwner` and `MainLoopOwner` show which step of
`PacketBuffer` each action is.

`DhcpProofs` proves, for any number of retries, any width of the counters, any
servers and any lease times (`DhcpAssumption`):

| theorem | says |
|---|---|
| `DhcpTypes` | `TypeOK` |
| `LeaseCountExact` | `ElapsedExact` |
| `LeaseRenewedFirst` | `RenewedBeforeExpiry`, an action property |

`ElapsedExact` is not inductive: after a request `ticks` is set to a limit and not to
the time elapsed, which would lose time if a limit were jumped over. `Counted` says
why it is not: the client is polled between two calls of its timer, so `tick_sec`
is at most 1. `Requested` keeps account of the limits passed and the requests sent.
The lemmas `Marks`, `ReachedIs` and `NotReachedIs` do the arithmetic of T1 and T2,
overflow included, and `MarkCount` turns the number of different limits into
cases.

`TftpBootProofs` proves, for any clients, any sizes of images, larger than the flash or
not, and of the flash (`TftpAssumption`):

| theorem | says |
|---|---|
| `StartedIsComplete` | `StartsComplete` |
| `AcknowledgedIsProgrammed` | `AckedIsProgrammed` |

`TInv` adds `Bound` (the flash holds blocks of the bound client only, and all of
them up to `transfered`), `Counting` (while the countdown runs, nothing is
programmed or everything that fits is), `AcksBound` (only the bound client was ever
acknowledged) and `InImage` (a client sends no block beyond its last).

Only model-checked: liveness, which is out of the prover's reach; everything
about `DataflashFs` and `Mqtt`; `NotEarly`, which depends on delays fitting in a
byte. That the stream of `Mqtt` is right for every length would need induction over
sequences.

## 5. What is not modelled

Message formats, checksums and ciphers are abstracted or left out. The host
build, chip drivers and displays are pure input and output. The scheduler does
not model interrupts that nest. A power failure never leaves a root page with a
mixture of old and new bytes that passes its checksum. Handles of files kept open across
calls of another user, and file systems other than the dataflash one, are left
out. A callback of the resolver does not call `resolv_query` itself; no client in
the repository does.

uIP is modelled as far as its users see it. Sequence numbers, windows and the
checks of incoming segments are not: the TCP of `Mqtt` and `WatchAsync` delivers in
order and loses, which is what the checks are for. The RFM12 and USB links have
other variants of the buffer lock and exclude the build that `ZBus` models.
Reading `zbus_rxlen` in two bytes while the receive interrupt writes it is left
out: the interrupt writes it once per frame, with the receiver off afterwards.

The Modbus gateway was looked at and left out: it matches an answer of the bus to
a connection by the state of the connections alone, so that hardly a property of
interest holds without assumptions the code does not make. The time stamps of
`core/periodic.c`, cron, control commands over USART and TFTP over VFS are not
modelled; `PROJECT.json` names the reason for these and for every other part.

A power failure while the bootloader programs the flash leaves a part of an image,
and the next start runs it after the countdown. The code keeps nothing that could
tell the two apart, so there is no property to state, and restarts of the
bootloader are not modelled.

## 6. Plan

1. TFTP over VFS: the block logic of `TftpBoot` over `FileStore`.
2. The time stamps of `core/periodic.c` against arithmetic on unbounded integers, and
   a timed variant of `Scheduler` (intervals rounded up to the dispatch period).
3. Proofs: `CopyOnWrite` and `NewestIsCurrent` of `DataflashFs`; that `DataflashFs`
   implements `FileStore` for files of one page.
4. The TCP states of `uip_process`, in place of the events that `Mqtt` and `WatchAsync`
   assume.
