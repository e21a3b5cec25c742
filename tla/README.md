# Models of the KolibriOS usbuart driver

`prj_UsbUart` is a driver of KolibriOS for USB serial adapters (CP210x, FTDI,
PL-2303, CH340) and CDC/ACM modems. This directory holds TLA+ models of its core
logic, the TLC runs that check them and proofs, checked by TLAPS, about the
receive and send path, the line status, the sessions and the CP210x requests; further
models cover the Linux drivers and the FTDI driver of another author kept beside it in
`linux-3-18`, with proofs about the latter and about the usb-serial core of the former. Paths below are relative to `src/prj_UsbUart`.

## 1. Inventory

Three kinds of threads run driver code:

* the thread of the USB stack calls `Additive` and `Disconnected` when devices
  come and go, and the completion callbacks (`Callback_BulkInp`,
  `Callback_BulkOut`, `Callback_Intr`, `Callback_Ctrl`, `Callback_Bulk_Msg`);
* threads of programs call `ServiceProc`, which dispatches to the `ProcCmd_*`
  handlers; several threads of one program may use one handle;
* the kernel calls `Public_Start` when the driver is loaded and unloaded.

They share the list of `_DeviceUsbUart` cells and the cells themselves. There is
one lock in the driver, `MutexIQ`, and it protects the receive queue alone.

| Component | State | Operations | Interacts with | What makes it correct |
|---|---|---|---|---|
| Receive path | `bmIncomingQueue`, `iBytesIQ`, `iHeadIQ`, `iTailIQ`, `iCounterOverflowIQ`, `EVENT_RECEIVED`, `MutexIQ` | `Callback_BulkInp`, `PutChar_Incoming`, `GetChar_Incoming`, GET_BYTE, GET_PACKET | stack resubmission, EVENT_STATUS | a bounded FIFO under every interleaving; the event bit agrees with the queue; reception never stops; the callback always returns |
| Send path | `SenderStruct`, `EVENT_SEND_IS_FREE` | SEND_PACKET, `Callback_BulkOut`, GET_MAX_PACKET_LENGTH | stack, EVENT_STATUS, GET_STATUS_LINE | each accepted packet is sent whole, once, in order; one transfer at a time; the buffer comes free and this is announced |
| Device list and handles | `rootDevice`, the cells' `last`, `next`, `devnum`, `iFlags`, `lDescriptor`; `booChangeList` | `Additive`, `Disconnected`, OPEN_UART, OPEN_RAW, CLOSE_DEVICE, FIRST/NEXT_DEVICE, GET_EVENT_CHANGE_LIST, unload | every handler looks its device up here | the list keeps its shape; nothing in use is freed; numbers and handles name one device; an enumeration misses nothing unannounced |
| CP210x control requests | `_Lcp210x_context`, `ControlRequest`, `LineCoding` | `Callback_Intr`, `Lcp210x__usb_control_msg`, SETUP_LINE, SET_STATUS_LINE | endpoint 0 polling | the poll goes on; a request is on the bus when the handshake says so; a command that returns has been carried out; the wait ends |
| Line rate encoding | none (pure) | `ch341_get_divisor`, `ftdi_232bm_baud_to_divisor` | SETUP_LINE | the chip gets the nearest legal rate; no unsigned wrap-around |
| Pipe table | `apPipes` | `GetCreatePipe`, `ClosePipes`, `usb_control_msg`, `usb_bulk_msg` | every transfer | an endpoint has one record with an event, whatever fails; no record is used after it is freed |
| Session | flags, pipes, context, pending transfers | OPEN_UART, CLOSE_DEVICE, callbacks | all of the above | no callback of an old session touches freed memory or the new session |
| Line status | `wStatusLine`, `bChangesStatusLine`, `EVENT_STATUS_LINE` | three callbacks, GET_STATUS_LINE, EVENT_STATUS | receive path (FTDI), poll (CP210x), send path | a change is announced until it has been read; what the program is told stays true until an event |
| Raw mode | `bmReceiver`, `iCountRW` | OPEN_RAW, CTRL_RAW, BULK_RAW, GET_CONF_DESC | pipe table | a blocked request is woken by its own completion |
| Other line settings | `LineCoding`, `ControlRequest` | SETUP_LINE, SET_STATUS_LINE | pipe table | the bits sent are the settings asked for |
| Dispatch and entry | `Procs` | `ServiceProc`, `Public_Start` | all | a command number reaches its handler |
| Known devices | constant table | lookup in `Additive` | | |

`linux-3-18` is not part of the build: it holds the sources the driver was written from,
with notes and experiments. They are programs in their own right, and modelled as such:

| Component | State | Operations | Interacts with | What makes it correct |
|---|---|---|---|---|
| usb-serial core, life of a device (`usb-serial.c`) | `kref`, `disc_mutex`, `disconnected`, table of minors, tty ports, module count | probe, disconnect, suspend, resume; install, open, write, close, hangup, cleanup; /proc; deregister | tty layer, hub thread, work queue | references exact, nothing freed is used, minors stay with open ttys, disconnect returns |
| usb-serial core, registration and probing; probes of the drivers | what is registered, what is allocated | `usb_serial_init`, `_exit`, `_register_drivers`, `usb_serial_probe`, `destroy_serial` | bus, tty and driver cores | whatever fails, all is taken back in order; every port has its structure |
| `ftdi_sio.c`, `pl2303.c`, `cp210x.c`: line settings | what the driver remembers, what the device has | open, close, set_termios, break, dtr_rts, TIOCMSET, TIOCMGET, TIOCSSERIAL | tty layer, control requests that fail | between calls the device has what the tty stands for |
| `ftdi_sio.c`, `pl2303.c`: data | `prev_status`, line status, `icount`, fifo | process_read_urb, read_int_callback, prepare_write_buffer | status and data share packets | bytes arrive once and in order with their errors; changes are counted once |
| Rates of these drivers, of `ftdi_my.c`, `pl2303_my.c` | none (pure) | divisor and code of a rate | set_termios | the words sent decode to the rate that is reported |
| `usbftdi.KOS.asm` | list of contexts, lock by PID, events on the stack of calls | `AddDevice`, `DeviceDisconnected`, `service_proc`, two callbacks | USB stack, programs | callbacks find their frame, programs are kept apart, requests return |

`chipenable_ru`, `not_use`, `help`, `Doc` and the project files are not part of the driver.

What is hard here: threads that share fields with no lock (`SenderStruct`, the
context, `iFlags`, the list); a device that leaves at any moment; submissions
that the stack refuses; a busy wait that only a callback ends; callbacks that
arrive after a close; arithmetic at the ends of its range. `PROJECT.json` lists
these hazards at their lines.

## 2. Plan

Modules in order of importance. All are written and checked; eight are proved about.

1. `Fifo`, `IncomingQueue`, `MCIncomingQueue`, `IncomingQueueProofs`.
2. `PacketLink`, `Sender`, and `LineStatus`, which extends `Sender`; `MCSender`,
   `SenderProofs`, about both.
3. `DeviceList`, `MCDeviceList`, `DeviceListProofs`.
4. `Session`, `MCSession`: pipe table, opening, closing, raw mode; `SessionProofs`.
5. `Cp210xControl`, `MCCp210xControl`, `Cp210xProofs`.
6. `BaudDivisor`, and `LinuxRates`, which extends it; `MCBaudDivisor`.
7. `UsbSerial`, `MCUsbSerial`, `UsbSerialProofs`.
8. `LinePort`, `MCLinePort`.
9. `DriverSetup`, and `PortData`, which extends it; `MCPortData`, `DriverSetupProofs`.
10. `KosFtdi`, `MCKosFtdi`, `KosFtdiProofs`.

Left to prove, were one to go on: for each driver of its own, `SettingsSound` of `LinePort`
(section 6 says what is in the way).

## 3. Modules, state and actions

Common conventions. A variable has the name of the C field it stands for. A step is
what one thread does between two points where another thread can see or change the
data: each store to an unprotected shared field is a step of its own. `appPc` and
`usbPc` are the places of program threads and of the callback. `plugged` belongs to
the USB stack, `presence` is `PRESENCE_BIT0`. Definitions called "a mistake" are
altered forms of the definition that follows them; they are not part of any
specification and serve to see that the properties notice such a change.

The USB stack and the kernel are not in the repository. From the way the driver uses
them the models take: callbacks run one at a time in one thread; a submission is
accepted or refused; after an unplug pending transfers are completed with
`USB_STATUS_CLOSED` before `Disconnected` is called (so `usbuart.c` 300, 428 and
1280 make sense); a mutex keeps its waiters in a queue; `TRUE` is -1, as in the
shipped builds; a change of one bit of `bEventsUART` is one instruction, as in the
Watcom build.

**IncomingQueue** - one session from the submission in OPEN_UART to an unplug.
`Callback_BulkInp` (with `Payload` for the two status bytes of FTDI), `UsbLock`,
`PutLoad`/`PutStore` (`PutChar_Incoming`, per byte), `UsbUnlock`, `Restart`; for each
thread `ProcCmd_GET_BYTE`/`ProcCmd_GET_BYTES` (flags read), `AppLock`,
`GetLoad`/`GetStore` (`GetChar_Incoming`), `AppUnlock`, `Refused`. The read of
`iBytesIQ` and the stores that depend on it are separate steps, so the model loses
bytes if the mutex is left out. `appTaken` and `got` are observations: the bytes a
request has removed, and the last one.
**Fifo** is the abstract queue: put, get, count a loss.

**Sender** - SEND_PACKET as `Check`, `SetBytes`, `Copy`, `ClearActual`, `ClearEvent`,
`SubmitFirst`, or `Refuse`; the callback as `AddActual`, then `SubmitRest` or
`PacketDone`, `FreeBytes`, `FreeActual`, `FreeEvent`. The stack: `Complete(n)` with
the n bytes the device took. A transfer refers to the buffer by offset and length:
its bytes are read from `bmData` when it completes, so overwriting the buffer too
early shows. **PacketLink** is the abstract link: accept a packet when nothing of the
one before remains, transmit some of its first bytes.

**DeviceList** - cells in a heap whose addresses are handed out again after a free,
linked both ways. One action per handler. `held` is what programs have been given,
`find`, `seen` and `ended` what an enumerating program keeps: the address in its
request buffer and the numbers reported so far. A program that asks for
GET_EVENT_CHANGE_LIST starts its enumeration anew. The walks of the code (`GotoFirst`,
`From`, `Seek`) are recursive functions bounded by the number of cells.

**Cp210xControl** - `Callback_Intr` for a transfer that ended on the bus,
`Callback_Closed` for one closed by the unplug, and per thread the steps of
`Lcp210x__usb_control_msg`: `LcpTest`/`LcpSkip`, `LcpFill`, `LcpArm`,
`LcpSpin`/`LcpDone`. SETUP_LINE makes two requests, SET_STATUS_LINE one. `line` is
what the device has been set to; SET_BAUDRATE takes its data from `LineCoding` when it
is executed. The callback is one step; the thread's stores are not. `appWant` is the
promise of a command under way: what the device must have when it returns; it is void
once a transfer failed or another command ran beside it.

**LineStatus** - `StoreStatus` and `RaiseStatus` of the callbacks; GET_STATUS_LINE as
`Begin`, `Read` (a step per signal for FTDI and CP210x, one for the others),
`ClearStatus`, `TestFree`. It extends `Sender`: all callbacks run in one thread, and the
answer says whether the buffer is free. `told` is what the program was told last,
`missed` that the event was set while its request had not cleared it.

**Session** - records in a small heap, `apPipes` as a sequence with holes, per pipe the
transfers under way with the address of their record. A request is a list of calls
(`OpenCalls`, `Ctrl`, `Bulk`) that `CallTransfer` makes one by one through
`GetCreatePipe`, whose outcomes are put together from what it does to the table (`Shortened`,
`Filled`, `Added`); a call with a time limit of INFINITE waits for the event of its record
(`Wake`). Pipes of one endpoint and type share a queue. `ClosePipes` is one turn of its loop,
and callbacks run between two turns. The loop reads `dev->apPipes` anew in every turn, so a
callback that makes a pipe in between changes what it walks: before the first turn it puts a
copy there, and the loop goes on in the copy; later `GetCreatePipe` finds NULL in the first
row, so it has nothing to copy, and the old table with the records still in it is out of
reach, their pipes unclosed (`Lost`). The loop then goes on behind the first row of the new
table, or behind the table itself (`Behind`). A use of a freed or a null record, or of a row
behind the table, sets `badAccess`, and the behaviour ends there: what follows is undefined.

**BaudDivisor** - the two computations as operators and the words SETUP_LINE sends.
`MCBaudDivisor` also evaluates the four codes recorded from real devices
(`ch340_div.c` 5-6, `linux-3-18/messages.txt`).
**LinuxRates** - the same for `ftdi_sio.c` (with custom divisors, the port number in the
word and the fallback to 9600), `pl2303.c`, `cp210x.c`, `usbftdi.KOS.asm` and the
calculators `ftdi_my.c` and `pl2303_my.c`; `tty_rate` is the rate the tty was told.

**UsbSerial** - actors are programs, "hub" (probe, disconnect, suspend) and "worker"
(cleanup, queued work). `Find`/`GetByMinor` with `table_lock` kept while waiting for
`disc_mutex`, `Install` with its error path `PutLocked`, `UnlockDisc`, `PortOpen`,
`PortActivate`, `Write`, `PortSoftint`, `PortWork`, `WaitUntilSent`, `Close`, `Hangup`,
`Cleanup`, `CleanupPut`; `Probe`, `Attach`, `AllocateMinors`, `Register`, `ProbeError`;
`Disconnect` in five steps; `Deregister` and `DeregisterEnd`. `Put` of the last reference
goes through `ReleaseMinors`, `DestroySerial` and `ModulePut`. Using a freed object, or
code of a module that is gone, sets `badAccess`.

**DriverSetup** - `registered` grows and shrinks one registration a step; a device has an
`id`, and the id tables are the classes of ids by the quirk they have; `Rejected`, `Plan`
and `Wanted` say what `usb_serial_probe` decides and allocates, `Allocate` makes the first one
that is missing (in the order `Before` of the loops of the code), any of which may fail, and
`destroy_serial` takes all back. Among what is allocated is the private data of the port
(`port_probe` of `ftdi_sio.c` and `pl2303.c`). A device that gets no minors is taken back; when
`port_probe` has no memory `usb_serial_probe` says "continuing", and the device stays with a
port that has no driver.
**PortData** extends it: on a port that came up, packets with their two bytes of status
(`ftdi_process_packet`), interrupt and bulk urbs of a PL2303, and writes framed for a SIO. A port
without private data handles none (`PortProbed`). The packets of a SIO have at most 64 bytes, as
its length byte has room for no more than 63 (`SioAssumption`).
`sent`, `toggles` and `written` record what devices and programs did.

**LinePort** - a call of the tty layer is a sequence of steps, mostly one control request
each, which may succeed, fail, or fail after it has reached the device. Actor "tty" is
what the tty layer serialises, "ioctl" runs beside it. `dev` is the device, `priv` what
the driver remembers. Behaviours have any number of calls; only the failures (of requests and
of allocations) and the TIOCSSERIALs in one are bounded (`Bounds`). Four variables are
observations: `asked`, what each line may be after the calls made last; `doubt`, the parts of
the device whose last request has failed; `raced` and `overlap`, which calls have overlapped.
A part is in doubt until a request about it is answered, and opening again ends no doubt that
the code does not.

**KosFtdi** - a call is cut where it reads or writes what others may change. `Enter` finds the
context in the list, `TestLock` reads `lockPID`, `StoreLock` writes it (a step of its own: two
programs may both have found it free); `Quick` (chunk sizes), `StartControl` and
`FinishControl`, `StartBulk` and `Loop` are the code up to the next WaitEvent or the return;
`CompleteControl` and `CompleteBulk` run the callbacks. An event is created for automatic or
for manual destruction, as the code asks; one for automatic destruction is gone after the
wait. `AddDevice`, `WriteFields` and `OpenPipe` are the three parts of AddDevice between which
programs see the context: one with fields not written yet, with one pipe, or with none of the
two, which stays in the list when the device was refused. `DeviceDisconnected` frees the
context at any time after the transfers on it were failed, so also while a bulk call is
between its event and its loop, or another call before its transfer. A call that then uses
the context, or a pipe that was never opened (`UsesStray`), or a read that overruns its buffer
(`Overruns`), sets `bad`, and the behaviour ends there. `robbed` observes whose lock was
overwritten.

## 4. Runs

A property is often the conjunction of named parts that belong together; the parts, each
with its own comment, stand before it in the module, and the type invariant of a module is
among them.

| Run | Setting | Properties |
|---|---|---|
| `queue_cdc` | two threads, ring of 2 | `TypeOK`, `RingConsistent`, `ReceiverArmed`, `FifoSpec` |
| `queue_ftdi` | FTDI framing, refused submissions, fairness | `CallbackReturns` |
| `sender` | one thread, failing and refused transfers, status callbacks | `TransferSound` (`OneTransfer`, `InsidePacket`), `BufferTold` (`FreeAnnounced`, `FreeTold`), `ChangesAnnounced`, `LinkSpec`, `BufferFreed` |
| `list` | up to three cells, two programs, one of them enumerating | `ListSound` (`ListWellFormed`, `NumbersDistinct`, `UnloadFreesAll`), `PointersGood` (`DevicedataAlive`, `HandlesGood`), `EnumerationComplete` |
| `session` | four kinds of devices, one opening, one fault, fairness | `TableSound`, `LostInClose`, `BlockedReturns`, `SessionQuiet` |
| `session_reopen` | three kinds of devices, two openings, no fault | `OneReceiver`, `OwnAnswer` |
| `cp210x` | two threads, failing and refused transfers, unplug | `BusSound` (`PollAlive`, `RequestOnBus`), `CommandApplied`, `CommandsServed` (`ReturnsWhilePlugged`, `ContextFreed`) |
| `baud` | all rates of the bounds below, on every chip | `Ch34xEncodes` (`NoWrap`, `Ch34xNearest`), `LinuxEncodes` (`LinuxRoundTrip`, `Pl2303Encodes`), `RateAccepted`, `KosEncodes` (`FtdiRoundTrip`, `KosAgrees`) |
| `serial_core` | two programs, two devices one after the other, unloading | `References` (`RefsExact`, `ModuleRefsExact`), `NothingStale` (`NoStaleUse`, `MinorsKept`), `OpenSound` (`OpenOnlyWhileBound`, `AwakeWhileOpen`), `DisconnectReturns` |
| `line_ports` | four drivers, any number of calls; one failure or one TIOCSSERIAL | `SettingsSound` (`DeviceFollows`, `FilterSound`), `LinesAsAsked`, `RateCurrent` |
| `port_data` | every allocation failing in turn, devices with odd endpoints, three urbs or writes | `TakenBack` (`RegisteredInOrder`, `NothingLeft`), `PortsThere`, `ReceivedRight` (`DataIntact`, `ChangesCounted`), `WriteFramed` |
| `kos_ftdi` | two programs, one device | `CallsSound` (`FrameAlive`, `ChunkInside`), `ProgramsApart` (`OneProgram`, `SettingApplied`), `ControlReturns` |

All of them hold, on the terms section 5 states.

### What the models show besides

No run is kept for these; each is seen by reading the model, or by changing a constant.

In usbuart:

* GET_BYTES (539) takes GetChar_Incoming's success for its end: it stops after the first
  byte and returns 0, on an empty queue it returns the size of the buffer.
* EVENT_SEND_IS_FREE (235) can be set by a late callback after the next packet was
  accepted; GET_STATUS_LINE, which asks `wBytes`, is right (`FreeTold`).
* An empty packet (653) leaves `wBytes` 0 while its transfer is under way. With two
  threads in `Sender` both can find `wBytes` 0 and submit the buffer twice.
* A change of the line inside a GET_STATUS_LINE, after the word was read and before the
  event is cleared (602), is not announced; a COM-style reading may mix two states.
* The handle 0 (469, 1041) names the first device that is not open.
* A cell whose device left while it was open stays in the list without flags after it is
  closed.
* A thread that arms its CP210x request after the last callback of an unplugged device
  spins for ever (686). A request that finds the context in use is dropped and its
  command still returns success; a thread can be starved by the commands of another.
* `clamp_val` (`ch340.h` 14) does nothing: a rate outside 46 .. 3000000 makes
  `ch341_get_divisor` return `-EINVAL`, which is sent to the chip as the word FF85h.
  `Ch34xNearest` leaves out the rates between 1333334 and 1499999, where
  `ch341_get_divisor` takes the lower base clock although divisor 9 of the higher one
  would sometimes be nearer.
* CLOSE_DEVICE (629) frees the records of transfers that are under way: that of the poll of
  endpoint 0, which is not closed at all, and those of reads whose closed transfers complete
  later. The callback then reads `endp->dev` from freed memory (`badAccess` in `Session`).
* A callback that makes a pipe while ClosePipes is past its first turn loses the old table
  (104 with 82): the read of a record lost in this way stays under way, unclosed. After opening
  again there are two receivers on one buffer, and its event may wake a raw request.
* `GetCreatePipe` (122) returns a record it has freed when `USBOpenPipe` or `CreateEvent`
  fails; `usb_bulk_msg` (272) then returns what is left in a register. Both count as
  `badAccess`.

In `linux-3-18`:

* On a SIO, 300 baud has the code 0 and is taken for unsupported. Below 93751 baud the
  doubled `buf[1]` of `pl2303_encode_baud_rate_divisor` is not the exponent of its
  formula. An NDI device that is told 1200000 for 19200 keeps it when asked again.
* `set_termios` of a FTDI port and TIOCSSERIAL both encode the rate: when they overlap,
  the rate the tty is told may be the other's (`RateCurrent` is about the device).
* After a request that failed the device and the memory of the driver may differ, and later
  calls do not always mend it (`doubt` in `LinePort`). A break that could not be ended on a
  PL2303 or CP210x lasts through a close and a reopening: neither open sends a break request. A
  PL2303 at B0 with DTR raised by TIOCMSET, whose request to drop the lines fails in close, keeps
  DTR up when it is opened again at B0: the driver remembers the lines as dropped, and skips what it
  thinks unchanged (577). A request that failed after it had reached the device, or returned
  0 bytes, makes the same driver skip settings that the device does not have.
* `ftdi_set_termios` forces the rate of a TIRA and compares it with the old one outside
  `cfg_lock` (2143-2163). When TIOCSSERIAL changes the divisor there, having encoded the rate
  the tty had before it was forced, no new rate is sent: the device stays at a rate the tty
  does not have. TIOCSSERIAL can in the same way make set_termios miss B0 (`raced`).
* `last_dtr_rts` is changed under no lock (the FIXME at 1152 of `ftdi_sio.c`), and a PL2303
  sends its lines after it has released the lock it changed them under: TIOCMSET beside
  set_termios can leave a wrong memory in the one and wrong lines in the other (`overlap`).
* Neither error path of `usb_serial_register_drivers` (1412, 1431) frees the `usb_driver` it
  allocated. `TakenBack` covers the registrations, not this memory.
* `usbftdi.KOS.asm`: the test of the lock (801-803) and its store (804-805) are two steps, so a
  program that comes in between takes the lock of another, and both work on the device
  (`robbed`). The bulk loops read chunk size and endpoint from the context for every chunk
  (645, 695), and DeviceDisconnected (1013-1019) may have freed it since the event was raised.
  From the third chunk on `add esi, ecx` adds what was added before, so the place in the
  buffer is wrong, and a read may go past its end. The jumps to `.error` and an unknown code
  keep the event and the buffer; a context whose pipe could not be opened stays listed; a
  transfer that is not accepted leaves its caller waiting for ever; a lock is kept when its
  program ends.

### Bounds

* Ring of 2 bytes, packets of up to 2 data bytes, overflow counter modulo 3: the ring
  fills, wraps and overflows, and the counter wraps, in a few packets. Two readers are
  enough for one to be inside the mutex while one waits and the callback runs. The
  proofs of section 6 remove these bounds.
* Send buffer of 5, transfers of at most 2: packets of one part, of exactly one part,
  of two parts, and one that is too long. A failed transfer may leave any remainder.
* Three addresses and two ports: with the cells of devices that left while open the
  list has up to three cells; one is removed at either end, in the middle and alone,
  and its memory is handed out again. Two programs are enough for two handles to
  collide. Symmetry of ports and of threads is sound: no definition distinguishes them.
  The list runs do not check for deadlock: after unloading nothing happens.
* Line status: two signals, so that a reading signal by signal can mix two states. It is
  composed with the bounds of the send path.
* Session: in `session` one opening with one failing pipe or refused submission at any place,
  and seven addresses; in `session_reopen` two openings without faults, so that callbacks of the
  first meet the second, and twelve. There are always addresses left for a record to be made,
  freed ones among them: freed memory is handed out again. Packets are of one part. A device
  that is gone and closed does nothing more: deadlock is not checked.
* CP210x: two threads, and one value beside zero, which tells a setting made from one not
  made.
* Rates: all from 46 to 160, the standard ones, both sides of every change of
  prescaler and of the range's ends, and cubes in between; for the Linux drivers also the
  rates of their tables with both sides of every limit, 0, and six custom divisors. All
  products stay below 2^31. Each CH34x setting is compared with all 2012 legal ones.
* usb-serial core: two threads, two devices of one port and one minor: the tty of the first
  device can be open while the second is probed, and the one number is wanted by both.
  At most one dying tty waits for its cleanup.
* Line settings: no bound on the calls. Two to four settings a driver, which differ in
  one thing or in several, with B0, 38400, 5 bits, mark parity and both kinds of flow
  control among them. One request or allocation fails (a request before or after it has
  reached the device), or there is one TIOCSSERIAL; for a TIRA only the latter. The two modem
  lines are symmetric: no definition distinguishes them. Nobody must make a call: deadlock
  is not checked.
* Registration and data: two ports and two urbs each, fourteen kinds of interfaces, packets
  of at most four bytes, three urbs or writes: long enough for a status that changes,
  stays and changes back, and for a write of three framed packets.
* usbftdi: two programs, one context, packets of one byte, chunks of up to two, transfers of 0
  and 3 bytes: a call makes up to three chunks, of which the third is misplaced. Of each kind
  of request there is one at least. Calls whose transfer was not accepted wait for ever:
  deadlock is not checked.

### Fairness

Weak fairness of every step of a thread that is inside the driver: the kernel
preempts, so such a thread runs again (also one that spins). Strong fairness of taking
`MutexIQ`: its waiters are queued. Completion of a submitted transfer is weakly fair,
because a stack completes or closes what it has accepted; no fairness condition makes
it refuse a submission. In `Sender`, strong fairness
of a completion that takes at least one byte: a device that stays on the bus is not
broken for ever; without it a failing transfer is repeated without end. In `Session`,
the same for a part of a packet, and completion of control transfers and of those that are
closed or whose device is gone (`Answered`, `Closing`); a read of an open device, BULK_RAW's as
well as the receiver's, need not be answered. `LineStatus` adds
its own steps to those of `Sender`. In `UsbSerial`, strong fairness of threads and of the
steps of a disconnect: they wait for kernel mutexes, which are granted in turn; probes,
queued cleanup and releases run on without waiting. In `KosFtdi`, weak fairness of the
completion of a control transfer that is on the bus, and of the call that it wakes.
`LinePort`, `DriverSetup`, `PortData`, `DeviceList` and the rates are checked for safety
only. No program is assumed to make requests, and no unplug to happen.

## 5. What the properties rest on

The code ignores a refused submission: reception, polling or the buffer is then stuck
for the session. `ReceiverArmed` is therefore checked with submissions that succeed,
and `PollAlive`, `BufferFreed` and `CommandsServed` except after a refusal (`refused`). The
packets of `sender` are not empty, and `TransferSound` and `LinkSpec` assume one sending
thread. `CommandApplied` and `RequestOnBus` speak of commands that ran without another
beside them and without a failed transfer (`appWant`): `Callback_Intr` does not look at the
status of a request. `HandlesGood` assumes that cells are further apart than process numbers
(`SpacingAssumption`). `ChangesAnnounced` leaves out a change inside the request (`missed`).
The properties of `Session` speak of a behaviour until a freed or null record, or a row behind
the table, is used (`badAccess`); `TableSound` and `LostInClose` hold all that time, the other
four except where a close has lost a record (`Lost`), and `LostInClose` says when that
happens. `BlockedReturns` is about transfers that the device answers, and about any once the
device is gone. What `line_ports` checks leaves out the parts of a device in `doubt`. Besides,
`LinesAsAsked` leaves out a PL2303, and the memory of a FTDI port, after calls that changed the
lines have overlapped (`overlap`), and set_termios beside TIOCSSERIAL (`raced`); `RateCurrent`
leaves out the latter for a TIRA only. `ProgramsApart` excepts programs whose lock was
overwritten (`robbed`), and the properties of `KosFtdi` end where a call uses what is not there
(`bad`). Each of these is a hazard of its own, or a note to one, in `PROJECT.json`, or stands
in section 4.

## 6. Proofs

The theorems hold for every value of the constants that the named assumptions of the
modules allow. TLC evaluates these assumptions in every run. Each proof has the same
outline: an inductive invariant, which TLC has checked on the instance of the run, one
lemma per action or group of actions that it is preserved, and one theorem per property
that follows from it.

| Theorem | States | Hypotheses |
|---|---|---|
| `IncomingQueueProofs.TypeCorrect` | `[]TypeOK` | |
| `IncomingQueueProofs.RingCorrect` | `[]RingConsistent` | |
| `IncomingQueueProofs.ImplementsFifo` | the receive path refines `Fifo` | |
| `IncomingQueueProofs.ReceiverCorrect` | `[]ReceiverArmed` | `Submits` |
| `SenderProofs.TransferCorrect` | `[]TransferSound` | `OneSender` |
| `SenderProofs.ImplementsLink` | the send path refines `PacketLink` | `OneSender` |
| `SenderProofs.BufferToldCorrect` | `[]BufferTold` | `OneSender` |
| `SenderProofs.ChangesCorrect` | `[]ChangesAnnounced` | `OneSender` |
| `DeviceListProofs.ListHolds` | `[]ListSound` | |
| `DeviceListProofs.PointersHold` | `[]PointersGood` | |
| `DeviceListProofs.EnumerationHolds` | `[]EnumerationComplete` | `OneViewer` |
| `SessionProofs.TableCorrect` | `[]TableSound` | |
| `SessionProofs.RecordsKept` | `LostInClose` | |
| `SessionProofs.ReceiverUnique` | `[]OneReceiver` | |
| `SessionProofs.AnswerCorrect` | `[]OwnAnswer` | |
| `Cp210xProofs.BusCorrect` | `[]BusSound` | |
| `Cp210xProofs.CommandCorrect` | `[]CommandApplied` | |
| `KosFtdiProofs.CallsCorrect` | `[]CallsSound` | |
| `KosFtdiProofs.ProgramsCorrect` | `[]ProgramsApart` | |
| `UsbSerialProofs.ReferencesHold` | `[]References` | |
| `UsbSerialProofs.NothingStaleHolds` | `[]NothingStale` | |
| `UsbSerialProofs.OpenSoundHolds` | `[]OpenSound` | |
| `DriverSetupProofs.TakenBackHolds` | `[]TakenBack`, of `PortData`'s `Spec` | |
| `DriverSetupProofs.PortsThereHolds` | `[]PortsThere`, of `PortData`'s `Spec` | |
| `DriverSetupProofs.ReceivedRightHolds` | `[]ReceivedRight` | `OneSize` |
| `DriverSetupProofs.WriteFramedHolds` | `[]WriteFramed` | `OneSize` |

The four hypotheses are the ones the runs make too. `Submits`: the stack refuses no
submission; the callback does not look whether the read was accepted, so after a refusal
reception stays stopped (section 5). `OneSender`: there is one sending thread and no packet is
empty; SEND_PACKET tests `wBytes` and sets it in two steps, and an empty packet leaves it 0
with its transfer under way (section 4), so for two threads, or for empty packets, the
statements are false. `OneViewer`: one program enumerates; GET_EVENT_CHANGE_LIST clears
`booChangeList` for all of them, so a second one that asks for it hides a change from the
first. `OneSize`: an FTDI device has a bulk in endpoint, and its endpoints have one size;
`ftdi_set_max_packet_size` takes the size of the last endpoint, whatever its kind, and with an
input endpoint of another size `ftdi_process_read_urb` would cut the urb elsewhere than the
device did (TLC evaluates `OneSize` for the devices of the run).

**IncomingQueue.** `RingConsistent` is not inductive: `PutStore` writes a counter that it
read a step earlier. The inductive invariant adds who may be where, and what was read:

    IInv == TypeOK /\ RingConsistent /\ MutexOwner /\ Fresh /\ Pending

`MutexOwner`: whoever is past its lock and not past its unlock owns `MutexIQ` (so at
most one is). `Fresh`: a value of `iBytesIQ` that was read and not yet used is still
the value of the field. `Pending`: the callback in its loop has a byte to queue.
`InvStep` shows each action preserves it; `RingUntouched` handles the actions that
leave the ring alone. For the refinement, `ContentsProperties` (and `ContentsNext` after a
step) relates the abstract sequence to the slots of the ring, `PutImplements` and
`GetImplements` show that the two stores are the two operations of `Fifo`, and `FifoStutter`
that every other action leaves the abstract queue as it is. The wrap of the indices is the
case split `Slot(i)` makes; no division is needed. `ArmedInv` adds to `ReceiverArmed` that
`Disconnected` comes only after the unplug, and that the status a callback carries is
`CLOSED` only then.

**Sender.** `SendInv` says, for each place of SEND_PACKET and of `Callback_BulkOut`, what
the counters are: a thread that fills the buffer has it to itself but for the last two stores
of the callback that freed it (`FillInv`), the bytes a completed transfer reports are part of
the packet (`CallbackInv`, `RestInv`), and the one transfer under way is of the bytes that
come next (`TransferInv`). In the refinement the completion of a transfer is `Transmit`, the
submission of the first part `Accept`, and the other steps stutter; `WindowSplit` says that
the bytes left in `bmData` are those of the transfer followed by the rest.

**LineStatus** extends `Sender`, so the lemma `LineKeepsSend` brings `SendInv` to it. `LineInv` adds
that a free buffer is announced, that a thread that was told it may send has not begun to, and
for each step of GET_STATUS_LINE which signals it has copied (`Known`): a callback in between
leaves the event set or marks the request.

**DeviceList.** The invariant names the order of the cells, a sequence `q` in which `next` and
`last` lead from each cell to its neighbours, and which holds the cell `rootDevice` points to
(`Order`); that the numbers are below the number of cells there can be, so that the search of
Additive for a free one ends (`Numbers`); that the USB stack has each cell of a device that is
there once (`Present`: else a second Disconnected would find it freed); and that a cell in use
has the handle of a program that holds it, every other has none, and each handle held is that of
a cell in use (`Handles`). `AdditiveOrder` and `UnlinkedOrder` show how the order changes. With
it the walks are no longer recursive: `GotoFirstIs`, `GotoEndIs`, `FromIs` and `IndexIs` give for
each an explicit function that obeys its recursion, and `Alike` shows that such a function is the
only one. What would be an induction there is an argument about the least number for which
something fails (`Least`, from the well-foundedness of finite sets in the library). Handles need
that cells lie further apart than process numbers (`SpacingAssumption`) and that no address and
no process number is 0: CLOSE_DEVICE with a handle of 0, which a program may pass, then closes
a cell that is not in use. For enumerations, `Reported` says that the cells up to
`find->device` in the order of the list are those reported, as long as no change is announced.

**Cp210xControl.** `BusInv` relates `iStatus` to what is on the bus for every place of
the threads: whoever has put the context to use spins until it is free (`SpinServed`), a free
context means a poll (`PollWhenFree`), and the request of a command that nobody disturbs
is the one in the slot (`Handshake`). `CommandInv` adds which values the device has been
given by the requests done so far; two commands that overlap promise nothing (`Alone`).

**Session.** The invariant has a part that holds whatever the code does with the table during a
close, and one that holds as long as no record is lost:

    SessionInv == /\ Types /\ Program /\ (~badAccess => Sound(pipes))
                  /\ (~badAccess => Lost \/ Good)

`Sound`: the rows that are not NULL are allocated records with an event, one per endpoint and
type, wherever in the table they are. `Good` says that the rows are the freed
ones followed by the records, all of them (`Rows`); a transfer whose record was not freed
is on that record's pipe (`Live`) and has a callback that serves this pipe (`Roles`); what is
still to be called does not wait on such a pipe (`Plan`); a read that is not closed is not
stale, there is one, and none while a call to start it is to come (`Receivers`, `Starting`);
the transfer a thread waits for is the only one of its kind and has its record (`OneAsked`,
`Answering`); and an event that is set is the answer to that thread or that the send
buffer is free (`Raised`). `TableSound` alone is not inductive because what GetCreatePipe
finds depends on which rows are NULL during a close; `OneReceiver` needs that closing a
record closes its read at once, hence `Roles` and the flags in `Flow`; `OwnAnswer` needs
that no callback submits on the record waited for. `PipeOutcome` lists the four outcomes of
GetCreatePipe; `PipeLoses` says that past the first turn of a close one that changes the table
leaves every record of the old one in no row (`Early` is the time before). `Keeps` is what
the lemmas about callbacks show of `Good`: `SubmitKeeps` of a call, `AgainKeeps` and `DropKeeps`
of a callback that submits again or not. A lost record stays lost, so from there on only
`Sound` is left to keep.

**KosFtdi.** `KosInv` says that a transfer on the bus has a call that waits, with an event and a
context that is there (`Frame`), where the chunk of a bulk call lies (`Bounded`), that chunk
sizes are not below a packet (`ChunksLarge`), and what a callback that reported success has
set (`Applied`, `Valued`). `Holder` is about the lock: a call that was let through to more than
the lock works on a context whose lock its program has, unless it was robbed of it; a call
about to store has seen a lock that let it through. The step that matters is `StoreLock`: who
holds the lock then is either what the test has seen or is robbed. It assumes that no program
has the number that stands for a free lock, 0 in the code (`NoProgram`).

**UsbSerial.** None of the three properties is inductive. That no freed object is used
(`NoStaleUse`) holds because whoever uses one has a reference, and that needs the counts to be
exact; the counts are exact because no actor gives back what it does not have, which needs to know
where each actor is. `IInv` therefore says, besides types and places (`Places`): the count of
an object is the number of those who hold it (`Counts`), as a sum of cardinalities - the ttys
installed and those that wait for `serial_cleanup` (`Installed`), the lookups, the worker, the
hub; one actor destroys an object, once its count is 0 (`Destroyers`); the table of minors
refers to objects that are alive, and one that is not disconnected is bound (`Numbers`);
a thread that waits for `disc_mutex` has `table_lock`, and one that has `disc_mutex` found the
object connected (`Locks`, which is what makes the put under `disc_mutex` never the last); a tty
counts its files and a port those not hung up (`Ttys`, `Ports`, the latter saying that a port
that nobody uses is down); the hub's place in a probe or a disconnect and the ports it has been
through (`Hub`); each tty installed keeps the interface awake (`Power`); a module that is
going has no references, so that nobody is left who could call it (`Module`). For the sums there
are lemmas on what an `Installed` gains or loses when one tty comes or goes (`OneMore`,
`OneLess`, `InstalledSame` and those after them), and for the groups of actions lemmas on what
they leave alone; then there is one lemma per action and conjunct. Besides the
bounds, and names that differ, the only assumption is that the set of threads is finite, without
which counting them means nothing.

**DriverSetup.** `SetupInv` adds to `RegisteredInOrder` what can be registered in each stage
(`Stages`), and to `NothingLeft` and `PortsThere` that all that is allocated is part of what the
probe wanted and belongs to a port structure that exists (`Allocated`): `destroy_serial` finds its
work through these structures. `PlanCovers` shows, for any endpoints, that the plan has a
structure for every port and every endpoint; `WantedIs` that a structure comes in the order of
the allocations before all that hangs on it, so that a failure in between leaves nothing
out of reach. The lemma `DataKeepSetup` brings the result to the composition with `PortData`.

**PortData.** `PortInv` is about packets of any length and content, for an urb of one packet or
two, and for writes, buffers and packets of any size. `Received` adds to `ReceivedRight` what the
driver has to remember for it: the modem lines it keeps are those reported last (what
`ftdi_process_packet_Forgets`, the mutant, loses), and for a PL2303 the errors since the last bulk
urb. `Chips` says that the size by which an urb is cut is the device's (`SizeRight`, through what
`ftdi_mtxorb_hack_setup` mends), so the pieces are the packets (`PiecesOne`, `PiecesTwo`).
`Sending` says what each buffer handed out stands for. For the SIO that is about a loop of any
number of frames: `FlattenIs` and `FramesAre` show that joining and the loop satisfy their
recursions (an induction, made by the least length that has no such function), `Framed` is the
invariant of the loop - as long as there are bytes left every frame is full, so that it starts
where the code writes it - and `FrameTaken` that a frame moves bytes and loses none, also when
the fifo ends in it or the buffer does.

Only model-checked, and why:

* the liveness properties (`CallbackReturns`, `BufferFreed`, `CommandsServed`,
  `BlockedReturns`, `SessionQuiet`, `DisconnectReturns`, `ControlReturns`): they rest on
  fairness, which is beyond the prover;
* the rates (`BaudDivisor`, `LinuxRates`): their bitwise operators are recursive;
* urbs of more than two packets, in `PortData`: the model sends no longer ones;
* `LinePort`: each call is a list of steps per driver, and the invariant would have to say of
  every place in every list what the device already has; TLC goes through all of them.

## 7. Not modelled

* The packing of parity, data bits and stop bits into a word by SETUP_LINE, the dispatch of
  command numbers, the text of debug messages, the descriptors copied to programs and the
  table of known devices: constant or without control.
* `usbftdi.KOS.asm`: a program that walks the list while a context is linked or unlinked (the walk
  is one step), contexts whose address is handed out again, and programs with several threads.
* Handlers of usbuart interrupted in the middle of a walk through the list: what they may
  read after a cell was freed is undefined, so `DeviceList` takes whole handlers.
* In `linux-3-18`: the kernel's own headers; `ftdi_sio.my.c`, which is `ftdi_sio.c` with
  traces; the console, sysrq, the latency attribute, the event character, ids added at run
  time, and the urbs of the generic driver, whose source is not in the repository.
* `chipenable_ru`, `not_use`, `help`, `Doc`, build files and binaries: not part of the driver.
