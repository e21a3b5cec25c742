------------------------------ MODULE KosFtdi ------------------------------
(***************************************************************************)
(* usbftdi.KOS.asm: the FTDI driver for KolibriOS kept in linux-3-18.      *)
(* Programs call service_proc with the handle of a context they have from  *)
(* the list; a context is locked by the PID of one program; most requests  *)
(* start a transfer and wait for the event its callback raises.            *)
(*                                                                         *)
(* A call is cut where it reads or writes what others may change: the      *)
(* search for its context in the list, the test of the lock, what it does  *)
(* from there to its WaitEvent, and from there to the next WaitEvent or    *)
(* its return.  In between another program may take the lock and the       *)
(* device may leave, with its context.  A call that then uses memory that  *)
(* is free or was never written does anything: a behaviour ends there.     *)
(* The event and the packet are on the stack of the call.  A program       *)
(* passes its own PID and has one thread.                                  *)
(***************************************************************************)
EXTENDS Integers, FiniteSets

CONSTANTS Program,     \* programs, each with its PID
          Context,     \* addresses of contexts; none is used twice
          Opcode,      \* io_codes that programs use
          Size,        \* lengths of data to read or write
          Value,       \* settings of the line
          ChunkSize,   \* chunk sizes programs ask for
          maxPacketSize

(* A lock of 0 is nobody's: no program has the PID 0.                      *)
NoProgram == "nobody"

ASSUME KosAssumption ==
    /\ NoProgram \notin Program
    /\ Opcode \subseteq 0 .. 26 /\ Size \subseteq Nat /\ Value \subseteq Nat
    /\ ChunkSize \subseteq Nat /\ maxPacketSize \in Nat \ {0}

VARIABLES ctx,       \* the contexts: their place in the list, lock, chunk sizes
          plugged,   \* the contexts whose device is on the bus
          reg,       \* the settings in the device of a context
          call,      \* what the call of a program is about
          event,     \* its event: "none", "auto" or "manual" (MANUAL_DESTROY)
          raised,    \* the event has been raised and not yet waited for
          result,    \* EventData+8: what the callback found
          onbus,     \* its transfer is on the bus
          robbed,    \* ghost: <<p, c>>, the lock of p on c was overwritten
          bad        \* ghost: a call has used memory that is not its own

vars == <<ctx, plugged, reg, call, event, raised, result, onbus, robbed, bad>>

-----------------------------------------------------------------------------
(* The requests.                                                           *)

write_data == 8
read_data == 9
Bulk == {write_data, read_data}
Asks == {21, 22, 23}             \* get_latency_timer, read_pins, poll_modem_status
Tells == (10 .. 20) \union {24, 25, 26}
Transfers == Bulk \union Asks \union Tells

Setting == {"dtr", "rts", "rate", "bitmode", "flow", "event", "error",
            "latency", "line"}

(* The setting a request is about; a reset or a purge changes none.        *)
SettingOf(op) == CASE op \in {12, 13} -> "rts" [] op \in {14, 15} -> "dtr"
                   [] op = 10 -> "rate"  [] op = 11 -> "bitmode"
                   [] op = 17 -> "flow"  [] op = 18 -> "event"
                   [] op = 19 -> "error" [] op = 20 -> "latency"
                   [] op = 24 -> "line"  [] OTHER -> "none"

SIO_SET_DTR_HIGH == 1 + 256
SIO_SET_DTR_LOW == 256
SIO_SET_RTS_HIGH == 2 + 512
SIO_SET_RTS_LOW == 512

(* The word of ConfPacket that carries the setting.                        *)
ConfPacket(op, value) == CASE op = 12 -> SIO_SET_RTS_HIGH
                           [] op = 13 -> SIO_SET_RTS_LOW
                           [] op = 14 -> SIO_SET_DTR_HIGH
                           [] op = 15 -> SIO_SET_DTR_LOW
                           [] OTHER -> value

(* What the device makes of it: the upper byte of a modem control word     *)
(* tells which of the two lines the lower byte is for.                     *)
Obeyed(settings, op, value) ==
    LET word == ConfPacket(op, value)
    IN  CASE SettingOf(op) \in {"rts", "dtr"} ->
               [settings EXCEPT
                  !["dtr"] = IF (word \div 256) % 2 = 1 THEN word % 2 ELSE @,
                  !["rts"] = IF (word \div 512) % 2 = 1 THEN (word \div 2) % 2
                                                        ELSE @]
          [] SettingOf(op) \in Setting \ {"rts", "dtr"} ->
               [settings EXCEPT ![SettingOf(op)] = word]
          [] OTHER -> settings

Wanted(op, value) == CASE op \in {12, 14} -> 1 [] op \in {13, 15} -> 0
                       [] OTHER -> value

-----------------------------------------------------------------------------
NoCall == [at |-> "out", op |-> 0]
NoContext == [in |-> "none", lockPID |-> NoProgram, w |-> 0, r |-> 0]

(* A call that found its context in the list, and one that also passed the *)
(* test of its lock, which had the value seen.                             *)
Entered(op, c) == [at |-> "entered", op |-> op, c |-> c]
Passed(op, c, seen) == [at |-> "passed", op |-> op, c |-> c, seen |-> seen]

(* A call to read or write: ecx bytes are done, the chunk at hand starts   *)
(* at esi; n counts the chunks up to the third.                            *)
BulkCall(op, c, size) == [at |-> "waiting", op |-> op, c |-> c, size |-> size,
                          ecx |-> 0, esi |-> 0, edx |-> 0, n |-> 0]
ControlCall(op, c, value) == [at |-> "waiting", op |-> op, c |-> c, value |-> value]

Idle(p) == call[p] = NoCall
Waiting(p) == call[p].at = "waiting"

(* The programs that were let through to a context for more than its lock. *)
Users(c) == {p \in Program : /\ call[p].at \in {"passed", "waiting"}
                             /\ call[p].op >= 4 /\ call[p].c = c}

(* linkedlist_isvalid: contexts that AddDevice has linked; their fields    *)
(* are written later.                                                      *)
Written(c) == ctx[c].in \in {"orphan", "half", "bound"}
Listed(c) == ctx[c].in = "new" \/ Written(c)

(* The pipes of a context that are open: AddDevice opens the one to read   *)
(* from first.                                                             *)
Opened(op, c) == CASE op = read_data -> ctx[c].in \in {"half", "bound"}
                   [] op = write_data -> ctx[c].in = "bound"
                   [] OTHER -> Written(c)

Init == /\ ctx = [c \in Context |-> NoContext]
        /\ plugged = {}
        /\ reg = [c \in Context |-> [s \in Setting |-> 0]]
        /\ call = [p \in Program |-> NoCall]
        /\ event = [p \in Program |-> "none"]
        /\ raised = [p \in Program |-> FALSE]
        /\ result = [p \in Program |-> 0]
        /\ onbus = [p \in Program |-> FALSE]
        /\ robbed = {}
        /\ bad = FALSE

frameVars == <<event, raised, result, onbus>>
callVars == <<call, frameVars, robbed, bad>>

(* A device is plugged in.  AddDevice links the context, writes its fields *)
(* and opens two pipes, all of it in sight of the programs.  Without a     *)
(* pipe it refuses the device but leaves the context in the list; without  *)
(* memory there is no context.                                             *)
AddDevice(c) ==
    /\ ctx[c].in = "none" /\ c \notin plugged
    /\ plugged' = plugged \union {c}
    /\ \E place \in {"new", "gone"} :
          ctx' = [ctx EXCEPT ![c] = [NoContext EXCEPT !.in = place]]
    /\ UNCHANGED reg /\ UNCHANGED callVars

WriteFields(c) ==
    /\ ctx[c].in = "new"
    /\ ctx' = [ctx EXCEPT ![c] = [in |-> "orphan", lockPID |-> NoProgram,
                                  w |-> maxPacketSize, r |-> maxPacketSize]]
    /\ UNCHANGED <<plugged, reg>> /\ UNCHANGED callVars

OpenPipe(c) ==
    /\ c \in plugged /\ ctx[c].in \in {"orphan", "half"}
    /\ ctx' = [ctx EXCEPT ![c].in = IF @ = "orphan" THEN "half" ELSE "bound"]
    /\ UNCHANGED <<plugged, reg>> /\ UNCHANGED callVars

(* The kernel finds that the device has left, in the thread that calls     *)
(* AddDevice; it then fails what was started on it and only after that     *)
(* calls DeviceDisconnected, for a device it has.                          *)
Unplug(c) ==
    /\ c \in plugged /\ ctx[c].in # "new"
    /\ plugged' = plugged \ {c}
    /\ UNCHANGED <<ctx, reg>> /\ UNCHANGED callVars

DeviceDisconnected(c) ==
    /\ ctx[c].in = "bound" /\ c \notin plugged
    /\ \A p \in Users(c) : ~onbus[p]
    /\ ctx' = [ctx EXCEPT ![c] = [NoContext EXCEPT !.in = "gone"]]
    /\ UNCHANGED <<plugged, reg>> /\ UNCHANGED callVars

-----------------------------------------------------------------------------
(* service_proc up to its branches.  A version, a list and a handle that   *)
(* is not valid leave the state alone.                                     *)
Enter(p, op, c) ==
    /\ Idle(p) /\ op \in Opcode /\ op >= 2 /\ Listed(c)
    /\ call' = [call EXCEPT ![p] = Entered(op, c)]
    /\ UNCHANGED <<ctx, plugged, reg, robbed, bad>> /\ UNCHANGED frameVars

(* A mistake: whoever asks unlocks.                                        *)
LetThrough_Unlocks(p, op, lockPID) ==
    IF op = 2 THEN lockPID = NoProgram ELSE op = 3 \/ lockPID = p

(* Whom the lock lets through: to lock a context nobody may have it.       *)
LetThrough(p, op, lockPID) == IF op = 2 THEN lockPID = NoProgram ELSE lockPID = p

TestLock(p) ==
    /\ call[p].at = "entered" /\ Written(call[p].c)
    /\ LET lockPID == ctx[call[p].c].lockPID
       IN  call' = [call EXCEPT ![p] =
              IF LetThrough(p, @.op, lockPID) THEN Passed(@.op, @.c, lockPID)
                                              ELSE NoCall]
    /\ UNCHANGED <<ctx, plugged, reg, robbed, bad>> /\ UNCHANGED frameVars

(* The call is where it may use its context, which is still there.         *)
At(p, ops) == /\ call[p].at = "passed" /\ call[p].op \in ops
              /\ Written(call[p].c)

(* The store of ftdi_lock and of ftdi_unlock.  When the lock is no longer  *)
(* what the test has seen, the program that has it is robbed of it.        *)
StoreLock(p) ==
    /\ At(p, {2, 3})
    /\ LET c == call[p].c
           holder == ctx[c].lockPID
           owner == IF call[p].op = 2 THEN p ELSE NoProgram
       IN  /\ ctx' = [ctx EXCEPT ![c].lockPID = owner]
           /\ robbed' = (robbed \ {<<owner, c>>})
                           \union ({holder} \ {call[p].seen, NoProgram}) \X {c}
    /\ call' = [call EXCEPT ![p] = NoCall]
    /\ UNCHANGED <<plugged, reg, bad>> /\ UNCHANGED frameVars

(* A chunk must not be smaller than a packet.                              *)
ftdi_set_chunksize(op, c, size) ==
    IF maxPacketSize > size THEN ctx
    ELSE IF op = 6 THEN [ctx EXCEPT ![c].r = size]
    ELSE IF op = 7 THEN [ctx EXCEPT ![c].w = size] ELSE ctx

(* Requests about the chunk sizes.                                         *)
Quick(p) ==
    /\ At(p, Opcode \ (Transfers \union {2, 3}))
    /\ \E size \in ChunkSize :
          ctx' = ftdi_set_chunksize(call[p].op, call[p].c, size)
    /\ call' = [call EXCEPT ![p] = NoCall]
    /\ UNCHANGED <<plugged, reg, robbed, bad>> /\ UNCHANGED frameVars

(* WaitEvent destroys an event that was created without MANUAL_DESTROY.    *)
EventAfterWait(kind) == IF kind = "manual" THEN "manual" ELSE "none"

(* A mistake: all events are made like those of the control requests.      *)
CreateEvent_Auto(op) == "auto"

CreateEvent(op) == IF op \in Bulk THEN "manual" ELSE "auto"

-----------------------------------------------------------------------------
(* Control transfers.  Requests that tell test whether the transfer could  *)
(* be started; those that ask wait in any case.                            *)
StartControl(p) ==
    /\ At(p, Asks \union Tells)
    /\ LET op == call[p].op
           c == call[p].c
       IN  \E value \in IF SettingOf(op) \in Setting \ {"rts", "dtr"}
                        THEN Value ELSE {0} :
           \/ /\ c \in plugged \/ op \in Asks
              /\ call' = [call EXCEPT ![p] = ControlCall(op, c, value)]
              /\ event' = [event EXCEPT ![p] = CreateEvent(op)]
              /\ \/ c \in plugged /\ onbus' = [onbus EXCEPT ![p] = TRUE]
                 \/ op \in Asks /\ UNCHANGED onbus
           \/ /\ op \in Tells
              /\ call' = [call EXCEPT ![p] = NoCall]
              /\ UNCHANGED <<event, onbus>>
    /\ UNCHANGED <<ctx, plugged, reg, raised, result, robbed, bad>>

(* A mistake: only a success is announced.                                 *)
control_callback_Silent(p, status) ==
    /\ result' = [result EXCEPT ![p] = status]
    /\ raised' = [raised EXCEPT ![p] = @ \/ status = 0]

control_callback(p, status) ==
    /\ result' = [result EXCEPT ![p] = status]
    /\ raised' = [raised EXCEPT ![p] = event[p] # "none"]

(* The device answers a control request or fails it, having obeyed or not; *)
(* with the device gone only the failure is left.                          *)
CompleteControl(p) ==
    /\ onbus[p] /\ call[p].op \notin Bulk
    /\ onbus' = [onbus EXCEPT ![p] = FALSE]
    /\ LET obeyed == [reg EXCEPT ![call[p].c] =
                        Obeyed(@, call[p].op, call[p].value)]
       IN  \/ /\ call[p].c \in plugged /\ reg' = obeyed
              /\ control_callback(p, 0)
           \/ /\ reg' = reg \/ (call[p].c \in plugged /\ reg' = obeyed)
              /\ control_callback(p, 1)
    /\ UNCHANGED <<ctx, plugged, call, event, robbed, bad>>

(* The rest of a control request: its event went with WaitEvent.           *)
FinishControl(p) ==
    /\ Waiting(p) /\ call[p].op \notin Bulk /\ raised[p]
    /\ call' = [call EXCEPT ![p] = NoCall]
    /\ raised' = [raised EXCEPT ![p] = FALSE]
    /\ event' = [event EXCEPT ![p] = EventAfterWait(@)]
    /\ result' = [result EXCEPT ![p] = 0]
    /\ UNCHANGED <<ctx, plugged, reg, onbus, robbed, bad>>

-----------------------------------------------------------------------------
(* Bulk transfers.                                                         *)

(* The next chunk: at most the chunk size of what is left; its place moves *)
(* by all that is done, so it is right for the first two chunks only (past *)
(* the end of the buffer it counts as size + 1).                           *)
Chunk(k) ==
    LET most == IF k.op = write_data THEN ctx[k.c].w ELSE ctx[k.c].r
        left == k.size - k.ecx
    IN  [k EXCEPT !.edx = IF left < most THEN left ELSE most,
                  !.esi = IF @ + k.ecx > k.size THEN k.size + 1 ELSE @ + k.ecx,
                  !.n = IF @ < 3 THEN @ + 1 ELSE 3]

(* Whether the transfer could be started is not tested: the call waits.    *)
StartChunk(p, k) ==
    /\ Opened(k.op, k.c)
    /\ call' = [call EXCEPT ![p] = Chunk(k)]
    /\ \/ k.c \in plugged /\ onbus' = [onbus EXCEPT ![p] = TRUE]
       \/ UNCHANGED onbus

(* ftdi_write_data and ftdi_read_data up to the first chunk.  Without      *)
(* memory, or with nothing to read, the call just destroys its event.      *)
StartBulk(p) ==
    /\ At(p, Bulk)
    /\ \E size \in Size :
       \/ /\ call[p].op = read_data => size > 0
          /\ StartChunk(p, BulkCall(call[p].op, call[p].c, size))
          /\ event' = [event EXCEPT ![p] = CreateEvent(call[p].op)]
       \/ /\ call' = [call EXCEPT ![p] = NoCall]
          /\ UNCHANGED <<event, onbus>>
    /\ UNCHANGED <<ctx, plugged, reg, raised, result, robbed, bad>>

(* Bytes that are read to a place past the end of the buffer.              *)
Overruns(k, length) == k.op = read_data /\ length > 0 /\ k.esi + length > k.size

(* -1 for an error; a status of 9 (short packet) is none.                  *)
bulk_callback(p, length) ==
    /\ result' = [result EXCEPT ![p] = length]
    /\ raised' = [raised EXCEPT ![p] = event[p] # "none"]

CompleteBulk(p) ==
    /\ onbus[p] /\ call[p].op \in Bulk
    /\ onbus' = [onbus EXCEPT ![p] = FALSE]
    /\ \/ call[p].c \in plugged
          /\ \E length \in 0 .. call[p].edx :
                /\ bulk_callback(p, length)
                /\ bad' = Overruns(call[p], length)
       \/ bulk_callback(p, -1) /\ UNCHANGED bad
    /\ UNCHANGED <<ctx, plugged, reg, call, event, robbed>>

(* .eventdestroy                                                           *)
EventDestroyed == "none"

(* The loop goes round: an error leaves it at once, without the event and  *)
(* the buffer; the last chunk ends it; otherwise the context is read again *)
(* for the next one.                                                       *)
Loop(p) ==
    /\ Waiting(p) /\ call[p].op \in Bulk /\ raised[p]
    /\ raised' = [raised EXCEPT ![p] = FALSE]
    /\ LET k == [call[p] EXCEPT !.ecx = @ + result[p]]
       IN  \/ /\ result[p] = -1
              /\ call' = [call EXCEPT ![p] = NoCall]
              /\ event' = [event EXCEPT ![p] = "none"]
              /\ UNCHANGED onbus
           \/ /\ result[p] # -1 /\ k.ecx >= k.size
              /\ call' = [call EXCEPT ![p] = NoCall]
              /\ event' = [event EXCEPT ![p] = EventDestroyed]
              /\ UNCHANGED onbus
           \/ /\ result[p] # -1 /\ k.ecx < k.size
              /\ StartChunk(p, k)
              /\ event' = [event EXCEPT ![p] = EventAfterWait(@)]
    /\ result' = [result EXCEPT ![p] = 0]
    /\ UNCHANGED <<ctx, plugged, reg, robbed, bad>>

(* The call is about to start a transfer.                                  *)
Starting(p) == \/ call[p].at = "passed" /\ call[p].op \in Transfers
               \/ /\ Waiting(p) /\ call[p].op \in Bulk /\ raised[p]
                  /\ result[p] # -1 /\ call[p].ecx + result[p] < call[p].size

(* What it uses then, or at the test of the lock, may be a context that is *)
(* free or not yet written, a pipe that AddDevice did not open, or one     *)
(* that the kernel has freed with a device it was not told to keep.        *)
UsesStray(p) ==
    LET c == call[p].c
    IN  \/ ctx[c].in = "gone"
           /\ (Starting(p) \/ call[p].at \in {"entered", "passed"})
        \/ call[p].at = "entered" /\ ctx[c].in = "new"
        \/ Starting(p) /\ ~Opened(call[p].op, c)
        \/ Starting(p) /\ c \notin plugged /\ ctx[c].in \in {"orphan", "half"}

Stray(p) == /\ ~Idle(p) /\ UsesStray(p)
            /\ bad' = TRUE
            /\ UNCHANGED <<ctx, plugged, reg, call, robbed>> /\ UNCHANGED frameVars

Next == /\ ~bad
        /\ \/ \E c \in Context : \/ AddDevice(c) \/ WriteFields(c) \/ OpenPipe(c)
                                  \/ Unplug(c) \/ DeviceDisconnected(c)
           \/ \E p \in Program, op \in Opcode, c \in Context : Enter(p, op, c)
           \/ \E p \in Program :
                 \/ TestLock(p) \/ StoreLock(p) \/ Quick(p)
                 \/ StartControl(p) \/ CompleteControl(p) \/ FinishControl(p)
                 \/ StartBulk(p) \/ CompleteBulk(p) \/ Loop(p) \/ Stray(p)

(* A control transfer ends by the timeouts of the bus; a thread whose      *)
(* event is raised gets to run.  A bulk transfer may wait for data.        *)
Fairness == \A p \in Program : /\ WF_vars(~bad /\ CompleteControl(p))
                               /\ WF_vars(~bad /\ FinishControl(p))

Spec == Init /\ [][Next]_vars /\ Fairness
-----------------------------------------------------------------------------
(* Properties.                                                             *)

TypeOK ==
    /\ DOMAIN ctx = Context /\ plugged \subseteq Context
    /\ \A c \in Context : /\ ctx[c].in \in {"none", "new", "orphan", "half", "bound", "gone"}
                          /\ ctx[c].lockPID \in Program \union {NoProgram}
                          /\ Written(c) => ctx[c].w >= maxPacketSize
                                           /\ ctx[c].r >= maxPacketSize
                          /\ reg[c] \in [Setting -> Value \union {0, 1}]
    /\ \A p \in Program : /\ event[p] \in {"none", "auto", "manual"}
                          /\ raised[p] \in BOOLEAN /\ onbus[p] \in BOOLEAN
                          /\ call[p].at \in {"out", "entered", "passed", "waiting"}
    /\ robbed \subseteq Program \X Context /\ bad \in BOOLEAN

(* A callback writes to the stack of the call that started the transfer    *)
(* and raises the event found there: as long as a transfer is on the bus   *)
(* that call is still waiting for it, its event exists, and the context it *)
(* works on has not been freed.                                            *)
FrameAlive == \A p \in Program :
    onbus[p] => Waiting(p) /\ event[p] # "none" /\ Listed(call[p].c)

(* The loops count right: no chunk asks for more than is left of the data. *)
(* The first two chunks are also right behind one another in the buffer;   *)
(* from the third on the code goes to a wrong place.                       *)
ChunkInside == \A p \in Program :
    Waiting(p) /\ call[p].op \in Bulk =>
       /\ call[p].edx <= call[p].size - call[p].ecx
       /\ call[p].n <= 2 => call[p].esi = call[p].ecx

(* ftdi_lock keeps programs apart: all calls let through to a context are  *)
(* those of the program that holds its lock, but for programs whose lock   *)
(* was overwritten between another's test and store.                       *)
OneProgram == \A c \in Context : Listed(c) =>
    \A p \in Users(c) : ctx[c].lockPID = p \/ <<p, c>> \in robbed

(* A request that tells the device a setting and finds status 0 in its     *)
(* packet finds the device with that setting: nobody else has changed it   *)
(* between the answer of the device and the return of the call, unless a   *)
(* lock of this device was overwritten.                                    *)
SettingApplied == \A p \in Program :
    Waiting(p) /\ call[p].op \in Tells /\ raised[p] /\ result[p] = 0
    /\ SettingOf(call[p].op) # "none"
    /\ (\A q \in Program : <<q, call[p].c>> \notin robbed) =>
       reg[call[p].c][SettingOf(call[p].op)] = Wanted(call[p].op, call[p].value)

(* A control request whose transfer is on the bus returns, also when the   *)
(* device is unplugged under it, unless some call strays first.            *)
ControlReturns == \A p \in Program :
    onbus[p] /\ call[p].op \notin Bulk ~> Idle(p) \/ bad

(* The calls that wait: their frames, events and contexts are there for    *)
(* the callbacks, and the loops of the bulk calls count right.             *)
CallsSound == TypeOK /\ FrameAlive /\ ChunkInside

(* The lock gives a program the device: nobody else is at work on it, and  *)
(* what it has set is set.                                                 *)
ProgramsApart == OneProgram /\ SettingApplied
=============================================================================
