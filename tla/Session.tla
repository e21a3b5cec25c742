------------------------------- MODULE Session -------------------------------
(***************************************************************************)
(* The sessions of one device (usbuart.c): OPEN_UART or OPEN_RAW, requests *)
(* that make transfers, CLOSE_DEVICE, opening again.  The state is what a  *)
(* session owns: the table of endpoint records (apPipes), the records in   *)
(* memory that kmalloc hands out again, the context of a CP210x, and the   *)
(* transfers under way, each of which keeps the address of its record      *)
(* (calldata) until its callback has run.                                  *)
(*                                                                         *)
(* One thread of a program makes the requests; the callbacks run in the    *)
(* thread of the USB stack.  GetCreatePipe and a callback are one step.    *)
(* The receive queue, the sender's bytes and the handshake of the context  *)
(* have modules of their own: here a packet is a number of parts.          *)
(***************************************************************************)
EXTENDS Integers, Sequences, FiniteSets

CONSTANTS Chip,          \* kinds of devices, by the branch they take
          Addr,          \* addresses kmalloc may return for a record
          NULL,
          PipeResult,    \* how GetCreatePipe may end when it has to create
          MaxFault,      \* bound: failed allocations and refused transfers
          MaxParts,      \* transfers a packet takes
          MaxOpen        \* bound: how often the device is opened

ASSUME ChipAssumption == Chip \subseteq {"CP210x", "FTDI", "PL2303", "CDC"}
ASSUME SessionAssumption == /\ NULL \notin Addr /\ Addr \subseteq Nat
                            /\ PipeResult \subseteq {"ok", "nomem", "nopipe", "noevent"}
                            /\ MaxFault \in Nat
                            /\ MaxParts \in Nat \ {0} /\ MaxOpen \in Nat

VARIABLES
    chip,
    plugged,          \* the device is on the bus (USB stack)
    iFlags,
    pipes,            \* apPipes, the allocated records, and their contents
    context,          \* dev->context is allocated
    transfers,        \* per pipe, submitted and not completed, oldest first
    wBytes,           \* parts of the packet in SenderStruct still to send
    pc, todo,         \* where the program is, and the calls it has to make
    slot,             \* how many records ClosePipes has freed
    endp,             \* the record whose event it waits for
    own,              \* what its transfer moved, -1 before it is completed
    badAccess,        \* memory outside the records and the table is in use
    opens

device == <<chip, plugged, iFlags, context, opens>>
answer == <<endp, own>>
vars == <<device, pipes, transfers, wBytes, pc, todo, slot, answer, badAccess>>

Record == [iEP : {"0", "80", "in", "out", "intr"}, iType : {"CTRL", "BULK", "INTR"},
           pEvent : BOOLEAN, raised : BOOLEAN, iCountRW : Nat]
Blank == [iEP |-> "0", iType |-> "CTRL", pEvent |-> FALSE, raised |-> FALSE,
          iCountRW |-> 0]
NullEndpoint == {"0", "80"}
Pipe == {"0", "80", "in", "out", "intr"} \X {"CTRL", "BULK"}

Init == /\ chip \in Chip /\ plugged = TRUE /\ iFlags = {"PRESENCE"}
        /\ pipes = [apPipes |-> <<>>, alloc |-> {}, mem |-> [a \in Addr |-> Blank], faults |-> 0]
        /\ context = FALSE /\ transfers = [q \in Pipe |-> <<>>]
        /\ wBytes = 0
        /\ pc = "idle" /\ todo = <<>> /\ slot = 0
        /\ endp = NULL /\ own = -1
        /\ badAccess = FALSE /\ opens = 0

-----------------------------------------------------------------------------
(* The table of endpoints.                                                 *)

(* A walk along apPipes stops at the first NULL.                           *)
Present(p) == LET stops == {i \in DOMAIN p.apPipes : p.apPipes[i] = NULL}
              IN  {i \in DOMAIN p.apPipes : \A s \in stops : i < s}

(* A mistake the properties must catch: the record is always created.      *)
Matches_AlwaysCreate(p, ep, type) == {}

Matches(p, ep, type) ==
    {i \in Present(p) : /\ p.mem[p.apPipes[i]].iEP = ep
                        /\ p.mem[p.apPipes[i]].iType = type}

(* The address kmalloc returns.  Free addresses are alike: a record is     *)
(* cleared before it is used, and a behaviour ends when a freed one is     *)
(* used.                                                                   *)
Free(p) == {a \in Addr \ p.alloc : \A b \in Addr \ p.alloc : a <= b}

(* A mistake: the old rows are not copied.                                 *)
Shortened_Lost(p) == [p EXCEPT !.apPipes = <<>>]

(* What GetCreatePipe does to the table: the rows the walk found are kept, *)
(* a record is filled in, and it gets a row of its own.                    *)
Shortened(p) == [p EXCEPT !.apPipes = SubSeq(@, 1, Cardinality(Present(p)))]
Filled(p, a, ep, type, event) ==
    [p EXCEPT !.mem[a] = [Blank EXCEPT !.iEP = ep, !.iType = type, !.pEvent = event]]
Added(p, a) == [p EXCEPT !.apPipes = Append(@, a), !.alloc = @ \union {a}]

(* One of the calls it makes has failed.                                   *)
Fault(p) == [p EXCEPT !.faults = @ + 1]
How(p) == IF p.faults < MaxFault THEN PipeResult ELSE {"ok"}

(* The record it returns, whether that is allocated, whether its pipe is   *)
(* open, and the table it leaves.                                          *)
Result(a, live, open, p) == [endp |-> a, live |-> live, open |-> open, pipes |-> p]

(* The outcomes of GetCreatePipe.  There may be no memory for the new      *)
(* table, or for the record only.  A record whose pipe or event could not  *)
(* be made is freed and returned all the same.                             *)
GetCreatePipe(p, ep, type) ==
    LET kept == Shortened(p)
        On(r) == IF r \in How(p) THEN Free(p) ELSE {}
    IN  IF Matches(p, ep, type) # {}
        THEN {Result(p.apPipes[i], TRUE, TRUE, p) : i \in Matches(p, ep, type)}
        ELSE {Result(NULL, FALSE, FALSE, Fault(t)) :
                 t \in IF "nomem" \in How(p) THEN {p, kept} ELSE {}}
             \union {Result(a, FALSE, FALSE, Fault(kept)) : a \in On("nopipe")}
             \union {Result(a, FALSE, TRUE, Filled(Fault(kept), a, ep, type, FALSE))
                        : a \in On("noevent")}
             \union {Result(a, TRUE, TRUE, Added(Filled(kept, a, ep, type, TRUE), a))
                        : a \in On("ok")}

(***************************************************************************)
(* usb_control_msg and usb_bulk_msg: get the pipe, clear iCountRW, submit. *)
(* The transfer keeps the record's address; stale means that the record    *)
(* has been freed since.  A bulk call that does not wait still asks for    *)
(* the event, with a timeout of 0, which takes it if it is there.          *)
(***************************************************************************)
Transfer(c, o) == [cb |-> c.cb, rec |-> o.endp, closed |-> FALSE, stale |-> ~o.live]

Used(r, taken) == [r EXCEPT !.iCountRW = 0, !.raised = @ /\ ~taken]

Submit(c, o, queue, accepted, bad) ==
    /\ badAccess' = (bad \/ (o.endp # NULL /\ ~o.live))
    /\ accepted => o.open /\ plugged
    /\ ~accepted => ~o.open \/ ~plugged \/ o.pipes.faults < MaxFault
    /\ pipes' = LET p == IF ~accepted /\ o.open /\ plugged THEN Fault(o.pipes) ELSE o.pipes
                IN  IF o.live
                    THEN [p EXCEPT !.mem[o.endp] =
                             Used(p.mem[o.endp], accepted /\ c.type = "BULK" /\ ~c.wait)]
                    ELSE p
    /\ transfers' = IF accepted THEN [queue EXCEPT ![<<c.ep, c.type>>] = Append(@, Transfer(c, o))]
                    ELSE queue

Ctrl(ep, cb, wait) == [ep |-> ep, type |-> "CTRL", cb |-> cb, wait |-> wait]
Bulk(ep, cb, wait) == [ep |-> ep, type |-> "BULK", cb |-> cb, wait |-> wait]
MakeContext == [ep |-> "0", type |-> "kmalloc", cb |-> "", wait |-> FALSE]

-----------------------------------------------------------------------------
(* Requests of the program.                                                *)

Open == "BUSY" \in iFlags
Uart == "UART" \in iFlags

(* What OPEN_UART does after SetBusy, by the kind of the device.           *)
OpenCalls ==
    LET start == CASE chip = "CP210x" -> <<Ctrl("0", "Callback_Ctrl", TRUE), MakeContext,
                                           Ctrl("80", "Callback_Intr", FALSE)>>
                 [] chip = "FTDI" -> <<Ctrl("0", "Callback_Ctrl", TRUE)>>
                 [] chip = "PL2303" -> <<Ctrl("80", "Callback_Ctrl", TRUE),
                                         Ctrl("0", "Callback_Ctrl", TRUE),
                                         Bulk("intr", "Callback_Intr", FALSE)>>
                 [] chip = "CDC" -> <<Ctrl("80", "Callback_Ctrl", TRUE),
                                      Bulk("intr", "Callback_Intr", FALSE)>>
    IN  start \o <<Bulk("in", "Callback_BulkInp", FALSE)>>

Enter(calls, at) == /\ pc = "idle" /\ pc' = at /\ todo' = calls
                    /\ UNCHANGED <<pipes, transfers, slot, answer, badAccess>>

(* A mistake: BUSY is not tested.                                          *)
SetBusy_Again(mode) == /\ "PRESENCE" \in iFlags /\ opens < MaxOpen
                       /\ iFlags' = (iFlags \ {"UART"}) \union {"BUSY"} \union mode
                       /\ opens' = opens + 1
                       /\ UNCHANGED <<chip, plugged, context, wBytes>>

SetBusy(mode) == /\ "PRESENCE" \in iFlags /\ ~Open /\ opens < MaxOpen
                 /\ iFlags' = (iFlags \ {"UART"}) \union {"BUSY"} \union mode
                 /\ opens' = opens + 1
                 /\ UNCHANGED <<chip, plugged, context, wBytes>>

ProcCmd_OPEN_UART == SetBusy({"UART"}) /\ Enter(OpenCalls, "call")
ProcCmd_OPEN_RAW == SetBusy({}) /\ Enter(<<>>, "idle")

(* Requests that set the line; those to a CP210x go through the context.   *)
ProcCmd_SET_STATUS_LINE ==
    /\ Open /\ Uart /\ "PRESENCE" \in iFlags /\ chip # "CP210x"
    /\ Enter(<<Ctrl("0", "Callback_Ctrl", TRUE)>>, "call")
    /\ UNCHANGED <<device, wBytes>>

(* Two transfers for FTDI and CH34x, one for PL2303 and CDC/ACM.           *)
ProcCmd_SETUP_LINE ==
    /\ Open /\ Uart /\ "PRESENCE" \in iFlags /\ chip # "CP210x"
    /\ \E n \in CASE chip = "FTDI" -> {2} [] chip = "PL2303" -> {1} [] OTHER -> {1, 2} :
          Enter([i \in 1 .. n |-> Ctrl("0", "Callback_Ctrl", TRUE)], "call")
    /\ UNCHANGED <<device, wBytes>>

(* The record of the endpoint is looked for, or made, before anything is   *)
(* tested; a packet that is too long, or finds the buffer taken, is        *)
(* refused.                                                                *)
ProcCmd_SEND_PACKET ==
    /\ pc = "idle" /\ Open /\ Uart /\ "PRESENCE" \in iFlags
    /\ \E o \in GetCreatePipe(pipes, "out", "BULK") : pipes' = o.pipes
    /\ \/ /\ wBytes = 0
          /\ wBytes' \in 1 .. MaxParts
          /\ pc' = "call" /\ todo' = <<Bulk("out", "Callback_BulkOut", FALSE)>>
       \/ UNCHANGED <<wBytes, pc, todo>>
    /\ UNCHANGED <<device, transfers, slot, answer, badAccess>>

(* The endpoint of CTRL_RAW is out_size && 0xFFFF: 0 or 1; the other       *)
(* endpoints of the model are reached by BULK_RAW.                         *)
ProcCmd_CTRL_RAW ==
    /\ Open /\ ~Uart /\ "PRESENCE" \in iFlags
    /\ Enter(<<Ctrl("0", "Callback_Ctrl", TRUE)>>, "call")
    /\ UNCHANGED <<device, wBytes>>

ProcCmd_BULK_RAW ==
    /\ Open /\ ~Uart /\ "PRESENCE" \in iFlags
    /\ \E ep \in {"in", "out"} :
          Enter(<<Bulk(ep, "Callback_Bulk_Msg", TRUE)>>, "call")
    /\ UNCHANGED <<device, wBytes>>

(* The next call has been made.                                            *)
Proceed == /\ todo' = Tail(todo)
           /\ pc' = IF Len(todo) > 1 THEN "call" ELSE "idle"

(* One call of usb_control_msg or usb_bulk_msg.  A call that is to wait    *)
(* does so only if the transfer was accepted; waiting for an event that    *)
(* does not exist returns at once.  BULK_RAW without a pipe returns what   *)
(* iResult happened to hold, and reads a count through it.                 *)
CallTransfer ==
    /\ pc = "call" /\ todo[1] # MakeContext
    /\ \E o \in GetCreatePipe(pipes, todo[1].ep, todo[1].type), ok \in BOOLEAN :
          /\ Submit(todo[1], o, transfers, ok,
                    o.endp = NULL /\ todo[1].cb = "Callback_Bulk_Msg")
          /\ own' = -1
          /\ IF todo[1].wait /\ ok /\ o.live
             THEN endp' = o.endp /\ pc' = "wait" /\ UNCHANGED todo
             ELSE endp' = NULL /\ Proceed
    /\ UNCHANGED <<device, wBytes, slot>>

CallContext ==
    /\ pc = "call" /\ todo[1] = MakeContext
    /\ context' \in {TRUE} \union {FALSE : r \in {"nomem"} \intersect PipeResult}
    /\ Proceed
    /\ UNCHANGED <<chip, plugged, iFlags, opens, pipes, transfers, wBytes, slot,
                   answer, badAccess>>

(* coreWaitEvent returns; a raw request returns iCountRW of the record.    *)
Wake ==
    /\ pc = "wait" /\ pipes.mem[endp].raised
    /\ pipes' = [pipes EXCEPT !.mem[endp].raised = FALSE]
    /\ endp' = NULL /\ own' = -1 /\ Proceed
    /\ UNCHANGED <<device, transfers, wBytes, slot, badAccess>>

-----------------------------------------------------------------------------
(* CLOSE_DEVICE: the flags, then the pipes one after the other, then the   *)
(* context.                                                                *)

CloseFlags ==
    /\ pc = "idle" /\ Open
    /\ iFlags' = iFlags \ {"BUSY", "UART"}
    /\ pc' = "close"
    /\ UNCHANGED <<chip, plugged, context, opens, pipes, transfers, wBytes, todo, slot,
                   answer, badAccess>>

(***************************************************************************)
(* The loop of ClosePipes ends at the first NULL after the slots it did.   *)
(* It reads dev->apPipes anew in every turn: a callback that makes a pipe  *)
(* meanwhile has put another table there.  At slot 0 that is a copy, and   *)
(* the loop goes on in it.  Later GetCreatePipe finds a NULL in the first  *)
(* row, and nothing to copy: the old table and the records still in it are *)
(* lost, and the loop goes on behind the first row of a table of two, or,  *)
(* past the second slot, behind the table.                                 *)
(***************************************************************************)
More == slot + 1 \in DOMAIN pipes.apPipes /\ pipes.apPipes[slot + 1] # NULL
Behind == slot > 1 /\ slot > Len(pipes.apPipes)

(* A mistake: pipes are left open.                                         *)
Closed_None(q, t, a) == [t EXCEPT !.stale = @ \/ t.rec = a]

(* coreUSBClosePipe, not for endpoint 0: the stack completes the pipe's    *)
(* transfers with USB_STATUS_CLOSED.  The record is freed in any case.     *)
Closed(q, t, a) ==
    [t EXCEPT !.stale = @ \/ t.rec = a,
              !.closed = @ \/ (t.rec = a /\ "PRESENCE" \in iFlags /\ q[1] \notin NullEndpoint)]

ClosePipes ==
    /\ pc = "close" /\ More
    /\ LET a == pipes.apPipes[slot + 1] IN
          /\ pipes' = [pipes EXCEPT
                         !.apPipes[slot + 1] = NULL,
                         !.alloc = @ \ {a},
                         !.mem[a] = Blank]
          /\ transfers' = [q \in Pipe |-> [k \in DOMAIN transfers[q] |->
                                              Closed(q, transfers[q][k], a)]]
    /\ slot' = slot + 1
    /\ UNCHANGED <<device, wBytes, pc, todo, answer, badAccess>>

CloseEnd ==
    /\ pc = "close" /\ ~More
    /\ pipes' = [pipes EXCEPT !.apPipes = <<>>]
    /\ context' = FALSE
    /\ pc' = "idle" /\ slot' = 0
    /\ badAccess' = Behind
    /\ UNCHANGED <<chip, plugged, iFlags, opens, transfers, wBytes, todo, answer>>

ProcCmd_CLOSE_DEVICE == CloseFlags \/ ClosePipes \/ CloseEnd

-----------------------------------------------------------------------------
(* The USB stack.                                                          *)

(* Each pipe completes its transfers in order.                             *)
Busy == {q \in Pipe : transfers[q] # <<>>}
Unplug == /\ plugged /\ plugged' = FALSE
          /\ UNCHANGED <<chip, iFlags, context, opens, pipes, transfers, wBytes,
                         pc, todo, slot, answer, badAccess>>

Disconnected == /\ ~plugged /\ "PRESENCE" \in iFlags /\ Busy = {}
                /\ iFlags' = iFlags \ {"PRESENCE"}
                /\ UNCHANGED <<chip, plugged, context, opens, pipes, transfers,
                               wBytes, pc, todo, slot, answer, badAccess>>

Status(q) == IF Head(transfers[q]).closed \/ ~plugged THEN {"CLOSED"} ELSE {"ok", "error"}
Rest(q) == [transfers EXCEPT ![q] = Tail(@)]

(* A mistake: a short transfer does not raise the event.                   *)
Raise_Short(p, a) == IF p.mem[a].pEvent /\ p.mem[a].iCountRW > 0
                     THEN [p EXCEPT !.mem[a].raised = TRUE] ELSE p

Raise(p, a) == IF p.mem[a].pEvent THEN [p EXCEPT !.mem[a].raised = TRUE] ELSE p

(* A mistake: the count is left for the next request.                      *)
Count_Kept(p, a, n) == p

Count(p, a, n) == [p EXCEPT !.mem[a].iCountRW = n]

(* Callback_Ctrl and Callback_Bulk_Msg tell the thread that waits.         *)
Callback_Ctrl(q, n) ==
    /\ Head(transfers[q]).cb \in {"Callback_Ctrl", "Callback_Bulk_Msg"}
    /\ pipes' = Raise(Count(pipes, Head(transfers[q]).rec, n), Head(transfers[q]).rec)
    /\ transfers' = Rest(q)
    /\ own' = n
    /\ badAccess' = Head(transfers[q]).stale
    /\ UNCHANGED <<device, wBytes, pc, todo, slot, endp>>

(* A part has been sent or not; the rest is submitted whatever the status. *)
Callback_BulkOut(q, n) ==
    LET t == Head(transfers[q])
        left == IF n > 0 THEN wBytes - 1 ELSE wBytes
        next == Bulk(pipes.mem[t.rec].iEP, "Callback_BulkOut", FALSE)
    IN  /\ t.cb = "Callback_BulkOut"
        /\ IF left > 0
           THEN /\ \E o \in GetCreatePipe(pipes, next.ep, "BULK"), ok \in BOOLEAN :
                      Submit(next, o, Rest(q), ok, t.stale)
                /\ wBytes' = left
           ELSE /\ pipes' = Raise(pipes, t.rec) /\ transfers' = Rest(q)
                /\ wBytes' = 0 /\ badAccess' = t.stale
        /\ UNCHANGED <<device, pc, todo, slot, answer>>

Restartable(status) == status # "CLOSED" /\ {"PRESENCE", "BUSY"} \subseteq iFlags

(* The next read is submitted, or not, after the callback has brought the  *)
(* table to p.                                                             *)
Reread(q, p, c, status, bad) ==
    IF Restartable(status)
    THEN \E o \in GetCreatePipe(p, c.ep, c.type), ok \in BOOLEAN :
            Submit(c, o, Rest(q), ok, bad)
    ELSE pipes' = p /\ transfers' = Rest(q) /\ badAccess' = bad

(* Callback_BulkInp and Callback_Intr raise the event of their record too; *)
(* no thread waits for it in a UART session, and it is left out.           *)
(*                                                                         *)
(* The first word of an FTDI packet is the line status; when it changed,   *)
(* the record of an interrupt endpoint is looked for and used unseen.      *)
Callback_BulkInp(q, status, changed) ==
    LET t == Head(transfers[q])
        again == Bulk(pipes.mem[t.rec].iEP, "Callback_BulkInp", FALSE)
    IN  /\ t.cb = "Callback_BulkInp"
        /\ IF chip = "FTDI" /\ changed
           THEN \E o \in GetCreatePipe(pipes, "80", "INTR") :
                   Reread(q, o.pipes, again, status, t.stale \/ ~o.live)
           ELSE Reread(q, pipes, again, status, t.stale)
        /\ UNCHANGED <<device, wBytes, pc, todo, slot, answer>>

(* The status of a CP210x is polled on endpoint 0, that of a CDC/ACM       *)
(* device read from its interrupt endpoint.                                *)
Callback_Intr(q, status) ==
    LET t == Head(transfers[q])
        r == pipes.mem[t.rec]
        again == IF chip = "CP210x" THEN Ctrl(r.iEP, "Callback_Intr", FALSE)
                 ELSE Bulk(r.iEP, "Callback_Intr", FALSE)
    IN  /\ t.cb = "Callback_Intr"
        /\ Reread(q, pipes, again, status, t.stale)
        /\ UNCHANGED <<device, wBytes, pc, todo, slot, answer>>

(* What the stack completes: a closed transfer has moved nothing.          *)
Length(status) == IF status = "CLOSED" THEN {0} ELSE 0 .. 1

CompleteCtrl == \E q \in Busy : \E status \in Status(q) :
                \E n \in Length(status) : Callback_Ctrl(q, n)

CompleteOut == \E q \in Busy : \E status \in Status(q) :
               \E n \in Length(status) : Callback_BulkOut(q, n)

CompleteInp == \E q \in Busy : \E status \in Status(q) :
               \E changed \in BOOLEAN : Callback_BulkInp(q, status, changed)

CompleteIntr == \E q \in Busy : \E status \in Status(q) : Callback_Intr(q, status)

-----------------------------------------------------------------------------
Request == \/ ProcCmd_OPEN_UART \/ ProcCmd_OPEN_RAW
           \/ ProcCmd_SET_STATUS_LINE \/ ProcCmd_SETUP_LINE
           \/ ProcCmd_SEND_PACKET \/ ProcCmd_CTRL_RAW \/ ProcCmd_BULK_RAW
           \/ CloseFlags

(* The program inside the driver: it goes on.                              *)
Inside == CallTransfer \/ CallContext \/ Wake \/ ClosePipes \/ CloseEnd

(* A behaviour in which a freed or a null record has been used, or a row   *)
(* behind the table, ends: what the driver does from there on is undefined.*)
Next == /\ ~badAccess
        /\ \/ Request \/ Inside
           \/ CompleteCtrl \/ CompleteOut \/ CompleteInp \/ CompleteIntr
           \/ Unplug \/ Disconnected

Spec == Init /\ [][Next]_vars

(***************************************************************************)
(* The program goes on inside the driver; control transfers complete, also *)
(* the polls of endpoint 0; a device that stays on the bus takes bytes     *)
(* again and again; transfers that are closed, or whose device is gone,    *)
(* complete.  A read of an open device need not complete, that of a UART   *)
(* as that of BULK_RAW: there may be no data.                              *)
(***************************************************************************)
Closing(q) == Head(transfers[q]).closed \/ ~plugged
Answered(q) == q[2] = "CTRL" \/ q[1] = "out" \/ Closing(q)

Fairness ==
    /\ WF_vars(~badAccess /\ Inside)
    /\ WF_vars(~badAccess /\ \E q \in Busy : Answered(q) /\ \E n \in 0 .. 1 : Callback_Ctrl(q, n))
    /\ SF_vars(~badAccess /\ \E q \in Busy : Callback_BulkOut(q, 1))
    /\ WF_vars(~badAccess /\ \E q \in Busy : Closing(q) /\ Callback_BulkOut(q, 0))
    /\ WF_vars(~badAccess /\ \E q \in Busy : Closing(q) /\ Callback_BulkInp(q, "CLOSED", FALSE))
    /\ WF_vars(~badAccess /\ \E q \in Busy : Closing(q) /\ Callback_Intr(q, "CLOSED"))
    /\ WF_vars(~badAccess /\ \E q \in Busy : ~Open /\ chip = "CP210x" /\ ~Closing(q) /\ Callback_Intr(q, "ok"))

FairSpec == Spec /\ Fairness
-----------------------------------------------------------------------------
(* Properties.                                                             *)

(* Type correctness of what a session owns; a part of TableSound.          *)
TypeOK ==
    /\ chip \in Chip /\ plugged \in BOOLEAN /\ context \in BOOLEAN
    /\ iFlags \subseteq {"PRESENCE", "BUSY", "UART"}
    /\ pipes.apPipes \in Seq(Addr \union {NULL}) /\ pipes.alloc \subseteq Addr
    /\ pipes.mem \in [Addr -> Record]
    /\ pc \in {"idle", "call", "wait", "close"}
    /\ wBytes \in 0 .. MaxParts /\ slot \in Nat
    /\ endp \in Addr \union {NULL} /\ opens \in 0 .. MaxOpen

(* Whatever fails in GetCreatePipe, whenever callbacks run during a close, *)
(* the records a walk finds are allocated, have an event, and are one per  *)
(* endpoint and type.                                                      *)
TableSound ==
    LET R(i) == pipes.mem[pipes.apPipes[i]]
    IN  TypeOK /\ (badAccess \/
        /\ \A i \in Present(pipes) : pipes.apPipes[i] \in pipes.alloc /\ R(i).pEvent
        /\ \A i, j \in Present(pipes) :
              R(i).iEP = R(j).iEP /\ R(i).iType = R(j).iType => i = j)

(* A record is in memory but in no table: neither is it ever freed nor its *)
(* pipe closed.                                                            *)
Lost == \E a \in pipes.alloc : \A i \in DOMAIN pipes.apPipes : pipes.apPipes[i] # a

(* A record is lost in one way only: a callback makes a pipe after         *)
(* ClosePipes has done its first slot.  Neither a failure in GetCreatePipe *)
(* nor a callback before the first slot loses one.                         *)
LostInClose == [][~badAccess' /\ ~Lost /\ Lost' => pc = "close" /\ slot > 0]_vars

(* At most one read of the data endpoint is under way, not counting those  *)
(* the stack has closed: the receiver of a session that was closed is not  *)
(* started again by its last callback when the device is open anew.  Only  *)
(* a record that a close has lost brings a second one.                     *)
OneReceiver ==
    ~badAccess /\ ~Lost =>
    \A q, r \in Pipe : \A i \in DOMAIN transfers[q], j \in DOMAIN transfers[r] :
        /\ transfers[q][i].cb = "Callback_BulkInp" /\ ~transfers[q][i].closed
        /\ transfers[r][j].cb = "Callback_BulkInp" /\ ~transfers[r][j].closed
        => q = r /\ i = j

(* CTRL_RAW and BULK_RAW are woken by their own transfer, when it is       *)
(* completed, and return the number of bytes it moved, unless a close has  *)
(* lost a record, whose transfers may wake them too.                       *)
OwnAnswer == ~badAccess /\ ~Lost /\ pc = "wait" /\ pipes.mem[endp].raised =>
                /\ own # -1
                /\ pipes.mem[endp].iCountRW = own

(* A thread that waits without a time limit in usb_control_msg or          *)
(* usb_bulk_msg returns, if the transfer is one that the device answers or *)
(* the device is gone: what is accepted raises the event.  A BULK_RAW read *)
(* of a device that stays silent never returns; and the receiver of a      *)
(* record that a close has lost may take the event of the thread.          *)
Blocked == pc = "wait" /\ (todo[1].type = "CTRL" \/ todo[1].ep = "out" \/ ~plugged)
BlockedReturns == Blocked ~> pc # "wait" \/ badAccess \/ Lost

(* After CLOSE_DEVICE the transfers end, those too that callbacks submit   *)
(* on the closed device, unless it is opened again.  A read whose record   *)
(* the close has lost stays under way.                                     *)
SessionQuiet == ~Open ~> Open \/ Busy = {} \/ badAccess \/ Lost
=============================================================================
