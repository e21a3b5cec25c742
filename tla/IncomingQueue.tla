--------------------------- MODULE IncomingQueue ---------------------------
(***************************************************************************)
(* The receive path of one open device (usbuart.c): Callback_BulkInp, run  *)
(* by the thread of the USB stack, fills the ring bmIncomingQueue;         *)
(* GET_BYTE and GET_BYTES, run by application threads, empty it.  MutexIQ  *)
(* is the only protection, so the read of iBytesIQ and the stores that     *)
(* depend on it are separate steps here: what the mutex does not protect   *)
(* may be interleaved.                                                     *)
(*                                                                         *)
(* One session of the device is modelled, from the submission made by      *)
(* OPEN_UART to an unplug.  The status-line fields that the FTDI branch of *)
(* the callback updates are disjoint from this state and are left out;     *)
(* its effect on the data (two leading bytes are removed) is kept.         *)
(***************************************************************************)
EXTENDS Integers, Sequences

CONSTANTS Size,         \* sizeof(bmIncomingQueue)
          CounterMod,   \* 2^16: iCounterOverflowIQ is a uint16_t
          Byte, Zero,   \* values of a received byte; the byte 0
          Thread,       \* application threads that hold the handle
          Packet,       \* what one bulk-in transfer may deliver
          OutSize,      \* values of request->out_size of GET_BYTES
          IsFTDI,       \* known->bIntrPoint = 0 and known->wVID = FTDI_VID
          SubmitResult  \* what coreUSBNormalTransferAsync may return

ASSUME SizeAssumption == Size \in Nat \ {0}
ASSUME ByteAssumption == Zero \in Byte
ASSUME CounterAssumption == CounterMod \in Nat \ {0}
ASSUME PacketAssumption == Packet \subseteq Seq(Byte)
ASSUME OutSizeAssumption == OutSize \subseteq Nat
ASSUME FlagAssumption == IsFTDI \in BOOLEAN /\ SubmitResult \subseteq BOOLEAN

(***************************************************************************)
(* TRUE is -1 in every shipped build of the driver, FALSE is 0; ERROR is   *)
(* the result 0 of a refused request.                                      *)
(***************************************************************************)
True == -1
False == 0
Error == 0

UsbThread == "usb"
Free == "free"      \* MutexIQ is not held
ASSUME ThreadAssumption == UsbThread \notin Thread /\ Free \notin Thread

VARIABLES
    bmIncomingQueue, iBytesIQ, iHeadIQ, iTailIQ,  \* the ring
    iCounterOverflowIQ,
    received,     \* bit EVENT_RECEIVED of bEventsUART
    MutexIQ,      \* its owner, or Free
    presence,     \* PRESENCE_BIT0 of iFlags
    plugged,      \* the device is on the bus (USB stack)
    transfer,     \* a bulk-in transfer is submitted and not completed
    usbPc,        \* where Callback_BulkInp is
    usbStatus,    \* its argument status
    usbChars,     \* the bytes chars[i..length-1] still to be queued
    usbN,         \* the value of iBytesIQ PutChar_Incoming has read
    appPc, appOp, \* where each thread is, and in which request
    appOut,       \* its request->out_size
    appI,         \* the loop counter of GET_BYTES
    appN,         \* the value of iBytesIQ GetChar_Incoming has read
    appRes,       \* its iResult
    appTaken,     \* bytes the request has removed from the ring
    got           \* the byte last stored in request->output

ring == <<bmIncomingQueue, iBytesIQ, iHeadIQ, iTailIQ, iCounterOverflowIQ,
          received>>
usbVars == <<presence, plugged, transfer, usbPc, usbStatus, usbChars, usbN>>
appVars == <<appPc, appOp, appOut, appI, appN, appRes, appTaken, got>>
vars == <<ring, MutexIQ, usbVars, appVars>>

Status == {"ok", "error", "closed"}   \* "closed" is USB_STATUS_CLOSED
UsbPc == {"idle", "lock", "load", "store", "unlock", "restart"}
AppPc == {"idle", "lock", "load", "store", "unlock"}
Op == {"GET_BYTE", "GET_BYTES"}

Init ==
    /\ bmIncomingQueue = [i \in 0 .. Size - 1 |-> Zero]   \* memset in Additive
    /\ iBytesIQ = 0 /\ iHeadIQ = 0 /\ iTailIQ = 0
    /\ iCounterOverflowIQ = 0
    /\ received = FALSE
    /\ MutexIQ = Free
    /\ presence = TRUE /\ plugged = TRUE
    /\ transfer \in SubmitResult      \* OPEN_UART starts the receiver
    /\ usbPc = "idle" /\ usbStatus = "ok" /\ usbChars = <<>> /\ usbN = 0
    /\ appPc = [t \in Thread |-> "idle"]
    /\ appOp = [t \in Thread |-> "GET_BYTE"]
    /\ appOut = [t \in Thread |-> 0]
    /\ appI = [t \in Thread |-> 0]
    /\ appN = [t \in Thread |-> 0]
    /\ appRes = [t \in Thread |-> Error]
    /\ appTaken = [t \in Thread |-> 0]
    /\ got = [t \in Thread |-> Zero]

-----------------------------------------------------------------------------
(* The thread of the USB stack.                                            *)

(***************************************************************************)
(* The device leaves the bus.  The stack then completes the transfers that *)
(* are pending with USB_STATUS_CLOSED, and calls Disconnected after that.  *)
(***************************************************************************)
Unplug == /\ plugged
          /\ plugged' = FALSE
          /\ UNCHANGED <<ring, MutexIQ, presence, transfer, usbPc, usbStatus,
                         usbChars, usbN, appVars>>

Disconnected ==
    /\ ~plugged /\ presence /\ ~transfer /\ usbPc = "idle"
    /\ presence' = FALSE
    /\ UNCHANGED <<ring, MutexIQ, plugged, transfer, usbPc, usbStatus,
                   usbChars, usbN, appVars>>

(* The bytes of packet p that are data: FTDI sends two status bytes first. *)
Payload(p) == IF IsFTDI /\ Len(p) >= 2 THEN SubSeq(p, 3, Len(p)) ELSE p

(* The transfer completes and the stack enters Callback_BulkInp.           *)
Callback_BulkInp(p, status) ==
    /\ transfer /\ usbPc = "idle"
    /\ IF plugged THEN status # "closed" ELSE status = "closed" /\ p = <<>>
    /\ transfer' = FALSE
    /\ usbStatus' = status
    /\ usbChars' = Payload(p)
    /\ usbPc' = IF Payload(p) # <<>> THEN "lock" ELSE "restart"
    /\ UNCHANGED <<ring, MutexIQ, presence, plugged, usbN, appVars>>

(* A mistake the properties must catch: the callback does not wait.        *)
UsbLock_NoWait == /\ usbPc = "lock"
                  /\ MutexIQ' = UsbThread
                  /\ usbPc' = "load"
                  /\ UNCHANGED <<ring, presence, plugged, transfer, usbStatus,
                                 usbChars, usbN, appVars>>

UsbLock == /\ usbPc = "lock" /\ MutexIQ = Free
           /\ MutexIQ' = UsbThread
           /\ usbPc' = "load"
           /\ UNCHANGED <<ring, presence, plugged, transfer, usbStatus,
                          usbChars, usbN, appVars>>

PutLoad == /\ usbPc = "load"
           /\ usbN' = iBytesIQ
           /\ usbPc' = "store"
           /\ UNCHANGED <<ring, MutexIQ, presence, plugged, transfer,
                          usbStatus, usbChars, appVars>>

(* A mistake: the index is compared with > instead of >=.                  *)
Wrap_OffByOne(i) == IF i + 1 > Size THEN 0 ELSE i + 1

(* An index of the ring after its increment.                               *)
Wrap(i) == IF i + 1 >= Size THEN 0 ELSE i + 1

PutChar_Incoming(byte) ==
    IF usbN < Size
    THEN /\ bmIncomingQueue' = [bmIncomingQueue EXCEPT ![iTailIQ] = byte]
         /\ iBytesIQ' = usbN + 1
         /\ iTailIQ' = Wrap(iTailIQ)
         /\ received' = TRUE
         /\ UNCHANGED <<iHeadIQ, iCounterOverflowIQ>>
    ELSE /\ iCounterOverflowIQ' = (iCounterOverflowIQ + 1) % CounterMod
         /\ UNCHANGED <<bmIncomingQueue, iBytesIQ, iHeadIQ, iTailIQ, received>>

PutStore == /\ usbPc = "store"
            /\ PutChar_Incoming(Head(usbChars))
            /\ usbChars' = Tail(usbChars)
            /\ usbPc' = IF Len(usbChars) > 1 THEN "load" ELSE "unlock"
            /\ UNCHANGED <<MutexIQ, presence, plugged, transfer, usbStatus,
                           usbN, appVars>>

UsbUnlock == /\ usbPc = "unlock"
             /\ MutexIQ' = Free
             /\ usbPc' = "restart"
             /\ usbN' = 0
             /\ UNCHANGED <<ring, presence, plugged, transfer, usbStatus,
                            usbChars, appVars>>

(* A mistake: a transfer that failed once is not submitted again.          *)
Restart_OnlyOk ==
    /\ usbPc = "restart"
    /\ transfer' = (usbStatus = "ok" /\ presence)
    /\ usbPc' = "idle"
    /\ usbStatus' = "ok"
    /\ UNCHANGED <<ring, MutexIQ, presence, plugged, usbChars, usbN, appVars>>

(***************************************************************************)
(* The receiver is submitted again unless the pipe was closed or the       *)
(* device is gone; what the submission returns is not looked at.           *)
(***************************************************************************)
Restart ==
    /\ usbPc = "restart"
    /\ \/ /\ usbStatus # "closed" /\ presence
          /\ transfer' \in SubmitResult
       \/ /\ usbStatus = "closed" \/ ~presence
          /\ transfer' = FALSE
    /\ usbPc' = "idle"
    /\ usbStatus' = "ok"
    /\ UNCHANGED <<ring, MutexIQ, presence, plugged, usbChars, usbN, appVars>>

UsbStep == UsbLock \/ PutLoad \/ PutStore \/ UsbUnlock \/ Restart

-----------------------------------------------------------------------------
(* Application threads.  A request enters with its arguments checked and   *)
(* the flags read; the mutex is taken afterwards.                          *)

(* A request on a device that is gone returns 0 and changes nothing.       *)
Refused(t) == appPc[t] = "idle" /\ ~presence /\ UNCHANGED vars

Enter(t, op, n) ==
    /\ appPc[t] = "idle" /\ presence
    /\ appPc' = [appPc EXCEPT ![t] = "lock"]
    /\ appOp' = [appOp EXCEPT ![t] = op]
    /\ appOut' = [appOut EXCEPT ![t] = n]
    /\ UNCHANGED <<ring, MutexIQ, usbVars, appI, appN, appRes, appTaken, got>>

ProcCmd_GET_BYTE(t) == Enter(t, "GET_BYTE", 1)
ProcCmd_GET_BYTES(t) == \E n \in OutSize : Enter(t, "GET_BYTES", n)

(* GET_BYTE asks for EVENT_RECEIVED first, GET_BYTES for its loop bound.   *)
MayGet(t) == IF appOp[t] = "GET_BYTE" THEN received ELSE appOut[t] > 0

(* A mistake: a request that finds nothing returns with the mutex held.    *)
AppLock_EarlyReturn(t) ==
    /\ appPc[t] = "lock" /\ MutexIQ = Free
    /\ MutexIQ' = t
    /\ appPc' = [appPc EXCEPT ![t] = IF MayGet(t) THEN "load" ELSE "idle"]
    /\ UNCHANGED <<ring, usbVars, appOp, appOut, appI, appN, appRes,
                   appTaken, got>>

AppLock(t) ==
    /\ appPc[t] = "lock" /\ MutexIQ = Free
    /\ MutexIQ' = t
    /\ appPc' = [appPc EXCEPT ![t] = IF MayGet(t) THEN "load" ELSE "unlock"]
    /\ UNCHANGED <<ring, usbVars, appOp, appOut, appI, appN, appRes,
                   appTaken, got>>

GetLoad(t) ==
    /\ appPc[t] = "load"
    /\ appN' = [appN EXCEPT ![t] = iBytesIQ]
    /\ appPc' = [appPc EXCEPT ![t] = "store"]
    /\ UNCHANGED <<ring, MutexIQ, usbVars, appOp, appOut, appI, appRes,
                   appTaken, got>>

(* A mistake: EVENT_RECEIVED is never cleared.                             *)
GetChar_KeepsEvent(t) ==
    IF appN[t] # 0
    THEN /\ got' = [got EXCEPT ![t] = bmIncomingQueue[iHeadIQ]]
         /\ iBytesIQ' = appN[t] - 1
         /\ iHeadIQ' = Wrap(iHeadIQ)
         /\ appTaken' = [appTaken EXCEPT ![t] = @ + 1]
         /\ UNCHANGED <<bmIncomingQueue, iTailIQ, iCounterOverflowIQ, received>>
    ELSE UNCHANGED <<ring, got, appTaken>>

GetChar_Incoming(t) ==
    IF appN[t] # 0
    THEN /\ got' = [got EXCEPT ![t] = bmIncomingQueue[iHeadIQ]]
         /\ iBytesIQ' = appN[t] - 1
         /\ iHeadIQ' = Wrap(iHeadIQ)
         /\ received' = IF appN[t] = 1 THEN FALSE ELSE received
         /\ appTaken' = [appTaken EXCEPT ![t] = @ + 1]
         /\ UNCHANGED <<bmIncomingQueue, iTailIQ, iCounterOverflowIQ>>
    ELSE UNCHANGED <<ring, got, appTaken>>

(* What GetChar_Incoming returns.                                          *)
GetResult(t) == IF appN[t] # 0 THEN True ELSE False

(* The loop of GET_BYTES stops when GetChar_Incoming returns -1.           *)
Break(t) == GetResult(t) = -1

ByteDone(t) ==
    /\ appOp[t] = "GET_BYTE"
    /\ appRes' = [appRes EXCEPT ![t] = GetResult(t)]
    /\ appPc' = [appPc EXCEPT ![t] = "unlock"]
    /\ UNCHANGED appI

BytesDone(t) ==
    /\ appOp[t] = "GET_BYTES"
    /\ appI' = [appI EXCEPT ![t] = IF Break(t) THEN @ ELSE @ + 1]
    /\ appRes' = [appRes EXCEPT ![t] = appI'[t]]
    /\ appPc' = [appPc EXCEPT ![t] =
                   IF Break(t) \/ appI'[t] = appOut[t] THEN "unlock" ELSE "load"]

GetStore(t) ==
    /\ appPc[t] = "store"
    /\ GetChar_Incoming(t)
    /\ ByteDone(t) \/ BytesDone(t)
    /\ UNCHANGED <<MutexIQ, usbVars, appOp, appOut, appN>>

(* The request returns: its locals are gone.                               *)
AppUnlock(t) ==
    /\ appPc[t] = "unlock"
    /\ MutexIQ' = Free
    /\ appPc' = [appPc EXCEPT ![t] = "idle"]
    /\ appOp' = [appOp EXCEPT ![t] = "GET_BYTE"]
    /\ appOut' = [appOut EXCEPT ![t] = 0]
    /\ appI' = [appI EXCEPT ![t] = 0]
    /\ appN' = [appN EXCEPT ![t] = 0]
    /\ appRes' = [appRes EXCEPT ![t] = Error]
    /\ appTaken' = [appTaken EXCEPT ![t] = 0]
    /\ UNCHANGED <<ring, usbVars, got>>

AppStep(t) == AppLock(t) \/ GetLoad(t) \/ GetStore(t) \/ AppUnlock(t)

-----------------------------------------------------------------------------
Next == \/ Unplug \/ Disconnected
        \/ \E p \in Packet \union {<<>>}, s \in Status : Callback_BulkInp(p, s)
        \/ UsbStep
        \/ \E t \in Thread : \/ Refused(t)
                             \/ ProcCmd_GET_BYTE(t)
                             \/ ProcCmd_GET_BYTES(t)
                             \/ AppStep(t)

Spec == Init /\ [][Next]_vars

(***************************************************************************)
(* Every thread inside a request or a callback is scheduled again; the     *)
(* kernel's mutex keeps its waiters in a queue, so one that waits for it   *)
(* is not passed over for ever.                                            *)
(***************************************************************************)
Fairness == /\ WF_vars(PutLoad \/ PutStore \/ UsbUnlock \/ Restart)
            /\ SF_vars(UsbLock)
            /\ \A t \in Thread :
                  /\ WF_vars(GetLoad(t) \/ GetStore(t) \/ AppUnlock(t))
                  /\ SF_vars(AppLock(t))

FairSpec == Spec /\ Fairness
-----------------------------------------------------------------------------
(* Properties.                                                             *)

(* Type correctness: every field holds a value of its C type, the indices  *)
(* stay inside bmIncomingQueue.                                            *)
TypeOK ==
    /\ bmIncomingQueue \in [0 .. Size - 1 -> Byte]
    /\ iBytesIQ \in 0 .. Size
    /\ iHeadIQ \in 0 .. Size - 1 /\ iTailIQ \in 0 .. Size - 1
    /\ iCounterOverflowIQ \in 0 .. CounterMod - 1
    /\ received \in BOOLEAN
    /\ MutexIQ \in Thread \union {UsbThread, Free}
    /\ presence \in BOOLEAN /\ plugged \in BOOLEAN /\ transfer \in BOOLEAN
    /\ usbPc \in UsbPc /\ usbStatus \in Status
    /\ usbChars \in Seq(Byte) /\ usbN \in 0 .. Size
    /\ appPc \in [Thread -> AppPc] /\ appOp \in [Thread -> Op]
    /\ appOut \in [Thread -> Nat] /\ appI \in [Thread -> Nat]
    /\ appN \in [Thread -> 0 .. Size]
    /\ appRes \in [Thread -> Int] /\ appTaken \in [Thread -> Nat]
    /\ got \in [Thread -> Byte]

(* The i-th oldest byte of the ring is in slot Slot(i), i from 0.          *)
Slot(i) == IF iHeadIQ + i < Size THEN iHeadIQ + i ELSE iHeadIQ + i - Size

(* PutChar_Incoming and GetChar_Incoming keep three views of the fill      *)
(* level: the counter iBytesIQ, the distance from head to tail, and the    *)
(* event bit that applications poll.  They agree after every step of every *)
(* thread, so GET_BYTE never reports "nothing" while a byte is queued.     *)
RingConsistent == /\ iTailIQ = Slot(iBytesIQ)
                  /\ received <=> iBytesIQ > 0

(* Bytes between the two ends, the oldest first.                           *)
Contents == [i \in 1 .. iBytesIQ |-> bmIncomingQueue[Slot(i - 1)]]

F == INSTANCE Fifo WITH q <- Contents, lost <- iCounterOverflowIQ

(* The receive path implements the bounded queue of Fifo: whatever the     *)
(* interleaving of the callback with the requests of several threads, no   *)
(* byte kept by PutChar_Incoming is lost, duplicated, reordered or         *)
(* overwritten, and GetChar_Incoming gives each one to one thread only.    *)
FifoSpec == F!Spec

(* Reception never stops while the device is plugged: outside the callback *)
(* a transfer is always submitted (if submissions succeed), so that the    *)
(* next byte that arrives has somewhere to go.                             *)
ReceiverArmed == plugged /\ usbPc = "idle" => transfer

(* Callback_BulkInp always returns to the USB stack, whatever the          *)
(* application threads do with MutexIQ: the stack runs every callback of   *)
(* every device in this one thread.                                        *)
CallbackReturns == usbPc # "idle" ~> usbPc = "idle"
=============================================================================
