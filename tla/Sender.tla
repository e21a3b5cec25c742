------------------------------- MODULE Sender -------------------------------
(***************************************************************************)
(* The send path of one open device (usbuart.c): SEND_PACKET, run by       *)
(* application threads, copies a packet into SenderStruct and submits its  *)
(* first part; Callback_BulkOut, run by the thread of the USB stack,       *)
(* submits the next part or marks the buffer free.  Nothing but the value  *)
(* of wBytes keeps the two apart, so every store to a shared field is a    *)
(* step of its own, in the order of the code.                              *)
(***************************************************************************)
EXTENDS Integers, Sequences

CONSTANTS Thread,       \* application threads that hold the handle
          Packet,       \* packets they send
          BufSize,      \* sizeof(SenderStruct.bmData)
          MaxTransfer,  \* USBMAX_PACKET_SIZE_64
          SubmitResult  \* what coreUSBNormalTransferAsync may return

Data == UNION {{p[i] : i \in DOMAIN p} : p \in Packet} \union {0}

ASSUME SenderAssumption == /\ MaxTransfer \in Nat \ {0}
                           /\ BufSize \in Nat \ {0}
                           /\ Packet \subseteq Seq(Data)
                           /\ SubmitResult \subseteq BOOLEAN

VARIABLES
    wBytes, wActualeBytes, bmData,  \* SenderStruct
    sendFree,    \* bit EVENT_SEND_IS_FREE of bEventsUART
    presence,    \* PRESENCE_BIT0 of iFlags
    plugged,     \* the device is on the bus (USB stack)
    refused,     \* a submission was refused: nobody is told of it
    transfers,   \* bulk-out transfers submitted and not completed, in order
    taken,       \* the bytes the device took from the last one completed
    usbPc,       \* where Callback_BulkOut is
    usbLen,      \* its argument length
    appPc,       \* where each thread is in SEND_PACKET
    appPacket,   \* the packet of its request
    appRes       \* result of its last request

sender == <<wBytes, wActualeBytes, bmData, sendFree>>
usbVars == <<presence, plugged, refused, transfers, taken, usbPc, usbLen>>
appVars == <<appPc, appPacket, appRes>>
vars == <<sender, usbVars, appVars>>

UsbPc == {"idle", "add", "test", "bytes", "actual", "event"}
AppPc == {"idle", "bytes", "copy", "actual", "event", "submit"}

Init == /\ wBytes = 0 /\ wActualeBytes = 0
        /\ bmData = [i \in 0 .. BufSize - 1 |-> 0]     \* memset in Additive
        /\ sendFree = TRUE
        /\ presence = TRUE /\ plugged = TRUE /\ refused = FALSE
        /\ transfers = <<>> /\ taken = <<>>
        /\ usbPc = "idle" /\ usbLen = 0
        /\ appPc = [t \in Thread |-> "idle"]
        /\ appPacket = [t \in Thread |-> <<>>]
        /\ appRes = [t \in Thread |-> 0]

(* A part of the packet handed to the stack: n bytes of bmData from first. *)
Part(first, n) ==
    [first |-> first, length |-> IF n > MaxTransfer THEN MaxTransfer ELSE n]

(***************************************************************************)
(* usb_bulk_msg(..., NO_WAIT, Callback_BulkOut): the stack queues the      *)
(* transfer, or refuses it; it refuses every one once the device has left. *)
(***************************************************************************)
Submit(part) == \/ /\ TRUE \in SubmitResult /\ plugged
                   /\ transfers' = Append(transfers, part)
                   /\ UNCHANGED refused
                \/ /\ FALSE \in SubmitResult \/ ~plugged
                   /\ refused' = TRUE
                   /\ UNCHANGED transfers

-----------------------------------------------------------------------------
(* The thread of the USB stack.                                            *)

Unplug == /\ plugged
          /\ plugged' = FALSE
          /\ UNCHANGED <<sender, presence, refused, transfers, taken, usbPc,
                         usbLen, appVars>>

Disconnected == /\ ~plugged /\ presence /\ transfers = <<>> /\ usbPc = "idle"
                /\ presence' = FALSE
                /\ UNCHANGED <<sender, plugged, refused, transfers, taken,
                               usbPc, usbLen, appVars>>

(***************************************************************************)
(* The oldest transfer completes and the stack enters the callback: with   *)
(* all its bytes taken, with fewer when the transfer failed, with none     *)
(* when it was closed because the device left.                             *)
(***************************************************************************)
Complete(n) ==
    /\ usbPc = "idle" /\ transfers # <<>>
    /\ n \in 0 .. Head(transfers).length
    /\ ~plugged => n = 0
    /\ taken' = [i \in 1 .. n |-> bmData[Head(transfers).first + i - 1]]
    /\ transfers' = Tail(transfers)
    /\ usbLen' = n
    /\ usbPc' = "add"
    /\ UNCHANGED <<sender, presence, plugged, refused, appVars>>

(* A mistake the properties must catch: the length replaces the sum.       *)
AddActual_Assign == /\ usbPc = "add"
                    /\ wActualeBytes' = usbLen
                    /\ usbLen' = 0
                    /\ usbPc' = "test"
                    /\ UNCHANGED <<wBytes, bmData, sendFree, presence,
                                   plugged, refused, transfers, taken, appVars>>

AddActual == /\ usbPc = "add"
             /\ wActualeBytes' = wActualeBytes + usbLen
             /\ usbLen' = 0
             /\ usbPc' = "test"
             /\ UNCHANGED <<wBytes, bmData, sendFree, presence, plugged,
                            refused, transfers, taken, appVars>>

(* A mistake: the next part starts at the beginning of the buffer again.   *)
SubmitRest_FromStart ==
    /\ usbPc = "test" /\ wActualeBytes < wBytes
    /\ Submit(Part(0, wBytes - wActualeBytes))
    /\ usbPc' = "idle"
    /\ UNCHANGED <<sender, presence, plugged, taken, usbLen, appVars>>

(* Bytes remain: the callback submits the next part of the packet.         *)
SubmitRest == /\ usbPc = "test" /\ wActualeBytes < wBytes
              /\ Submit(Part(wActualeBytes, wBytes - wActualeBytes))
              /\ usbPc' = "idle"
              /\ UNCHANGED <<sender, presence, plugged, taken, usbLen,
                             appVars>>

(* The packet is finished: the buffer is marked free, field by field.      *)
PacketDone == /\ usbPc = "test" /\ ~(wActualeBytes < wBytes)
              /\ usbPc' = "bytes"
              /\ UNCHANGED <<sender, presence, plugged, refused, transfers,
                             taken, usbLen, appVars>>

FreeBytes == /\ usbPc = "bytes"
             /\ wBytes' = 0
             /\ usbPc' = "actual"
             /\ UNCHANGED <<wActualeBytes, bmData, sendFree, presence,
                            plugged, refused, transfers, taken, usbLen, appVars>>

FreeActual == /\ usbPc = "actual"
              /\ wActualeBytes' = 0
              /\ usbPc' = "event"
              /\ UNCHANGED <<wBytes, bmData, sendFree, presence, plugged,
                             refused, transfers, taken, usbLen, appVars>>

FreeEvent == /\ usbPc = "event"
             /\ sendFree' = TRUE
             /\ usbPc' = "idle"
             /\ UNCHANGED <<wBytes, wActualeBytes, bmData, presence, plugged,
                            refused, transfers, taken, usbLen, appVars>>

Callback_BulkOut == \/ AddActual \/ SubmitRest \/ PacketDone
                    \/ FreeBytes \/ FreeActual \/ FreeEvent

-----------------------------------------------------------------------------
(* SEND_PACKET.                                                            *)

Goto(t, pc) == appPc' = [appPc EXCEPT ![t] = pc]

(* The request is refused: the device is gone, the packet is too long or   *)
(* the buffer is in use.                                                   *)
Refuse(t, p) ==
    /\ appPc[t] = "idle"
    /\ ~presence \/ Len(p) > BufSize - 1 \/ wBytes # 0
    /\ appRes' = [appRes EXCEPT ![t] = 0]
    /\ UNCHANGED <<sender, usbVars, appPc, appPacket>>

(* A mistake: the test of wBytes is left out.                              *)
Check_InUse(t, p) ==
    /\ appPc[t] = "idle"
    /\ presence /\ Len(p) <= BufSize - 1
    /\ appPacket' = [appPacket EXCEPT ![t] = p]
    /\ Goto(t, "bytes")
    /\ UNCHANGED <<sender, usbVars, appRes>>

Check(t, p) ==
    /\ appPc[t] = "idle"
    /\ presence /\ Len(p) <= BufSize - 1 /\ wBytes = 0
    /\ appPacket' = [appPacket EXCEPT ![t] = p]
    /\ Goto(t, "bytes")
    /\ UNCHANGED <<sender, usbVars, appRes>>

SetBytes(t) == /\ appPc[t] = "bytes"
               /\ wBytes' = Len(appPacket[t])
               /\ Goto(t, "copy")
               /\ UNCHANGED <<wActualeBytes, bmData, sendFree, usbVars,
                              appPacket, appRes>>

Copy(t) == /\ appPc[t] = "copy"
           /\ bmData' = [i \in 0 .. BufSize - 1 |->
                           IF i < wBytes /\ i < Len(appPacket[t])
                           THEN appPacket[t][i + 1] ELSE bmData[i]]
           /\ Goto(t, "actual")
           /\ UNCHANGED <<wBytes, wActualeBytes, sendFree, usbVars, appPacket,
                          appRes>>

ClearActual(t) == /\ appPc[t] = "actual"
                  /\ wActualeBytes' = 0
                  /\ Goto(t, "event")
                  /\ UNCHANGED <<wBytes, bmData, sendFree, usbVars, appPacket,
                                 appRes>>

ClearEvent(t) == /\ appPc[t] = "event"
                 /\ sendFree' = FALSE
                 /\ Goto(t, "submit")
                 /\ UNCHANGED <<wBytes, wActualeBytes, bmData, usbVars,
                                appPacket, appRes>>

(* The first part is submitted; the request succeeds even if that failed.  *)
SubmitFirst(t) ==
    /\ appPc[t] = "submit"
    /\ Submit(Part(0, Len(appPacket[t])))
    /\ appRes' = [appRes EXCEPT ![t] = -1]
    /\ appPacket' = [appPacket EXCEPT ![t] = <<>>]
    /\ Goto(t, "idle")
    /\ UNCHANGED <<sender, presence, plugged, taken, usbPc, usbLen>>

ProcCmd_SEND_PACKET(t) == \/ SetBytes(t) \/ Copy(t) \/ ClearActual(t)
                          \/ ClearEvent(t) \/ SubmitFirst(t)

-----------------------------------------------------------------------------
Next == \/ Unplug \/ Disconnected
        \/ \E n \in 0 .. MaxTransfer : Complete(n)
        \/ Callback_BulkOut
        \/ \E t \in Thread : \/ \E p \in Packet : Refuse(t, p) \/ Check(t, p)
                             \/ ProcCmd_SEND_PACKET(t)

Spec == Init /\ [][Next]_vars

(***************************************************************************)
(* Threads inside the driver keep running, the stack completes what it has *)
(* queued, and a device that stays on the bus takes bytes again and again. *)
(***************************************************************************)
Fairness == /\ WF_vars(Callback_BulkOut)
            /\ WF_vars(\E n \in 0 .. MaxTransfer : Complete(n))
            /\ SF_vars(\E n \in 1 .. MaxTransfer : Complete(n))
            /\ \A t \in Thread : WF_vars(ProcCmd_SEND_PACKET(t))

FairSpec == Spec /\ Fairness
-----------------------------------------------------------------------------
(* Properties.                                                             *)

(* Type correctness: the counters stay within the buffer, wBytes within    *)
(* the length GET_MAX_PACKET_LENGTH reports.                               *)
TypeOK == /\ wBytes \in 0 .. BufSize - 1
          /\ wActualeBytes \in 0 .. BufSize - 1
          /\ bmData \in [0 .. BufSize - 1 -> Data]
          /\ sendFree \in BOOLEAN
          /\ presence \in BOOLEAN /\ plugged \in BOOLEAN /\ refused \in BOOLEAN
          /\ transfers \in Seq([first : Nat, length : 0 .. MaxTransfer])
          /\ taken \in Seq(Data)
          /\ usbPc \in UsbPc /\ usbLen \in 0 .. MaxTransfer
          /\ appPc \in [Thread -> AppPc]
          /\ appPacket \in [Thread -> Seq(Data)]
          /\ appRes \in [Thread -> {0, -1}]

Filling == \E t \in Thread : appPc[t] # "idle"

(* Bytes of the accepted packet the device has not taken: what the         *)
(* callback in progress has not added yet counts as taken.                 *)
Rest == IF Filling
        THEN <<>>
        ELSE [i \in 1 .. wBytes - wActualeBytes - usbLen |->
                bmData[wActualeBytes + usbLen + i - 1]]

L == INSTANCE PacketLink WITH rest <- Rest

(* The send path implements PacketLink: with one sending thread, packets   *)
(* split into several transfers, transfers that fail half way and are      *)
(* repeated by the callback, the device gets every byte of every accepted  *)
(* packet once and in order, and SEND_PACKET accepts no packet while       *)
(* bytes of the one before remain.                                         *)
LinkSpec == L!Spec

(* The one buffer has one transfer at a time: nothing is submitted while   *)
(* another transfer or its callback is under way.                          *)
OneTransfer == Len(transfers) <= 1 /\ (transfers # <<>> =>
                                          usbPc \in {"idle", "actual", "event"})

(* Every transfer lies inside the packet it was made from: the device is   *)
(* never given bytes of bmData beyond wBytes.                              *)
InsidePacket == \A k \in DOMAIN transfers :
                   transfers[k].first + transfers[k].length <= wBytes

(* At rest, a free buffer is announced: EVENT_SEND_IS_FREE is set whenever *)
(* nothing is being sent, so a program that waits for it does not wait for *)
(* ever.                                                                   *)
FreeAnnounced == ~Filling /\ usbPc = "idle" /\ wBytes = 0 => sendFree

(* A packet that is accepted is finished and its buffer freed, as long as  *)
(* the device stays and the stack refuses no transfer.                     *)
BufferFreed == wBytes # 0 ~> wBytes = 0 \/ ~plugged \/ refused

(* The transfers under way, in one: types, and the two above.              *)
TransferSound == TypeOK /\ OneTransfer /\ InsidePacket
=============================================================================
