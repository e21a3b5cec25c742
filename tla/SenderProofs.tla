---------------------------- MODULE SenderProofs ----------------------------
(***************************************************************************)
(* Proofs about Sender for every buffer, every size of transfer and any    *)
(* packets that are not empty, with one sending thread: SEND_PACKET tests  *)
(* wBytes and sets it in two steps, so nothing holds for two.  On them     *)
(* rest the proofs about LineStatus at the end, for any list of modem      *)
(* signals: the request of a second thread would clear an event that the   *)
(* first has not seen.                                                     *)
(***************************************************************************)
EXTENDS LineStatus, SequenceTheorems, TLAPS

USE SenderAssumption

OneSender == (\A t, u \in Thread : t = u) /\ <<>> \notin Packet

(* A thread in SEND_PACKET has the buffer to itself, but for the last two  *)
(* stores of a callback that freed it.                                     *)
FillInv == \A t \in Thread : appPc[t] # "idle" =>
    /\ transfers = <<>> /\ usbPc \in {"idle", "actual", "event"}
    /\ appPacket[t] \in Packet /\ Len(appPacket[t]) \in 1 .. BufSize - 1
    /\ wBytes = IF appPc[t] = "bytes" THEN 0 ELSE Len(appPacket[t])
    /\ appPc[t] \in {"event", "submit"} => wActualeBytes = 0
    /\ appPc[t] \in {"actual", "event", "submit"} =>
          \A i \in 1 .. wBytes : bmData[i - 1] = appPacket[t][i]

(* The callback works on a packet that is not finished; what the device    *)
(* took is part of it.                                                     *)
CallbackInv ==
    /\ usbPc \in {"add", "test", "bytes"} => ~Filling /\ transfers = <<>> /\ wBytes > 0
    /\ usbPc = "add" => wActualeBytes + usbLen <= wBytes
    /\ usbPc # "add" => usbLen = 0
    /\ usbPc = "test" => wActualeBytes <= wBytes
    /\ usbPc = "bytes" => wActualeBytes = wBytes

(* At rest, or with the end of a callback still to come, a packet that was *)
(* accepted is counted from its first byte the device has not taken.       *)
RestInv == ~Filling /\ wBytes > 0 =>
    /\ usbPc = "idle" => wActualeBytes <= wBytes
    /\ usbPc \in {"actual", "event"} => wActualeBytes = 0

(* There is one transfer at most, of the bytes that come next.             *)
TransferInv == transfers # <<>> =>
    /\ ~Filling /\ wBytes > 0 /\ wActualeBytes <= wBytes
    /\ usbPc \in {"idle", "actual", "event"}
    /\ transfers = <<Part(wActualeBytes, wBytes - wActualeBytes)>>

SendInv == TypeOK /\ FillInv /\ CallbackInv /\ RestInv /\ TransferInv

TransferSet == [first : Nat, length : 0 .. MaxTransfer]

LEMMA PartProperties ==
  ASSUME NEW first \in Nat, NEW n \in Nat
  PROVE  /\ Part(first, n) \in TransferSet
         /\ Part(first, n).first = first
         /\ Part(first, n).length \in 0 .. n
  BY DEF Part, TransferSet

LEMMA OnePart ==
  ASSUME NEW S, NEW part \in S
  PROVE  /\ Append(<<>>, part) = <<part>> /\ <<part>> \in Seq(S) /\ <<part>> # <<>>
         /\ Head(<<part>>) = part /\ Tail(<<part>>) = <<>> /\ Len(<<part>>) = 1
         /\ \A k \in DOMAIN <<part>> : <<part>>[k] = part
  OBVIOUS

(* Both outcomes of a submission on a buffer without a transfer.           *)
LEMMA SubmitCases ==
  ASSUME NEW part \in TransferSet, Submit(part), transfers = <<>>, TypeOK
  PROVE  /\ refused' \in BOOLEAN
         /\ transfers' = <<>> \/ transfers' = <<part>>
         /\ transfers' \in Seq(TransferSet)
<1>1. refused' \in BOOLEAN /\ (transfers' = transfers \/ transfers' = Append(transfers, part))
  BY Zenon DEF Submit, TypeOK
<1>2. Append(transfers, part) = <<part>> /\ <<part>> \in Seq(TransferSet)
  BY OnePart
<1>3. transfers \in Seq(TransferSet)
  BY DEF TypeOK, TransferSet
<1> QED
  BY <1>1, <1>2, <1>3, Zenon

LEMMA SendInit == Init => SendInv
<1> SUFFICES ASSUME Init PROVE SendInv
  OBVIOUS
<1>1. /\ sendFree \in BOOLEAN /\ presence \in BOOLEAN /\ plugged \in BOOLEAN
      /\ refused \in BOOLEAN
  BY Zenon DEF Init
<1>2. /\ wBytes \in 0 .. BufSize - 1 /\ wActualeBytes \in 0 .. BufSize - 1
      /\ bmData \in [0 .. BufSize - 1 -> Data]
      /\ usbPc \in UsbPc /\ usbLen \in 0 .. MaxTransfer
      /\ appPc \in [Thread -> AppPc] /\ appRes \in [Thread -> {0, -1}]
  BY DEF Init, UsbPc, AppPc, Data
<1>3. /\ transfers \in Seq([first : Nat, length : 0 .. MaxTransfer]) /\ taken \in Seq(Data)
      /\ appPacket \in [Thread -> Seq(Data)]
  BY EmptySeq DEF Init
<1>4. TypeOK
  BY <1>1, <1>2, <1>3 DEF TypeOK
<1> QED
  BY <1>4 DEF Init, SendInv, FillInv, CallbackInv, RestInv, TransferInv

-----------------------------------------------------------------------------
(* The steps of the USB thread.                                            *)

LEMMA CompleteStep ==
  ASSUME SendInv, NEW n \in 0 .. MaxTransfer, Complete(n)
  PROVE  SendInv'
<1> DEFINE part == Part(wActualeBytes, wBytes - wActualeBytes)
<1>1. /\ ~Filling /\ wBytes > 0 /\ wActualeBytes <= wBytes /\ usbLen = 0
      /\ transfers = <<part>>
  BY DEF SendInv, TransferInv, CallbackInv, Complete, TypeOK
<1>2. /\ part \in TransferSet /\ part.first = wActualeBytes
      /\ part.length \in 0 .. wBytes - wActualeBytes
  BY <1>1, PartProperties DEF SendInv, TypeOK
<1>3. Head(transfers) = part /\ Tail(transfers) = <<>>
  BY <1>1, <1>2, OnePart
<1>n. wBytes \in Nat /\ wActualeBytes \in Nat
  BY DEF SendInv, TypeOK
<1> HIDE DEF part
<1>4. /\ transfers' = <<>> /\ n \in 0 .. wBytes - wActualeBytes
      /\ taken' = [i \in 1 .. n |-> bmData[wActualeBytes + i - 1]]
      /\ usbLen' = n /\ usbPc' = "add"
      /\ UNCHANGED <<wBytes, wActualeBytes, bmData, sendFree, presence, plugged, refused,
                     appPc, appPacket, appRes>>
  <2>1. n \in 0 .. wBytes - wActualeBytes
    BY <1>1, <1>2, <1>3, <1>n DEF Complete
  <2> QED
    BY <1>2, <1>3, <2>1 DEF Complete, sender, appVars
<1>5. taken' \in Seq(Data)
  BY <1>1, <1>4 DEF SendInv, TypeOK
<1>6. TypeOK'
  BY <1>4, <1>5, EmptySeq DEF SendInv, TypeOK, UsbPc
<1>7. ~Filling' /\ FillInv'
  BY <1>1, <1>4 DEF Filling, FillInv
<1> QED
  BY <1>1, <1>4, <1>6, <1>7 DEF SendInv, CallbackInv, RestInv, TransferInv, TypeOK

LEMMA UsbSteps ==
  ASSUME SendInv, Unplug \/ Disconnected \/ Callback_BulkOut
  PROVE  SendInv'
<1>t. TypeOK
  BY DEF SendInv
<1>b. /\ wBytes \in 0 .. BufSize - 1 /\ wActualeBytes \in 0 .. BufSize - 1
      /\ usbLen \in 0 .. MaxTransfer
  BY <1>t DEF TypeOK
<1>1. CASE Unplug \/ Disconnected
  <2>1. /\ UNCHANGED <<wBytes, wActualeBytes, bmData, sendFree, refused, transfers, taken,
                       usbPc, usbLen, appPc, appPacket, appRes>>
        /\ presence' \in BOOLEAN /\ plugged' \in BOOLEAN
    BY <1>1, <1>t, Zenon DEF Unplug, Disconnected, TypeOK, sender, appVars
  <2>2. TypeOK'
    BY <1>t, <2>1 DEF TypeOK
  <2> QED
    BY <2>1, <2>2 DEF SendInv, FillInv, Filling, CallbackInv, RestInv, TransferInv, Part
<1>2. CASE AddActual
  <2>1. /\ wActualeBytes' = wActualeBytes + usbLen /\ usbLen' = 0
        /\ usbPc = "add" /\ usbPc' = "test"
        /\ UNCHANGED <<wBytes, bmData, sendFree, presence, plugged, refused, transfers,
                       taken, appPc, appPacket, appRes>>
    BY <1>2 DEF AddActual, appVars
  <2>2. ~Filling /\ transfers = <<>> /\ wBytes > 0 /\ wActualeBytes + usbLen <= wBytes
    BY <2>1 DEF SendInv, CallbackInv
  <2>3. TypeOK'
    BY <1>t, <1>b, <2>1, <2>2 DEF TypeOK, UsbPc
  <2>4. ~Filling' /\ FillInv'
    BY <2>1, <2>2 DEF Filling, FillInv
  <2> QED
    BY <2>1, <2>2, <2>3, <2>4 DEF SendInv, CallbackInv, RestInv, TransferInv
<1>3. CASE SubmitRest
  <2> DEFINE part == Part(wActualeBytes, wBytes - wActualeBytes)
  <2>1. /\ usbPc = "test" /\ usbPc' = "idle" /\ wActualeBytes < wBytes /\ Submit(part)
        /\ UNCHANGED <<wBytes, wActualeBytes, bmData, sendFree, presence, plugged, taken,
                       usbLen, appPc, appPacket, appRes>>
    BY <1>3 DEF SubmitRest, sender, appVars
  <2>2. ~Filling /\ transfers = <<>> /\ wBytes > 0 /\ usbLen = 0
    BY <2>1 DEF SendInv, CallbackInv
  <2>3. part \in TransferSet
    BY <1>b, <2>1, PartProperties
  <2>4. /\ refused' \in BOOLEAN /\ transfers' \in Seq(TransferSet)
        /\ transfers' = <<>> \/ transfers' = <<part>>
    BY <1>t, <2>1, <2>2, <2>3, SubmitCases
  <2>5. TypeOK'
    BY <1>t, <2>1, <2>4 DEF TypeOK, UsbPc, TransferSet
  <2>6. ~Filling' /\ FillInv'
    BY <2>1, <2>2 DEF Filling, FillInv
  <2>7. part' = part
    BY <2>1 DEF Part
  <2>8. TransferInv'
    BY <1>b, <2>1, <2>2, <2>4, <2>6, <2>7 DEF TransferInv
  <2> QED
    BY <1>b, <2>1, <2>2, <2>5, <2>6, <2>8 DEF SendInv, CallbackInv, RestInv
<1>4. CASE PacketDone \/ FreeBytes
  <2>1. \/ usbPc = "test" /\ usbPc' = "bytes" /\ ~(wActualeBytes < wBytes) /\ wBytes' = wBytes
        \/ usbPc = "bytes" /\ usbPc' = "actual" /\ wBytes' = 0
    BY <1>4 DEF PacketDone, FreeBytes, sender
  <2>2. UNCHANGED <<wActualeBytes, bmData, sendFree, presence, plugged, refused, transfers,
                    taken, usbLen, appPc, appPacket, appRes>>
    BY <1>4 DEF PacketDone, FreeBytes, sender, appVars
  <2>3. ~Filling /\ transfers = <<>> /\ wBytes > 0 /\ usbLen = 0 /\ wActualeBytes <= wBytes
    BY <1>b, <2>1 DEF SendInv, CallbackInv
  <2>4. TypeOK'
    BY <1>t, <1>b, <2>1, <2>2 DEF TypeOK, UsbPc
  <2>5. ~Filling' /\ FillInv'
    BY <2>2, <2>3 DEF Filling, FillInv
  <2> QED
    BY <1>b, <2>1, <2>2, <2>3, <2>4, <2>5 DEF SendInv, CallbackInv, RestInv, TransferInv
<1>5. CASE FreeActual
  <2>1. /\ usbPc = "actual" /\ usbPc' = "event" /\ wActualeBytes' = 0
        /\ UNCHANGED <<wBytes, bmData, sendFree, presence, plugged, refused, transfers,
                       taken, usbLen, appPc, appPacket, appRes>>
    BY <1>5 DEF FreeActual, appVars
  <2>2. TypeOK'
    BY <1>t, <2>1 DEF TypeOK, UsbPc
  <2>3. (Filling' <=> Filling) /\ FillInv' /\ RestInv' /\ CallbackInv'
    BY <1>b, <2>1 DEF SendInv, FillInv, Filling, RestInv, CallbackInv
  <2>4. TransferInv'
    <3>1. CASE transfers = <<>>
      BY <2>1, <3>1 DEF TransferInv
    <3>2. CASE transfers # <<>>
      <4>1. wActualeBytes = 0
        BY <2>1, <3>2 DEF SendInv, TransferInv, RestInv
      <4> QED
        BY <2>1, <2>3, <3>2, <4>1 DEF SendInv, TransferInv, Part
    <3> QED
      BY <3>1, <3>2
  <2> QED
    BY <2>2, <2>3, <2>4 DEF SendInv
<1>6. CASE FreeEvent
  <2>1. /\ usbPc = "event" /\ usbPc' = "idle" /\ sendFree' \in BOOLEAN
        /\ UNCHANGED <<wBytes, wActualeBytes, bmData, presence, plugged, refused, transfers,
                       taken, usbLen, appPc, appPacket, appRes>>
    BY <1>6, Zenon DEF FreeEvent, appVars
  <2>2. TypeOK'
    BY <1>t, <2>1 DEF TypeOK, UsbPc
  <2>3. (Filling' <=> Filling) /\ FillInv' /\ RestInv' /\ CallbackInv'
    BY <1>b, <2>1 DEF SendInv, FillInv, Filling, RestInv, CallbackInv
  <2>4. TransferInv'
    BY <2>1, <2>3 DEF SendInv, TransferInv, Part
  <2> QED
    BY <2>2, <2>3, <2>4 DEF SendInv
<1> QED
  BY <1>1, <1>2, <1>3, <1>4, <1>5, <1>6 DEF Callback_BulkOut

-----------------------------------------------------------------------------
(* The steps of SEND_PACKET: the thread that sends is the only one, so its *)
(* place says whether the buffer is being filled.                          *)

LEMMA FillingIs ==
  ASSUME OneSender, NEW t \in Thread
  PROVE  (Filling <=> appPc[t] # "idle") /\ (Filling' <=> appPc'[t] # "idle")
  BY DEF OneSender, Filling

LEMMA CheckStep ==
  ASSUME OneSender, SendInv, NEW t \in Thread, NEW p \in Packet, Refuse(t, p) \/ Check(t, p)
  PROVE  SendInv'
<1>t. TypeOK
  BY DEF SendInv
<1>b. /\ wBytes \in 0 .. BufSize - 1 /\ wActualeBytes \in 0 .. BufSize - 1
      /\ appPc \in [Thread -> AppPc] /\ appPacket \in [Thread -> Seq(Data)]
  BY <1>t DEF TypeOK
<1>u. UNCHANGED <<wBytes, wActualeBytes, bmData, sendFree, presence, plugged, refused,
                  transfers, taken, usbPc, usbLen>>
  BY DEF Refuse, Check, sender, usbVars
<1>1. CASE Refuse(t, p)
  <2>1. appRes' \in [Thread -> {0, -1}] /\ UNCHANGED <<appPc, appPacket>>
    BY <1>1, <1>t DEF Refuse, TypeOK
  <2>2. TypeOK'
    BY <1>t, <1>u, <2>1 DEF TypeOK
  <2> QED
    BY <1>u, <2>1, <2>2 DEF SendInv, FillInv, Filling, CallbackInv, RestInv, TransferInv, Part
<1>2. CASE Check(t, p)
  <2>1. /\ appPc[t] = "idle" /\ Len(p) <= BufSize - 1 /\ wBytes = 0
        /\ appPacket' = [appPacket EXCEPT ![t] = p]
        /\ appPc' = [appPc EXCEPT ![t] = "bytes"] /\ appRes' = appRes
    BY <1>2 DEF Check, Goto
  <2>2. p \in Seq(Data) /\ p # <<>> /\ Len(p) \in 1 .. BufSize - 1
    BY <2>1, LenProperties, EmptySeq DEF OneSender
  <2>3. /\ appPc'[t] = "bytes" /\ appPacket'[t] = p
        /\ appPc' \in [Thread -> AppPc] /\ appPacket' \in [Thread -> Seq(Data)]
    BY <1>b, <2>1, <2>2 DEF AppPc
  <2>4. TypeOK'
    BY <1>t, <1>u, <2>1, <2>3 DEF TypeOK
  <2>5. transfers = <<>> /\ usbPc \in {"idle", "actual", "event"}
    BY <1>t, <2>1 DEF SendInv, TransferInv, CallbackInv, TypeOK, UsbPc
  <2>6. FillInv'
    BY <1>u, <2>1, <2>2, <2>3, <2>5 DEF FillInv, OneSender
  <2>7. CallbackInv' /\ RestInv' /\ TransferInv'
    BY <1>u, <2>1, <2>5 DEF SendInv, CallbackInv, RestInv, TransferInv
  <2> QED
    BY <2>4, <2>6, <2>7 DEF SendInv
<1> QED
  BY <1>1, <1>2

LEMMA FillStep ==
  ASSUME OneSender, SendInv, NEW t \in Thread,
         SetBytes(t) \/ Copy(t) \/ ClearActual(t) \/ ClearEvent(t)
  PROVE  SendInv'
<1>t. TypeOK
  BY DEF SendInv
<1>b. /\ wBytes \in 0 .. BufSize - 1 /\ wActualeBytes \in 0 .. BufSize - 1
      /\ bmData \in [0 .. BufSize - 1 -> Data]
      /\ appPc \in [Thread -> AppPc] /\ appPacket[t] \in Seq(Data)
  BY <1>t DEF TypeOK
<1>s. sendFree \in BOOLEAN
  BY <1>t DEF TypeOK
<1>u. UNCHANGED <<presence, plugged, refused, transfers, taken, usbPc, usbLen, appPacket, appRes>>
  BY DEF SetBytes, Copy, ClearActual, ClearEvent, usbVars
<1>f. /\ appPc[t] # "idle" /\ transfers = <<>> /\ usbPc \in {"idle", "actual", "event"}
      /\ appPacket[t] \in Packet /\ Len(appPacket[t]) \in 1 .. BufSize - 1
      /\ wBytes = IF appPc[t] = "bytes" THEN 0 ELSE Len(appPacket[t])
      /\ appPc[t] \in {"event", "submit"} => wActualeBytes = 0
      /\ appPc[t] \in {"actual", "event", "submit"} =>
            \A i \in 1 .. wBytes : bmData[i - 1] = appPacket[t][i]
  BY DEF SetBytes, Copy, ClearActual, ClearEvent, SendInv, FillInv
<1>l. Len(appPacket[t]) \in Nat /\ \A i \in 1 .. Len(appPacket[t]) : appPacket[t][i] \in Data
  BY <1>b, LenProperties, ElementOfSeq
<1> DEFINE Filled == /\ appPc'[t] \in {"copy", "actual", "event", "submit"}
                     /\ appPc' \in [Thread -> AppPc]
                     /\ wBytes' = Len(appPacket[t]) /\ wActualeBytes' \in 0 .. BufSize - 1
                     /\ bmData' \in [0 .. BufSize - 1 -> Data] /\ sendFree' \in BOOLEAN
                     /\ appPc'[t] \in {"event", "submit"} => wActualeBytes' = 0
                     /\ appPc'[t] \in {"actual", "event", "submit"} =>
                           \A i \in 1 .. wBytes' : bmData'[i - 1] = appPacket[t][i]
<1>1. ASSUME SetBytes(t) PROVE Filled
  <2>1. /\ appPc' = [appPc EXCEPT ![t] = "copy"] /\ wBytes' = Len(appPacket[t])
        /\ UNCHANGED <<wActualeBytes, bmData, sendFree>>
    BY <1>1 DEF SetBytes, Goto
  <2>2. appPc'[t] = "copy" /\ appPc' \in [Thread -> AppPc]
    BY <1>b, <2>1 DEF AppPc
  <2> QED
    BY <1>b, <1>s, <2>1, <2>2
<1>2. ASSUME Copy(t) PROVE Filled
  <2>1. /\ appPc[t] = "copy" /\ appPc' = [appPc EXCEPT ![t] = "actual"]
        /\ bmData' = [i \in 0 .. BufSize - 1 |->
                        IF i < wBytes /\ i < Len(appPacket[t])
                        THEN appPacket[t][i + 1] ELSE bmData[i]]
        /\ UNCHANGED <<wBytes, wActualeBytes, sendFree>>
    BY <1>2 DEF Copy, Goto
  <2>2. \A i \in 0 .. BufSize - 1 : bmData'[i] \in Data
    BY <1>b, <1>l, <2>1
  <2>3. bmData' \in [0 .. BufSize - 1 -> Data]
    BY <2>1, <2>2
  <2>4. wBytes = Len(appPacket[t])
    BY <1>f, <2>1
  <2>5. \A i \in 1 .. wBytes' : bmData'[i - 1] = appPacket[t][i]
    BY <1>b, <2>1, <2>4
  <2>6. appPc'[t] = "actual" /\ appPc' \in [Thread -> AppPc]
    BY <1>b, <2>1 DEF AppPc
  <2> QED
    BY <1>b, <1>s, <2>1, <2>3, <2>4, <2>5, <2>6
<1>3. ASSUME ClearActual(t) PROVE Filled
  <2>1. /\ appPc[t] = "actual" /\ appPc' = [appPc EXCEPT ![t] = "event"]
        /\ wActualeBytes' = 0 /\ UNCHANGED <<wBytes, bmData, sendFree>>
    BY <1>3 DEF ClearActual, Goto
  <2>2. appPc'[t] = "event" /\ appPc' \in [Thread -> AppPc]
    BY <1>b, <2>1 DEF AppPc
  <2>3. wBytes' = Len(appPacket[t]) /\ \A i \in 1 .. wBytes' : bmData'[i - 1] = appPacket[t][i]
    BY <1>f, <2>1
  <2> QED
    BY <1>b, <1>s, <2>1, <2>2, <2>3
<1>4. ASSUME ClearEvent(t) PROVE Filled
  <2>1. sendFree' \in BOOLEAN
    BY <1>4, Zenon DEF ClearEvent
  <2>2. /\ appPc[t] = "event" /\ appPc' = [appPc EXCEPT ![t] = "submit"]
        /\ UNCHANGED <<wBytes, wActualeBytes, bmData>>
    BY <1>4 DEF ClearEvent, Goto
  <2>3. appPc'[t] = "submit" /\ appPc' \in [Thread -> AppPc]
    BY <1>b, <2>2 DEF AppPc
  <2> QED
    BY <1>b, <1>f, <2>1, <2>2, <2>3
<1>5. Filled
  BY <1>1, <1>2, <1>3, <1>4
<1>6. TypeOK'
  BY <1>t, <1>u, <1>f, <1>5 DEF TypeOK
<1>7. FillInv'
  BY <1>u, <1>f, <1>5 DEF FillInv, OneSender
<1>8. Filling'
  BY <1>5, FillingIs
<1>9. CallbackInv' /\ RestInv' /\ TransferInv'
  BY <1>u, <1>f, <1>8 DEF SendInv, CallbackInv, RestInv, TransferInv
<1> QED
  BY <1>6, <1>7, <1>9 DEF SendInv

LEMMA FirstStep ==
  ASSUME OneSender, SendInv, NEW t \in Thread, SubmitFirst(t)
  PROVE  SendInv'
<1> DEFINE part == Part(0, Len(appPacket[t]))
<1>t. TypeOK
  BY DEF SendInv
<1>1. /\ appPc[t] = "submit" /\ Submit(part)
      /\ appRes' = [appRes EXCEPT ![t] = -1] /\ appPacket' = [appPacket EXCEPT ![t] = <<>>]
      /\ appPc' = [appPc EXCEPT ![t] = "idle"]
      /\ UNCHANGED <<wBytes, wActualeBytes, bmData, sendFree, presence, plugged, taken,
                     usbPc, usbLen>>
  BY DEF SubmitFirst, Goto, sender
<1>2. /\ transfers = <<>> /\ usbPc \in {"idle", "actual", "event"} /\ wActualeBytes = 0
      /\ wBytes = Len(appPacket[t]) /\ wBytes \in 1 .. BufSize - 1
  BY <1>1 DEF SendInv, FillInv
<1>3. part \in TransferSet
  BY <1>2, PartProperties
<1>4. /\ refused' \in BOOLEAN /\ transfers' \in Seq(TransferSet)
      /\ transfers' = <<>> \/ transfers' = <<part>>
  BY <1>t, <1>1, <1>2, <1>3, SubmitCases
<1>5. /\ appRes' \in [Thread -> {0, -1}] /\ appPacket' \in [Thread -> Seq(Data)]
      /\ appPc' \in [Thread -> AppPc] /\ appPc'[t] = "idle"
  BY <1>t, <1>1, EmptySeq DEF TypeOK, AppPc
<1>6. TypeOK'
  BY <1>t, <1>1, <1>4, <1>5 DEF TypeOK, TransferSet
<1>7. ~Filling' /\ FillInv'
  BY <1>5, FillingIs DEF Filling, FillInv
<1>8. part = Part(wActualeBytes, wBytes - wActualeBytes)'
  BY <1>1, <1>2 DEF Part
<1>9. CallbackInv' /\ RestInv'
  BY <1>1, <1>2 DEF SendInv, CallbackInv, RestInv
<1>10. TransferInv'
  BY <1>1, <1>2, <1>4, <1>7, <1>8 DEF TransferInv
<1> QED
  BY <1>6, <1>7, <1>9, <1>10 DEF SendInv

LEMMA SendInvStep == OneSender /\ SendInv /\ [Next]_vars => SendInv'
<1> SUFFICES ASSUME OneSender, SendInv, [Next]_vars PROVE SendInv'
  OBVIOUS
<1>1. CASE UNCHANGED vars
  <2>1. UNCHANGED <<wBytes, wActualeBytes, bmData, sendFree, presence, plugged, refused,
                    transfers, taken, usbPc, usbLen, appPc, appPacket, appRes>>
    BY <1>1 DEF vars, sender, usbVars, appVars
  <2>2. TypeOK'
    BY <2>1 DEF SendInv, TypeOK
  <2> QED
    BY <2>1, <2>2 DEF SendInv, FillInv, Filling, CallbackInv, RestInv, TransferInv, Part
<1> QED
  BY <1>1, CompleteStep, UsbSteps, CheckStep, FillStep, FirstStep
     DEF Next, ProcCmd_SEND_PACKET

LEMMA SendAlways == OneSender /\ Spec => []SendInv
<1>1. SUFFICES ASSUME OneSender PROVE Spec => []SendInv
  OBVIOUS
<1>2. Init => SendInv
  BY SendInit
<1>3. SendInv /\ [Next]_vars => SendInv'
  BY <1>1, SendInvStep
<1> QED
  BY <1>2, <1>3, PTL DEF Spec

(* The counters stay inside bmData, Callback_BulkOut and SEND_PACKET never *)
(* have two transfers on the one buffer, and no transfer hands the device  *)
(* bytes beyond the packet: for every size of buffer and of transfer, any  *)
(* refusals of the stack and an unplug at any time.                        *)
THEOREM TransferCorrect == OneSender /\ Spec => []TransferSound
<1>1. ASSUME SendInv PROVE TransferSound
  <2>1. CASE transfers = <<>>
    <3>1. Len(<<>>) = 0 /\ DOMAIN <<>> = {}
      OBVIOUS
    <3> QED
      BY <1>1, <2>1, <3>1 DEF SendInv, TransferSound, OneTransfer, InsidePacket
  <2>2. CASE transfers # <<>>
    <3> DEFINE part == Part(wActualeBytes, wBytes - wActualeBytes)
    <3>1. /\ transfers = <<part>> /\ wActualeBytes <= wBytes
          /\ usbPc \in {"idle", "actual", "event"}
      BY <1>1, <2>2 DEF SendInv, TransferInv
    <3>2. wBytes \in Nat /\ wActualeBytes \in Nat
      BY <1>1 DEF SendInv, TypeOK
    <3>3. /\ part \in TransferSet /\ part.first = wActualeBytes
          /\ part.length \in 0 .. wBytes - wActualeBytes
      BY <3>1, <3>2, PartProperties
    <3>4. part.first + part.length <= wBytes
      BY <3>2, <3>3
    <3>5. Len(transfers) = 1 /\ \A k \in DOMAIN transfers : transfers[k] = part
      BY <3>1, <3>3, OnePart
    <3> QED
      BY <1>1, <3>1, <3>4, <3>5 DEF SendInv, TransferSound, OneTransfer, InsidePacket
  <2> QED
    BY <2>1, <2>2
<1> QED
  BY <1>1, SendAlways, PTL

-----------------------------------------------------------------------------
(* The send path implements PacketLink.                                    *)

Window(data, a, m) == [i \in 1 .. m |-> data[a + i - 1]]

LEMMA WindowProperties ==
  ASSUME NEW data \in [0 .. BufSize - 1 -> Data], NEW a \in Nat, NEW m \in Nat,
         a + m <= BufSize
  PROVE  /\ Window(data, a, m) \in Seq(Data) /\ Len(Window(data, a, m)) = m
         /\ \A i \in 1 .. m : Window(data, a, m)[i] = data[a + i - 1]
<1>1. \A i \in 1 .. m : data[a + i - 1] \in Data
  OBVIOUS
<1>2. Window(data, a, m) \in [1 .. m -> Data] /\ DOMAIN Window(data, a, m) = 1 .. m
  BY <1>1 DEF Window
<1>3. Window(data, a, m) \in Seq(Data)
  BY <1>2, SeqDef
<1>4. /\ Len(Window(data, a, m)) \in Nat
      /\ DOMAIN Window(data, a, m) = 1 .. Len(Window(data, a, m))
  BY <1>3, LenProperties
<1>5. Len(Window(data, a, m)) = m
  BY <1>2, <1>4
<1> QED
  BY <1>3, <1>5 DEF Window

LEMMA NoWindow ==
  ASSUME NEW data, NEW a \in Int, NEW m \in Int, m <= 0
  PROVE  Window(data, a, m) = <<>>
<1>1. 1 .. m = {}
  OBVIOUS
<1>2. Window(data, a, m) \in [{} -> Data] /\ DOMAIN Window(data, a, m) = {}
  BY <1>1 DEF Window
<1>3. 1 .. 0 = {}
  OBVIOUS
<1>4. Window(data, a, m) \in Seq(Data)
  BY <1>2, <1>3, SeqDef
<1>5. Len(Window(data, a, m)) = 0
  BY <1>2, <1>4, LenProperties
<1> QED
  BY <1>4, <1>5, EmptySeq

LEMMA WindowSplit ==
  ASSUME NEW data \in [0 .. BufSize - 1 -> Data], NEW a \in Nat, NEW m \in Nat,
         a + m <= BufSize, NEW n \in 0 .. m
  PROVE  /\ Window(data, a, n) = SubSeq(Window(data, a, m), 1, n)
         /\ Window(data, a + n, m - n) = SubSeq(Window(data, a, m), n + 1, m)
<1> DEFINE w == Window(data, a, m)
           front == Window(data, a, n)
           back == Window(data, a + n, m - n)
<1>n. /\ n \in Nat /\ m - n \in Nat /\ a + n \in Nat
      /\ a + n <= BufSize /\ (a + n) + (m - n) <= BufSize
  OBVIOUS
<1>1. w \in Seq(Data) /\ Len(w) = m /\ \A i \in 1 .. m : w[i] = data[a + i - 1]
  BY WindowProperties
<1>2. front \in Seq(Data) /\ Len(front) = n /\ \A i \in 1 .. n : front[i] = data[a + i - 1]
  BY <1>n, WindowProperties
<1>3. /\ back \in Seq(Data) /\ Len(back) = m - n
      /\ \A i \in 1 .. m - n : back[i] = data[(a + n) + i - 1]
  BY <1>n, WindowProperties
<1>4. \A i \in 1 .. m : w[i] \in Data
  BY <1>1, ElementOfSeq
<1>5. /\ SubSeq(w, 1, n) \in Seq(Data) /\ Len(SubSeq(w, 1, n)) = n
      /\ \A i \in 1 .. n : SubSeq(w, 1, n)[i] = w[i]
  <2>1. \A i \in 1 .. n : w[i] \in Data
    BY <1>4
  <2> HIDE DEF w
  <2> QED
    BY <2>1, SubSeqProperties
<1>6. /\ SubSeq(w, n + 1, m) \in Seq(Data) /\ Len(SubSeq(w, n + 1, m)) = m - n
      /\ \A i \in 1 .. m - n : SubSeq(w, n + 1, m)[i] = w[n + i]
  <2>1. \A i \in n + 1 .. m : w[i] \in Data
    BY <1>4
  <2> HIDE DEF w
  <2>2. /\ SubSeq(w, n + 1, m) \in Seq(Data)
        /\ Len(SubSeq(w, n + 1, m)) = IF n + 1 <= m THEN m - (n + 1) + 1 ELSE 0
        /\ \A i \in 1 .. m - (n + 1) + 1 : SubSeq(w, n + 1, m)[i] = w[(n + 1) + i - 1]
    BY <2>1, SubSeqProperties
  <2> QED
    BY <2>2
<1> HIDE DEF w, front, back
<1>7. front = SubSeq(w, 1, n)
  <2>1. \A i \in 1 .. n : front[i] = SubSeq(w, 1, n)[i]
    BY <1>1, <1>2, <1>5
  <2> QED
    BY <1>2, <1>5, <2>1, SeqEqual
<1>8. back = SubSeq(w, n + 1, m)
  <2>1. \A i \in 1 .. m - n : back[i] = SubSeq(w, n + 1, m)[i]
    BY <1>1, <1>3, <1>6
  <2> QED
    BY <1>3, <1>6, <2>1, SeqEqual
<1> QED
  BY <1>7, <1>8 DEF w, front, back

(* What is left to send, in the terms of a window.                         *)
LEMMA RestIs ==
  /\ Filling => Rest = <<>>
  /\ ~Filling => Rest = Window(bmData, wActualeBytes + usbLen, wBytes - wActualeBytes - usbLen)
  BY DEF Rest, Window

LEMMA CompleteTransmits ==
  ASSUME SendInv, NEW n \in 0 .. MaxTransfer, Complete(n)
  PROVE  L!Next
<1> DEFINE a == wActualeBytes
           m == wBytes - wActualeBytes
           part == Part(a, m)
<1>1. /\ ~Filling /\ wBytes > 0 /\ a <= wBytes /\ usbLen = 0 /\ transfers = <<part>>
      /\ wBytes \in 0 .. BufSize - 1 /\ a \in Nat /\ bmData \in [0 .. BufSize - 1 -> Data]
  BY DEF SendInv, TransferInv, CallbackInv, Complete, TypeOK
<1>2. part \in TransferSet /\ part.first = a /\ part.length \in 0 .. m
  BY <1>1, PartProperties
<1>3. Head(transfers) = part
  BY <1>1, <1>2, OnePart
<1>4. /\ n \in 0 .. m /\ taken' = Window(bmData, a, n) /\ usbLen' = n
      /\ UNCHANGED <<wBytes, wActualeBytes, bmData, appPc>>
  <2>1. n \in 0 .. part.length /\ part.length <= m
    BY <1>1, <1>2, <1>3 DEF Complete
  <2>2. n \in 0 .. m
    BY <1>1, <1>2, <2>1
  <2>3. taken' = [i \in 1 .. n |-> bmData[part.first + i - 1]]
    BY <1>3 DEF Complete
  <2>4. taken' = Window(bmData, a, n)
    BY <1>2, <2>3 DEF Window
  <2> QED
    BY <2>2, <2>4 DEF Complete, sender, appVars
<1>5. Rest = Window(bmData, a, m)
  BY <1>1, RestIs
<1>6. ~Filling'
  BY <1>1, <1>4 DEF Filling
<1>7. Rest' = Window(bmData, a + n, m - n)
  BY <1>1, <1>4, <1>6 DEF Rest, Window
<1>8. m \in Nat /\ a + m <= BufSize
  BY <1>1
<1> HIDE DEF a, m
<1>9. /\ Window(bmData, a, n) = SubSeq(Rest, 1, n)
      /\ Window(bmData, a + n, m - n) = SubSeq(Rest, n + 1, m) /\ Len(Rest) = m
  <2>1. Len(Window(bmData, a, m)) = m
    BY <1>1, <1>8, WindowProperties
  <2>2. /\ Window(bmData, a, n) = SubSeq(Window(bmData, a, m), 1, n)
        /\ Window(bmData, a + n, m - n) = SubSeq(Window(bmData, a, m), n + 1, m)
    BY <1>1, <1>4, <1>8, WindowSplit
  <2> QED
    BY <1>5, <2>1, <2>2
<1>10. L!Transmit(n) /\ n \in 0 .. Len(Rest)
  BY <1>4, <1>7, <1>9 DEF L!Transmit
<1> QED
  BY <1>10 DEF L!Next

LEMMA FirstAccepts ==
  ASSUME OneSender, SendInv, NEW t \in Thread, SubmitFirst(t)
  PROVE  L!Next
<1> DEFINE p == appPacket[t]
<1>1. /\ appPc[t] = "submit" /\ appPc' = [appPc EXCEPT ![t] = "idle"]
      /\ UNCHANGED <<wBytes, wActualeBytes, bmData, taken, usbPc, usbLen>>
  BY DEF SubmitFirst, Goto, sender
<1>2. /\ usbPc \in {"idle", "actual", "event"} /\ wActualeBytes = 0 /\ p \in Packet
      /\ wBytes = Len(p) /\ wBytes \in 1 .. BufSize - 1
      /\ \A i \in 1 .. wBytes : bmData[i - 1] = p[i]
  BY <1>1 DEF SendInv, FillInv
<1>3. usbLen = 0 /\ bmData \in [0 .. BufSize - 1 -> Data] /\ appPc \in [Thread -> AppPc]
  BY <1>2 DEF SendInv, CallbackInv, TypeOK
<1>4. Rest = <<>>
  BY <1>1, FillingIs, RestIs
<1>5. ~Filling'
  BY <1>1, <1>3, FillingIs
<1>6. Rest' = Window(bmData, 0, wBytes)
  BY <1>1, <1>2, <1>3, <1>5 DEF Rest, Window
<1>7. /\ Window(bmData, 0, wBytes) \in Seq(Data) /\ Len(Window(bmData, 0, wBytes)) = wBytes
      /\ \A i \in 1 .. wBytes : Window(bmData, 0, wBytes)[i] = bmData[0 + i - 1]
  <2>1. 0 \in Nat /\ wBytes \in Nat /\ 0 + wBytes <= BufSize
    BY <1>2
  <2> QED
    BY <1>3, <2>1, WindowProperties
<1>8. p \in Seq(Data)
  BY <1>2
<1>9. Window(bmData, 0, wBytes) = p
  <2>1. \A i \in 1 .. wBytes : Window(bmData, 0, wBytes)[i] = p[i]
    BY <1>2, <1>7
  <2> HIDE DEF p
  <2> QED
    BY <1>2, <1>7, <1>8, <2>1, SeqEqual
<1>10. L!Accept(p)
  BY <1>1, <1>4, <1>6, <1>9 DEF L!Accept
<1> QED
  BY <1>2, <1>10 DEF L!Next

(* Every other step leaves what the device has to get alone.               *)
LEMMA LinkStutter ==
  ASSUME OneSender, SendInv, [Next]_vars,
         ~\E n \in 0 .. MaxTransfer : Complete(n), ~\E t \in Thread : SubmitFirst(t)
  PROVE  UNCHANGED L!vars
<1>b. /\ wBytes \in 0 .. BufSize - 1 /\ wActualeBytes \in 0 .. BufSize - 1
      /\ usbLen \in 0 .. MaxTransfer /\ appPc \in [Thread -> AppPc]
  BY DEF SendInv, TypeOK
<1>f. ~Filling /\ wBytes = 0 => Rest = <<>>
  BY <1>b, RestIs, NoWindow
<1>1. CASE UNCHANGED <<wBytes, wActualeBytes, bmData, usbLen, taken, appPc>>
  BY <1>1 DEF L!vars, Rest, Filling
<1>2. CASE AddActual
  <2>1. wActualeBytes' + usbLen' = wActualeBytes + usbLen
    BY <1>2, <1>b DEF AddActual
  <2>2. wBytes' - wActualeBytes' - usbLen' = wBytes - wActualeBytes - usbLen
    BY <1>2, <1>b DEF AddActual
  <2> QED
    BY <1>2, <2>1, <2>2 DEF AddActual, L!vars, Rest, Filling, appVars
<1>3. CASE FreeBytes
  <2>1. /\ ~Filling /\ wActualeBytes = wBytes /\ usbLen = 0
    BY <1>3 DEF FreeBytes, SendInv, CallbackInv
  <2>2. /\ wBytes' = 0 /\ UNCHANGED <<wActualeBytes, usbLen, bmData, taken, appPc>>
    BY <1>3 DEF FreeBytes, appVars
  <2>3. Rest = <<>>
    BY <1>b, <2>1, RestIs, NoWindow
  <2>4. ~Filling'
    BY <2>1, <2>2 DEF Filling
  <2>5. Rest' = Window(bmData, wActualeBytes + 0, 0 - wActualeBytes - 0)
    BY <2>1, <2>2, <2>4 DEF Rest, Window
  <2>6. Rest' = <<>>
    BY <1>b, <2>5, NoWindow
  <2> QED
    BY <2>2, <2>3, <2>6 DEF L!vars
<1>4. CASE FreeActual
  <2>1. /\ wActualeBytes' = 0 /\ usbPc = "actual"
        /\ UNCHANGED <<wBytes, usbLen, bmData, taken, appPc>>
    BY <1>4 DEF FreeActual, appVars
  <2>2. Filling' <=> Filling
    BY <2>1 DEF Filling
  <2>3. CASE Filling
    BY <2>1, <2>2, <2>3 DEF L!vars, Rest
  <2>4. CASE ~Filling /\ wBytes > 0
    <3>1. wActualeBytes = 0
      BY <2>1, <2>4 DEF SendInv, RestInv
    <3> QED
      BY <2>1, <3>1 DEF L!vars, Rest, Filling
  <2>5. CASE ~Filling /\ wBytes = 0
    <3>1. usbLen = 0
      BY <2>1 DEF SendInv, CallbackInv
    <3>2. Rest' = Window(bmData, 0, 0)
      BY <2>1, <2>2, <2>5, <3>1 DEF Rest, Window
    <3> QED
      BY <1>f, <2>1, <2>5, <3>2, NoWindow DEF L!vars
  <2> QED
    BY <1>b, <2>3, <2>4, <2>5
<1>5. ASSUME NEW t \in Thread, NEW p \in Packet, Check(t, p) PROVE UNCHANGED L!vars
  <2>1. /\ appPc[t] = "idle" /\ wBytes = 0 /\ appPc' = [appPc EXCEPT ![t] = "bytes"]
        /\ taken' = taken
    BY <1>5 DEF Check, Goto, usbVars
  <2>2. ~Filling /\ Filling'
    BY <1>b, <2>1, FillingIs
  <2> QED
    BY <1>f, <2>1, <2>2 DEF L!vars, Rest
<1>6. ASSUME NEW t \in Thread, SetBytes(t) \/ Copy(t) \/ ClearActual(t) \/ ClearEvent(t)
      PROVE  UNCHANGED L!vars
  <2>1. /\ appPc[t] # "idle" /\ taken' = taken
        /\ \E c \in AppPc \ {"idle"} : appPc' = [appPc EXCEPT ![t] = c]
    BY <1>6 DEF SetBytes, Copy, ClearActual, ClearEvent, Goto, usbVars, AppPc
  <2>2. Filling /\ Filling'
    BY <1>b, <2>1, FillingIs
  <2> QED
    BY <2>1, <2>2 DEF L!vars, Rest
<1>7. \/ UNCHANGED <<wBytes, wActualeBytes, bmData, usbLen, taken, appPc>>
      \/ AddActual \/ FreeBytes \/ FreeActual
      \/ \E t \in Thread : \/ \E p \in Packet : Check(t, p)
                           \/ SetBytes(t) \/ Copy(t) \/ ClearActual(t) \/ ClearEvent(t)
  BY DEF Next, Callback_BulkOut, ProcCmd_SEND_PACKET, Unplug, Disconnected, SubmitRest,
         PacketDone, FreeEvent, Refuse, vars, sender, usbVars, appVars
<1> QED
  BY <1>1, <1>2, <1>3, <1>4, <1>5, <1>6, <1>7

(* The send path refines PacketLink: SEND_PACKET, however its packet is    *)
(* split and however often a failed part is repeated by Callback_BulkOut,  *)
(* gives the device every byte of every accepted packet once and in order, *)
(* and accepts none before the last byte of the one before.                *)
THEOREM ImplementsLink == OneSender /\ Spec => LinkSpec
<1> SUFFICES ASSUME OneSender PROVE Spec => LinkSpec
  OBVIOUS
<1>1. Init => L!Init
  <2> SUFFICES ASSUME Init PROVE L!Init
    OBVIOUS
  <2>1. ~Filling /\ wBytes = 0 /\ wActualeBytes = 0 /\ usbLen = 0 /\ taken = <<>>
    BY DEF Init, Filling
  <2>2. Rest = <<>>
    BY <2>1, RestIs, NoWindow
  <2> QED
    BY <2>1, <2>2 DEF L!Init
<1>2. SendInv /\ [Next]_vars => [L!Next]_L!vars
  <2> SUFFICES ASSUME SendInv, [Next]_vars PROVE L!Next \/ UNCHANGED L!vars
    BY DEF L!vars
  <2>1. ASSUME NEW n \in 0 .. MaxTransfer, Complete(n) PROVE L!Next
    BY <2>1, CompleteTransmits
  <2>2. ASSUME NEW t \in Thread, SubmitFirst(t) PROVE L!Next
    BY <2>2, FirstAccepts
  <2> QED
    BY <2>1, <2>2, LinkStutter
<1>3. Spec => []SendInv
  BY SendAlways
<1> QED
  BY <1>1, <1>2, <1>3, PTL DEF Spec, LinkSpec, L!Spec

-----------------------------------------------------------------------------
(* What a program is told of the line.                                     *)

SignalSet == {Signals[i] : i \in DOMAIN Signals}

LineTypes == /\ kind \in {"com", "cdc"}
             /\ wStatusLine \in SUBSET SignalSet
             /\ lineEvent \in BOOLEAN /\ statPc \in {"idle", "event"}
             /\ getPc \in [Thread -> {"idle", "read", "clear", "free"}]
             /\ next \in [Thread -> Nat \ {0}]
             /\ told \in [Thread -> [signals : SUBSET SignalSet, free : BOOLEAN]]
             /\ missed \in [Thread -> BOOLEAN]

(* The free buffer is announced even while a packet is being accepted.     *)
Announced == wBytes = 0 /\ usbPc = "idle" => sendFree

(* A thread is in one request at a time, and one that was told it may send *)
(* has not begun to.                                                       *)
Asking == \A t \in Thread : /\ getPc[t] # "idle" => appPc[t] = "idle"
                            /\ told[t].free => wBytes = 0 /\ appPc[t] = "idle"

(* The part of wStatusLine a thread has copied is what wStatusLine holds,  *)
(* unless a callback came in between, which leaves the event set or the    *)
(* request marked.                                                         *)
Known(t) ==
    statPc = "idle" /\ ~missed[t] =>
       /\ getPc[t] = "read" =>
             told[t].signals = wStatusLine \intersect {Signals[i] : i \in 1 .. next[t] - 1}
       /\ getPc[t] = "clear" => told[t].signals = wStatusLine
       /\ getPc[t] \in {"free", "idle"} /\ ~lineEvent => told[t].signals = wStatusLine

Knowing == \A t \in Thread : Known(t) /\ (kind = "cdc" => next[t] = 1)

LineInv == LineTypes /\ Announced /\ Asking /\ Knowing

-----------------------------------------------------------------------------
LEMMA LineStepIs == [LineNext]_lineVars => [Next]_vars
<1> SUFFICES ASSUME [LineNext]_lineVars PROVE Next \/ UNCHANGED vars
  OBVIOUS
<1> QED
  BY DEF LineNext, lineVars, SendStep, StatusCallback, StoreStatus, RaiseStatus, Begin,
         ProcCmd_GET_STATUS_LINE, Read, ClearStatus, TestFree

(* GET_STATUS_LINE and the callbacks that report signals do nothing to the *)
(* send path: whatever is proved of Sender holds beside them.              *)
LEMMA LineKeepsSend == LineSpec => Spec
<1>1. LineInit => Init
  BY DEF LineInit
<1> QED
  BY <1>1, LineStepIs, PTL DEF LineSpec, Spec

LEMMA LineInitInv == LineInit => LineInv
<1> SUFFICES ASSUME LineInit PROVE LineInv
  OBVIOUS
<1>1. lineEvent \in BOOLEAN /\ missed \in [Thread -> BOOLEAN] /\ sendFree
  BY Zenon DEF LineInit, Init
<1>2. told \in [Thread -> [signals : SUBSET SignalSet, free : BOOLEAN]]
  BY DEF LineInit
<1>3. /\ kind \in {"com", "cdc"} /\ wStatusLine \in SUBSET SignalSet
      /\ statPc \in {"idle", "event"} /\ next \in [Thread -> Nat \ {0}]
      /\ getPc \in [Thread -> {"idle", "read", "clear", "free"}]
  BY DEF LineInit
<1>4. \A t \in Thread : told[t].signals = {} /\ ~told[t].free /\ next[t] = 1 /\ getPc[t] = "idle"
  BY DEF LineInit
<1>5. Asking
  BY <1>4 DEF Asking
<1>6. Knowing
  BY <1>4 DEF Knowing, Known, LineInit
<1> QED
  BY <1>1, <1>2, <1>3, <1>5, <1>6 DEF LineInv, LineTypes, Announced

-----------------------------------------------------------------------------
(* The free buffer, over the steps of the send path.                       *)

LEMMA AnnouncedStep ==
  ASSUME OneSender, SendInv, Announced, [Next]_vars
  PROVE  Announced'
<1>1. CASE UNCHANGED <<wBytes, usbPc, sendFree>>
  BY <1>1 DEF Announced
<1>2. ASSUME usbPc' # "idle" PROVE Announced'
  BY <1>2 DEF Announced
<1>3. CASE FreeEvent
  <2>1. sendFree'
    BY <1>3, Zenon DEF FreeEvent
  <2> QED
    BY <2>1 DEF Announced
<1>4. CASE SubmitRest
  BY <1>4 DEF SubmitRest, SendInv, CallbackInv, sender, Announced
<1>5. ASSUME NEW t \in Thread, SetBytes(t) \/ ClearEvent(t) PROVE Announced'
  <2>1. wBytes' > 0
    BY <1>5 DEF SetBytes, ClearEvent, SendInv, FillInv
  <2> QED
    BY <2>1 DEF Announced
<1>6. \/ UNCHANGED <<wBytes, usbPc, sendFree>> \/ usbPc' # "idle" \/ FreeEvent \/ SubmitRest
      \/ \E t \in Thread : SetBytes(t) \/ ClearEvent(t)
  BY DEF Next, vars, Callback_BulkOut, ProcCmd_SEND_PACKET, Unplug, Disconnected, Complete,
         AddActual, PacketDone, FreeBytes, FreeActual, Refuse, Check, Copy, ClearActual,
         SubmitFirst, sender, usbVars
<1> QED
  BY <1>1, <1>2, <1>3, <1>4, <1>5, <1>6

(* Nothing but SEND_PACKET makes the buffer busy.                          *)
LEMMA StaysFree ==
  ASSUME OneSender, NEW t \in Thread, [Next]_vars, wBytes = 0, appPc[t] = "idle"
  PROVE  wBytes' = 0
<1>1. \A u \in Thread : ~SetBytes(u)
  BY DEF OneSender, SetBytes
<1> QED
  BY <1>1 DEF Next, vars, Callback_BulkOut, ProcCmd_SEND_PACKET, Unplug, Disconnected, Complete,
         AddActual, SubmitRest, PacketDone, FreeBytes, FreeActual, FreeEvent, Refuse, Check,
         Copy, ClearActual, ClearEvent, SubmitFirst, sender

-----------------------------------------------------------------------------
(* The steps of the line.                                                  *)

Told == [signals : SUBSET SignalSet, free : BOOLEAN]

LEMMA ToldFree ==
  ASSUME NEW r \in Told, NEW b \in BOOLEAN
  PROVE  /\ [r EXCEPT !.free = b] \in Told
         /\ [r EXCEPT !.free = b].signals = r.signals /\ [r EXCEPT !.free = b].free = b
  BY DEF Told

LEMMA ToldSignals ==
  ASSUME NEW r \in Told, NEW s \in SUBSET SignalSet
  PROVE  /\ [r EXCEPT !.signals = s] \in Told
         /\ [r EXCEPT !.signals = s].signals = s /\ [r EXCEPT !.signals = s].free = r.free
  BY DEF Told

LEMMA SendStepLine ==
  ASSUME OneSender, LineInv, SendStep
  PROVE  LineTypes' /\ Asking' /\ Knowing'
<1>1. /\ UNCHANGED <<kind, wStatusLine, lineEvent, statPc, getPc, next, missed>>
      /\ told' = [t \in Thread |-> [told[t] EXCEPT !.free = @ /\ appPc'[t] = "idle"]]
      /\ \A t \in Thread : getPc[t] # "idle" => appPc'[t] = appPc[t]
  BY DEF SendStep
<1>2. ASSUME NEW t \in Thread
      PROVE  /\ told'[t] \in Told /\ told'[t].signals = told[t].signals
             /\ told'[t].free <=> told[t].free /\ appPc'[t] = "idle"
  <2>1. told[t] \in Told
    BY DEF LineInv, LineTypes, Told
  <2>2. told'[t] = [told[t] EXCEPT !.free = told[t].free /\ appPc'[t] = "idle"]
    BY <1>1, Zenon
  <2>3. (told[t].free /\ appPc'[t] = "idle") \in BOOLEAN
    OBVIOUS
  <2> QED
    BY <2>1, <2>2, <2>3, ToldFree
<1>3. told' \in [Thread -> Told]
  BY <1>1, <1>2
<1>4. LineTypes'
  BY <1>1, <1>3 DEF LineInv, LineTypes, Told
<1>5. Asking'
  <2> SUFFICES ASSUME NEW t \in Thread
               PROVE  /\ getPc[t] # "idle" => appPc'[t] = "idle"
                      /\ told'[t].free => wBytes' = 0 /\ appPc'[t] = "idle"
    BY <1>1 DEF Asking
  <2>1. getPc[t] # "idle" => appPc'[t] = "idle"
    BY <1>1 DEF LineInv, Asking
  <2>2. ASSUME told'[t].free PROVE wBytes' = 0 /\ appPc'[t] = "idle"
    <3>1. told[t].free /\ appPc'[t] = "idle"
      BY <1>2, <2>2
    <3>2. wBytes = 0 /\ appPc[t] = "idle"
      BY <3>1 DEF LineInv, Asking
    <3> QED
      BY <3>1, <3>2, StaysFree DEF SendStep
  <2> QED
    BY <2>1, <2>2
<1>6. Knowing'
  <2> SUFFICES ASSUME NEW t \in Thread PROVE Known(t)' /\ (kind' = "cdc" => next'[t] = 1)
    BY DEF Knowing
  <2>1. Known(t) /\ (kind = "cdc" => next[t] = 1)
    BY DEF LineInv, Knowing
  <2>2. told'[t].signals = told[t].signals
    BY <1>2
  <2> QED
    BY <1>1, <2>1, <2>2 DEF Known
<1> QED
  BY <1>4, <1>5, <1>6

LEMMA CallbackLine ==
  ASSUME LineInv, StatusCallback
  PROVE  LineTypes' /\ Asking' /\ Knowing'
<1>1. UNCHANGED <<wBytes, appPc, kind, getPc, next, told>>
  BY DEF StatusCallback, StoreStatus, RaiseStatus, vars, sender, appVars
<1>2. Asking'
  BY <1>1 DEF LineInv, Asking
<1>3. ASSUME NEW s \in SUBSET SignalSet, StoreStatus(s) PROVE LineTypes' /\ Knowing'
  <2>1. wStatusLine' = s /\ statPc' = "event" /\ UNCHANGED <<lineEvent, missed>>
    BY <1>3 DEF StoreStatus
  <2> QED
    BY <1>1, <2>1 DEF LineInv, LineTypes, Knowing, Known
<1>4. ASSUME RaiseStatus PROVE LineTypes' /\ Knowing'
  <2>1. lineEvent' /\ lineEvent' \in BOOLEAN
    BY <1>4, Zenon DEF RaiseStatus
  <2>2. statPc' = "idle" /\ UNCHANGED wStatusLine
    BY <1>4 DEF RaiseStatus
  <2>3. missed' = [t \in Thread |-> missed[t] \/ getPc[t] \in {"read", "clear"}]
    BY <1>4, Zenon DEF RaiseStatus
  <2>4. missed' \in [Thread -> BOOLEAN] /\ \A t \in Thread : getPc[t] \in {"read", "clear"} => missed'[t]
    BY <2>3, Zenon
  <2> QED
    BY <1>1, <2>1, <2>2, <2>4 DEF LineInv, LineTypes, Knowing, Known
<1> QED
  BY <1>2, <1>3, <1>4 DEF StatusCallback, SignalSet

LEMMA BeginLine ==
  ASSUME OneSender, LineInv, NEW t \in Thread, Begin(t)
  PROVE  LineTypes' /\ Asking' /\ Knowing'
<1>1. /\ appPc[t] = "idle" /\ getPc' = [getPc EXCEPT ![t] = "read"]
      /\ next' = [next EXCEPT ![t] = 1]
      /\ told' = [told EXCEPT ![t] = [signals |-> {}, free |-> FALSE]]
      /\ UNCHANGED <<wBytes, appPc, kind, wStatusLine, lineEvent, statPc>>
  BY DEF Begin, vars, sender, appVars
<1>2. missed' \in [Thread -> BOOLEAN]
  BY Zenon DEF Begin, LineInv, LineTypes
<1>3. [signals |-> {}, free |-> FALSE] \in [signals : SUBSET SignalSet, free : BOOLEAN]
  OBVIOUS
<1>4. LineTypes'
  <2>1. told' \in [Thread -> [signals : SUBSET SignalSet, free : BOOLEAN]]
    BY <1>1, <1>3 DEF LineInv, LineTypes
  <2>2. /\ getPc' \in [Thread -> {"idle", "read", "clear", "free"}]
        /\ next' \in [Thread -> Nat \ {0}]
    BY <1>1 DEF LineInv, LineTypes
  <2> QED
    BY <1>1, <1>2, <2>1, <2>2 DEF LineInv, LineTypes
<1>5. told'[t].signals = {} /\ ~told'[t].free /\ next'[t] = 1 /\ getPc'[t] = "read"
  BY <1>1 DEF LineInv, LineTypes
<1>6. Asking'
  BY <1>1, <1>5 DEF Asking, OneSender
<1>7. Knowing'
  BY <1>1, <1>5 DEF Knowing, Known, OneSender
<1> QED
  BY <1>4, <1>6, <1>7

LEMMA ReadLine ==
  ASSUME OneSender, LineInv, NEW t \in Thread, Read(t)
  PROVE  LineTypes' /\ Asking' /\ Knowing'
<1> DEFINE last == IF kind = "cdc" THEN Len(Signals) ELSE next[t]
           seen == wStatusLine \intersect {Signals[i] : i \in next[t] .. last}
           end == last = Len(Signals)
<1>1. /\ getPc[t] = "read" /\ told' = [told EXCEPT ![t].signals = @ \union seen]
      /\ next' = [next EXCEPT ![t] = IF end THEN 1 ELSE last + 1]
      /\ getPc' = [getPc EXCEPT ![t] = IF end THEN "clear" ELSE getPc[t]]
      /\ UNCHANGED <<wBytes, appPc, kind, wStatusLine, lineEvent, statPc, missed>>
  BY DEF Read, vars, sender, appVars
<1>2. /\ told \in [Thread -> Told] /\ told[t] \in Told /\ next[t] \in Nat \ {0}
      /\ wStatusLine \in SUBSET SignalSet /\ next \in [Thread -> Nat \ {0}]
      /\ getPc \in [Thread -> {"idle", "read", "clear", "free"}]
  BY DEF LineInv, LineTypes, Told
<1>3. /\ Len(Signals) \in Nat /\ DOMAIN Signals = 1 .. Len(Signals)
      /\ last \in Nat /\ next[t] - 1 <= last
  BY <1>2, StatusAssumption, LenProperties DEF LineInv, Knowing
<1>4. told' = [told EXCEPT ![t] = [told[t] EXCEPT !.signals = told[t].signals \union seen]]
  BY <1>1, <1>2
<1>5. told[t].signals \union seen \in SUBSET SignalSet
  BY <1>2 DEF Told
<1>6. /\ told' \in [Thread -> Told] /\ told'[t].signals = told[t].signals \union seen
      /\ told'[t].free = told[t].free
  <2> HIDE DEF seen
  <2> QED
    BY <1>2, <1>4, <1>5, ToldSignals
<1>7. /\ next'[t] = (IF end THEN 1 ELSE last + 1) /\ next' \in [Thread -> Nat \ {0}]
      /\ getPc'[t] = (IF end THEN "clear" ELSE "read")
      /\ getPc' \in [Thread -> {"idle", "read", "clear", "free"}]
  BY <1>1, <1>2, <1>3
<1>8. LineTypes'
  BY <1>1, <1>6, <1>7 DEF LineInv, LineTypes, Told
<1>9. Asking'
  BY <1>1, <1>6 DEF LineInv, Asking, OneSender
<1>10. ASSUME statPc' = "idle", ~missed'[t]
       PROVE  told'[t].signals = wStatusLine \intersect {Signals[i] : i \in 1 .. last}
  <2>1. told[t].signals = wStatusLine \intersect {Signals[i] : i \in 1 .. next[t] - 1}
    BY <1>1, <1>10 DEF LineInv, Knowing, Known
  <2>2. 1 .. last = (1 .. next[t] - 1) \union (next[t] .. last)
    BY <1>2, <1>3
  <2>3. {Signals[i] : i \in 1 .. last}
           = {Signals[i] : i \in 1 .. next[t] - 1} \union {Signals[i] : i \in next[t] .. last}
    BY <2>2, Zenon
  <2> HIDE DEF last
  <2> QED
    BY <1>6, <2>1, <2>3
<1>11. end => wStatusLine \intersect {Signals[i] : i \in 1 .. last} = wStatusLine
  BY <1>2, <1>3 DEF SignalSet
<1>12. Known(t)' /\ (kind' = "cdc" => next'[t] = 1)
  <2>1. CASE end
    BY <1>1, <1>7, <1>10, <1>11, <2>1 DEF Known
  <2>2. CASE ~end
    <3>1. kind # "cdc" /\ next'[t] - 1 = last /\ getPc'[t] = "read"
      BY <1>3, <1>7, <2>2
    <3>2. {Signals[i] : i \in 1 .. last} = {Signals[i] : i \in 1 .. next'[t] - 1}
      BY <3>1
    <3> HIDE DEF last
    <3> QED
      BY <1>1, <1>10, <3>1, <3>2 DEF Known
  <2> QED
    BY <2>1, <2>2
<1>13. Knowing'
  BY <1>12 DEF Knowing, OneSender
<1> QED
  BY <1>8, <1>9, <1>13

LEMMA AnswerLine ==
  ASSUME OneSender, LineInv, NEW t \in Thread, ClearStatus(t) \/ TestFree(t)
  PROVE  LineTypes' /\ Asking' /\ Knowing'
<1>t. /\ told \in [Thread -> Told] /\ told[t] \in Told /\ lineEvent \in BOOLEAN
      /\ getPc \in [Thread -> {"idle", "read", "clear", "free"}]
  BY DEF LineInv, LineTypes, Told
<1>u. UNCHANGED <<wBytes, appPc, kind, wStatusLine, statPc, next, missed>>
  BY DEF ClearStatus, TestFree, vars, sender, appVars
<1>1. CASE ClearStatus(t)
  <2>1. ~lineEvent' /\ lineEvent' \in BOOLEAN
    BY <1>1, Zenon DEF ClearStatus
  <2>2. getPc[t] = "clear" /\ getPc' = [getPc EXCEPT ![t] = "free"] /\ told' = told
    BY <1>1 DEF ClearStatus
  <2>3. getPc'[t] = "free"
    BY <1>t, <2>2
  <2>4. LineTypes'
    BY <1>t, <1>u, <2>1, <2>2 DEF LineInv, LineTypes
  <2>5. Asking'
    BY <1>u, <2>2, <2>3 DEF LineInv, Asking, OneSender
  <2>6. Knowing'
    BY <1>u, <2>2, <2>3 DEF LineInv, Knowing, Known, OneSender
  <2> QED
    BY <2>4, <2>5, <2>6
<1>2. CASE TestFree(t)
  <2>1. /\ getPc[t] = "free" /\ getPc' = [getPc EXCEPT ![t] = "idle"]
        /\ told' = [told EXCEPT ![t].free = (wBytes = 0)] /\ lineEvent' = lineEvent
    BY <1>2 DEF TestFree
  <2>2. told' = [told EXCEPT ![t] = [told[t] EXCEPT !.free = (wBytes = 0)]]
    BY <1>t, <2>1
  <2>3. (wBytes = 0) \in BOOLEAN
    OBVIOUS
  <2>4. /\ told' \in [Thread -> Told] /\ told'[t].signals = told[t].signals
        /\ told'[t].free <=> wBytes = 0
    BY <1>t, <2>2, <2>3, ToldFree
  <2>5. getPc'[t] = "idle"
    BY <1>t, <2>1
  <2>6. LineTypes'
    BY <1>t, <1>u, <2>1, <2>4 DEF LineInv, LineTypes, Told
  <2>7. Asking'
    BY <1>u, <2>1, <2>4, <2>5 DEF LineInv, Asking, OneSender
  <2>8. Knowing'
    BY <1>u, <2>1, <2>4, <2>5 DEF LineInv, Knowing, Known, OneSender
  <2> QED
    BY <2>6, <2>7, <2>8
<1> QED
  BY <1>1, <1>2

LEMMA LineInvStep == OneSender /\ SendInv /\ LineInv /\ [LineNext]_lineVars => LineInv'
<1> SUFFICES ASSUME OneSender, SendInv, LineInv, [LineNext]_lineVars PROVE LineInv'
  OBVIOUS
<1>1. Announced'
  BY AnnouncedStep, LineStepIs DEF LineInv
<1>2. ASSUME UNCHANGED lineVars PROVE LineTypes' /\ Asking' /\ Knowing'
  BY <1>2 DEF lineVars, line, vars, sender, appVars, LineInv, LineTypes, Asking, Knowing, Known
<1>3. LineTypes' /\ Asking' /\ Knowing'
  BY <1>2, SendStepLine, CallbackLine, BeginLine, ReadLine, AnswerLine
     DEF LineNext, ProcCmd_GET_STATUS_LINE
<1> QED
  BY <1>1, <1>3 DEF LineInv

LEMMA LineAlways == OneSender /\ LineSpec => []LineInv
<1> SUFFICES ASSUME OneSender PROVE LineSpec => []LineInv
  OBVIOUS
<1>1. LineInit => LineInv
  BY LineInitInv
<1>2. SendInv /\ LineInv /\ [LineNext]_lineVars => LineInv'
  BY LineInvStep
<1>3. LineSpec => []SendInv
  BY LineKeepsSend, SendAlways, PTL
<1> QED
  BY <1>1, <1>2, <1>3, PTL DEF LineSpec

(* EVENT_SEND_IS_FREE is set whenever the send path is at rest, and the    *)
(* answer of GET_STATUS_LINE that a packet can be sent stays true until    *)
(* the program sends one, whatever callbacks come late.                    *)
THEOREM BufferToldCorrect == OneSender /\ LineSpec => []BufferTold
<1>1. LineInv => BufferTold
  BY DEF LineInv, Announced, Asking, BufferTold, FreeAnnounced, FreeTold
<1> QED
  BY <1>1, LineAlways, PTL

(* While EVENT_STATUS shows no change of the line, what GET_STATUS_LINE    *)
(* told last is what the device reported last: copying the signals one by  *)
(* one and clearing the event after it loses no report but those it marks. *)
THEOREM ChangesCorrect == OneSender /\ LineSpec => []ChangesAnnounced
<1>1. LineInv => ChangesAnnounced
  BY DEF LineInv, Knowing, Known, ChangesAnnounced, ProcCmd_EVENT_STATUS
<1> QED
  BY <1>1, LineAlways, PTL
=============================================================================
