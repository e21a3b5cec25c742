------------------------ MODULE IncomingQueueProofs ------------------------
(***************************************************************************)
(* Proofs about IncomingQueue for every ring size, every set of threads    *)
(* and every set of packets.                                               *)
(***************************************************************************)
EXTENDS IncomingQueue, SequenceTheorems, TLAPS

USE SizeAssumption, ByteAssumption, CounterAssumption, PacketAssumption,
    OutSizeAssumption, FlagAssumption

Inside == {"load", "store", "unlock"}   \* where a thread holds MutexIQ

(* MutexIQ is owned by exactly the thread that is inside its section.      *)
MutexOwner == /\ MutexIQ = UsbThread <=> usbPc \in Inside
              /\ \A t \in Thread : MutexIQ = t <=> appPc[t] \in Inside

(* A fill level that was read is still the fill level when it is used.     *)
Fresh == /\ usbPc = "store" => usbN = iBytesIQ
         /\ \A t \in Thread : appPc[t] = "store" => appN[t] = iBytesIQ

(* The callback enters the section only with bytes to queue.               *)
Pending == usbPc \in {"lock", "load", "store"} => usbChars # <<>>

IInv == TypeOK /\ RingConsistent /\ MutexOwner /\ Fresh /\ Pending

LEMMA CounterRange ==
  ASSUME NEW n \in Nat
  PROVE  (n + 1) % CounterMod \in 0 .. CounterMod - 1
  OBVIOUS

LEMMA TailNonEmpty ==
  ASSUME NEW S, NEW s \in Seq(S), Len(s) > 1
  PROVE  Tail(s) # <<>>
<1>1. Len(s) \in Nat /\ s # <<>>
  BY LenProperties
<1>2. Len(Tail(s)) = Len(s) - 1
  BY <1>1, HeadTailProperties
<1>3. Len(Tail(s)) # 0
  BY <1>1, <1>2
<1>4. Len(<<>>) = 0
  OBVIOUS
<1> QED
  BY <1>3, <1>4, Zenon

(* TypeOK with Pending is inductive: the callback takes Head(usbChars).    *)
LEMMA TypeStep == TypeOK /\ Pending /\ [Next]_vars => TypeOK' /\ Pending'
<1> SUFFICES ASSUME TypeOK, Pending, [Next]_vars PROVE TypeOK' /\ Pending'
  OBVIOUS
<1> USE DEF TypeOK, Pending, UsbPc, AppPc, Status, Op
<1>1. CASE Unplug
  BY <1>1 DEF Unplug, ring, appVars
<1>2. CASE Disconnected
  BY <1>2 DEF Disconnected, ring, appVars
<1>3. ASSUME NEW p \in Packet \union {<<>>}, NEW s \in Status,
             Callback_BulkInp(p, s)
      PROVE  TypeOK' /\ Pending'
  <2>1. p \in Seq(Byte)
    BY EmptySeq
  <2>2. Len(p) \in Nat /\ \A i \in 1 .. Len(p) : p[i] \in Byte
    BY <2>1, LenProperties, ElementOfSeq
  <2>3. SubSeq(p, 3, Len(p)) \in Seq(Byte)
    BY <2>2, SubSeqProperties
  <2>4. Payload(p) \in Seq(Byte)
    BY <2>1, <2>3 DEF Payload
  <2> QED
    BY <1>3, <2>4 DEF Callback_BulkInp, ring, appVars
<1>4. CASE UsbLock
  BY <1>4 DEF UsbLock, ring, appVars
<1>5. CASE PutLoad
  BY <1>5 DEF PutLoad, ring, appVars
<1>6. CASE PutStore
  <2>1. /\ Head(usbChars) \in Byte /\ Tail(usbChars) \in Seq(Byte)
        /\ Len(Tail(usbChars)) = Len(usbChars) - 1
    BY <1>6, HeadTailProperties DEF PutStore
  <2>2. Len(usbChars) > 1 => Tail(usbChars) # <<>>
    BY TailNonEmpty
  <2>3. Pending'
    BY <1>6, <2>2 DEF PutStore
  <2>4. /\ bmIncomingQueue' \in [0 .. Size - 1 -> Byte]
        /\ iBytesIQ' \in 0 .. Size
        /\ iHeadIQ' \in 0 .. Size - 1 /\ iTailIQ' \in 0 .. Size - 1
        /\ iCounterOverflowIQ' \in 0 .. CounterMod - 1
        /\ received' \in BOOLEAN
    <3>1. CASE usbN < Size
      <4>1. bmIncomingQueue' \in [0 .. Size - 1 -> Byte]
        BY <1>6, <2>1, <3>1 DEF PutStore, PutChar_Incoming
      <4>2. iBytesIQ' \in 0 .. Size
        BY <1>6, <3>1 DEF PutStore, PutChar_Incoming
      <4>3. iTailIQ' \in 0 .. Size - 1
        BY <1>6, <3>1 DEF PutStore, PutChar_Incoming, Wrap
      <4>4. UNCHANGED <<iHeadIQ, iCounterOverflowIQ>>
        BY <1>6, <3>1 DEF PutStore, PutChar_Incoming
      <4>5. received' \in BOOLEAN
        BY <1>6, <3>1 DEF PutStore, PutChar_Incoming
      <4> QED
        BY <4>1, <4>2, <4>3, <4>4, <4>5
    <3>2. CASE ~(usbN < Size)
      BY <1>6, <3>2, CounterRange DEF PutStore, PutChar_Incoming
    <3> QED
      BY <3>1, <3>2
  <2> QED
    BY <1>6, <2>1, <2>3, <2>4 DEF PutStore, appVars
<1>7. CASE UsbUnlock
  BY <1>7 DEF UsbUnlock, ring, appVars
<1>8. CASE Restart
  BY <1>8 DEF Restart, ring, appVars
<1>9. ASSUME NEW t \in Thread, NEW op \in Op, NEW n \in Nat, Enter(t, op, n)
      PROVE  TypeOK' /\ Pending'
  BY <1>9 DEF Enter, ring, usbVars
<1>10. ASSUME NEW t \in Thread, AppLock(t) PROVE TypeOK' /\ Pending'
  BY <1>10 DEF AppLock, ring, usbVars
<1>11. ASSUME NEW t \in Thread, GetLoad(t) PROVE TypeOK' /\ Pending'
  BY <1>11 DEF GetLoad, ring, usbVars
<1>12. ASSUME NEW t \in Thread, GetStore(t) PROVE TypeOK' /\ Pending'
  <2>1. /\ appRes' \in [Thread -> Int] /\ appI' \in [Thread -> Nat]
        /\ appPc' \in [Thread -> AppPc]
    <3>1. CASE ByteDone(t)
      BY <3>1, <1>12 DEF ByteDone, GetStore, GetResult, True, False
    <3>2. CASE BytesDone(t)
      <4>1. appI' \in [Thread -> Nat]
        BY <3>2 DEF BytesDone
      <4> QED
        BY <4>1, <3>2 DEF BytesDone
    <3> QED
      BY <3>1, <3>2, <1>12 DEF GetStore
  <2>2. /\ bmIncomingQueue' \in [0 .. Size - 1 -> Byte]
        /\ iBytesIQ' \in 0 .. Size
        /\ iHeadIQ' \in 0 .. Size - 1 /\ iTailIQ' \in 0 .. Size - 1
        /\ iCounterOverflowIQ' \in 0 .. CounterMod - 1
        /\ received' \in BOOLEAN
        /\ got' \in [Thread -> Byte] /\ appTaken' \in [Thread -> Nat]
    <3>1. CASE appN[t] # 0
      <4>1. iBytesIQ' \in 0 .. Size
        BY <1>12, <3>1 DEF GetStore, GetChar_Incoming
      <4>2. iHeadIQ' \in 0 .. Size - 1
        BY <1>12, <3>1 DEF GetStore, GetChar_Incoming, Wrap
      <4>3. UNCHANGED <<bmIncomingQueue, iTailIQ, iCounterOverflowIQ>>
        BY <1>12, <3>1 DEF GetStore, GetChar_Incoming
      <4>4. received' \in BOOLEAN
        BY <1>12, <3>1 DEF GetStore, GetChar_Incoming
      <4>5. bmIncomingQueue[iHeadIQ] \in Byte
        OBVIOUS
      <4>6. got' \in [Thread -> Byte]
        BY <1>12, <3>1, <4>5 DEF GetStore, GetChar_Incoming
      <4>7. appTaken' \in [Thread -> Nat]
        <5>1. appTaken' = [appTaken EXCEPT ![t] = @ + 1]
          BY <1>12, <3>1 DEF GetStore, GetChar_Incoming
        <5> QED
          BY <5>1
      <4> QED
        BY <4>1, <4>2, <4>3, <4>4, <4>6, <4>7
    <3>2. CASE appN[t] = 0
      BY <1>12, <3>2 DEF GetStore, GetChar_Incoming, ring
    <3> QED
      BY <3>1, <3>2
  <2> QED
    BY <1>12, <2>1, <2>2 DEF GetStore, usbVars
<1>13. ASSUME NEW t \in Thread, AppUnlock(t) PROVE TypeOK' /\ Pending'
  <2>1. /\ appPc' \in [Thread -> AppPc] /\ appOp' \in [Thread -> Op]
        /\ appOut' \in [Thread -> Nat] /\ appI' \in [Thread -> Nat]
    BY <1>13 DEF AppUnlock
  <2>2. /\ appN' \in [Thread -> 0 .. Size] /\ appRes' \in [Thread -> Int]
        /\ appTaken' \in [Thread -> Nat]
    BY <1>13 DEF AppUnlock, Error
  <2> QED
    BY <1>13, <2>1, <2>2 DEF AppUnlock, ring, usbVars
<1>14. CASE UNCHANGED vars
  BY <1>14 DEF vars, ring, usbVars, appVars
<1> QED
  BY <1>1, <1>2, <1>3, <1>4, <1>5, <1>6, <1>7, <1>8, <1>9, <1>10, <1>11,
     <1>12, <1>13, <1>14
     DEF Next, UsbStep, AppStep, Refused, ProcCmd_GET_BYTE, ProcCmd_GET_BYTES

LEMMA TypeInit == Init => TypeOK /\ Pending
  BY EmptySeq DEF Init, TypeOK, Pending, UsbPc, AppPc, Status, Op, Error

(* Every field of the receive path keeps its type and every index stays    *)
(* inside bmIncomingQueue, for every ring size and set of threads.         *)
THEOREM TypeCorrect == Spec => []TypeOK
<1>1. Init => TypeOK /\ Pending
  BY TypeInit
<1>2. TypeOK /\ Pending /\ [Next]_vars => TypeOK' /\ Pending'
  BY TypeStep
<1> QED
  BY <1>1, <1>2, PTL DEF Spec

-----------------------------------------------------------------------------
(* The inductive invariant.                                                *)

LEMMA InvInit == Init => IInv
<1> SUFFICES ASSUME Init PROVE IInv
  OBVIOUS
<1>1. TypeOK /\ Pending
  BY TypeInit
<1>2. RingConsistent
  BY DEF Init, RingConsistent, Slot
<1>3. MutexOwner /\ Fresh
  BY ThreadAssumption DEF Init, MutexOwner, Fresh, Inside, Free, UsbThread
<1> QED
  BY <1>1, <1>2, <1>3 DEF IInv

(* What a step that leaves the ring, and what was read from it, alone      *)
(* keeps.                                                                  *)
LEMMA RingUntouched ==
  RingConsistent /\ UNCHANGED ring => RingConsistent'
  BY DEF RingConsistent, Slot, ring

LEMMA InvStep == IInv /\ [Next]_vars => IInv'
<1> SUFFICES ASSUME IInv, [Next]_vars
             PROVE  RingConsistent' /\ MutexOwner' /\ Fresh'
  BY TypeStep DEF IInv
<1>t. TypeOK /\ TypeOK'
  BY TypeStep DEF IInv
<1>i. RingConsistent /\ MutexOwner /\ Fresh
  BY DEF IInv
<1>n. /\ iBytesIQ \in 0 .. Size
      /\ iHeadIQ \in 0 .. Size - 1 /\ iTailIQ \in 0 .. Size - 1
  BY <1>t DEF TypeOK
<1> USE ThreadAssumption DEF Inside, Free, UsbThread
<1>1. CASE Unplug \/ Disconnected
  BY <1>1, <1>i, RingUntouched
     DEF Unplug, Disconnected, ring, appVars, MutexOwner, Fresh
<1>3. ASSUME NEW p \in Packet \union {<<>>}, NEW s \in Status,
             Callback_BulkInp(p, s)
      PROVE  RingConsistent' /\ MutexOwner' /\ Fresh'
  BY <1>3, <1>i, RingUntouched
     DEF Callback_BulkInp, ring, appVars, MutexOwner, Fresh
<1>4. CASE UsbLock
  BY <1>4, <1>i, RingUntouched DEF UsbLock, ring, appVars, MutexOwner, Fresh
<1>5. CASE PutLoad
  BY <1>5, <1>i, RingUntouched DEF PutLoad, ring, appVars, MutexOwner, Fresh
<1>6. CASE PutStore
  <2>1. MutexOwner'
    BY <1>6, <1>i DEF PutStore, appVars, MutexOwner
  <2>2. \A t \in Thread : appPc[t] \notin Inside
    BY <1>6, <1>i DEF PutStore, MutexOwner
  <2>3. Fresh'
    BY <1>6, <2>2 DEF PutStore, appVars, Fresh
  <2>4. usbN = iBytesIQ
    BY <1>6, <1>i DEF PutStore, Fresh
  <2>5. RingConsistent'
    <3>1. CASE usbN < Size
      <4>1. /\ iBytesIQ' = iBytesIQ + 1 /\ iHeadIQ' = iHeadIQ
            /\ iTailIQ' = Wrap(iTailIQ) /\ received' = TRUE
        BY <3>1, <2>4, <1>6 DEF PutStore, PutChar_Incoming
      <4>2. iBytesIQ \in Nat /\ iHeadIQ \in 0 .. Size - 1 /\ iBytesIQ < Size
        BY <3>1, <2>4, <1>n
      <4>3. iTailIQ' = Slot(iBytesIQ)'
        BY <4>1, <4>2, <1>i DEF RingConsistent, Slot, Wrap
      <4>4. received' <=> iBytesIQ' > 0
        BY <4>1, <4>2
      <4> QED
        BY <4>3, <4>4 DEF RingConsistent
    <3>2. CASE ~(usbN < Size)
      BY <3>2, <1>6, <1>i
         DEF PutStore, PutChar_Incoming, RingConsistent, Slot
    <3> QED
      BY <3>1, <3>2
  <2> QED
    BY <2>1, <2>3, <2>5
<1>7. CASE UsbUnlock
  BY <1>7, <1>i, RingUntouched DEF UsbUnlock, ring, appVars, MutexOwner, Fresh
<1>8. CASE Restart
  BY <1>8, <1>i, RingUntouched DEF Restart, ring, appVars, MutexOwner, Fresh
<1>9. ASSUME NEW t \in Thread, NEW op \in Op, NEW n \in Nat, Enter(t, op, n)
      PROVE  RingConsistent' /\ MutexOwner' /\ Fresh'
  BY <1>9, <1>i, <1>t, RingUntouched
     DEF Enter, ring, usbVars, MutexOwner, Fresh, TypeOK
<1>10. ASSUME NEW t \in Thread, AppLock(t)
       PROVE  RingConsistent' /\ MutexOwner' /\ Fresh'
  BY <1>10, <1>i, <1>t, RingUntouched
     DEF AppLock, ring, usbVars, MutexOwner, Fresh, TypeOK
<1>11. ASSUME NEW t \in Thread, GetLoad(t)
       PROVE  RingConsistent' /\ MutexOwner' /\ Fresh'
  BY <1>11, <1>i, <1>t, RingUntouched
     DEF GetLoad, ring, usbVars, MutexOwner, Fresh, TypeOK
<1>12. ASSUME NEW t \in Thread, GetStore(t)
       PROVE  RingConsistent' /\ MutexOwner' /\ Fresh'
  <2>1. MutexIQ = t /\ appN[t] = iBytesIQ
    BY <1>12, <1>i DEF GetStore, MutexOwner, Fresh
  <2>2. \E c \in {"load", "unlock"} : appPc' = [appPc EXCEPT ![t] = c]
    BY <1>12 DEF GetStore, ByteDone, BytesDone
  <2>3. MutexOwner'
    BY <1>12, <1>i, <1>t, <2>1, <2>2
       DEF GetStore, usbVars, MutexOwner, TypeOK
  <2>4. Fresh'
    BY <1>12, <1>i, <1>t, <2>1, <2>2
       DEF GetStore, usbVars, MutexOwner, Fresh, TypeOK
  <2>5. RingConsistent'
    <3>1. CASE appN[t] # 0
      <4>1. /\ iBytesIQ' = iBytesIQ - 1 /\ iHeadIQ' = Wrap(iHeadIQ)
            /\ iTailIQ' = iTailIQ
            /\ received' = IF iBytesIQ = 1 THEN FALSE ELSE received
        BY <3>1, <2>1, <1>12 DEF GetStore, GetChar_Incoming
      <4>2. iBytesIQ \in 1 .. Size /\ iHeadIQ \in 0 .. Size - 1
        BY <3>1, <2>1, <1>n
      <4>3. iTailIQ' = Slot(iBytesIQ)'
        BY <4>1, <4>2, <1>i DEF RingConsistent, Slot, Wrap
      <4>4. received' <=> iBytesIQ' > 0
        BY <4>1, <4>2, <1>i DEF RingConsistent
      <4> QED
        BY <4>3, <4>4 DEF RingConsistent
    <3>2. CASE appN[t] = 0
      BY <3>2, <1>12, <1>i, RingUntouched DEF GetStore, GetChar_Incoming
    <3> QED
      BY <3>1, <3>2
  <2> QED
    BY <2>3, <2>4, <2>5
<1>13. ASSUME NEW t \in Thread, AppUnlock(t)
       PROVE  RingConsistent' /\ MutexOwner' /\ Fresh'
  BY <1>13, <1>i, <1>t, RingUntouched
     DEF AppUnlock, ring, usbVars, MutexOwner, Fresh, TypeOK
<1>14. CASE UNCHANGED vars
  BY <1>14, <1>i, RingUntouched
     DEF vars, ring, usbVars, appVars, MutexOwner, Fresh
<1> QED
  BY <1>1, <1>3, <1>4, <1>5, <1>6, <1>7, <1>8, <1>9, <1>10, <1>11, <1>12,
     <1>13, <1>14
     DEF Next, UsbStep, AppStep, Refused, ProcCmd_GET_BYTE, ProcCmd_GET_BYTES, Op

LEMMA InvAlways == Spec => []IInv
  BY InvInit, InvStep, PTL DEF Spec

(* The counter, the two indices and the event bit agree in every           *)
(* interleaving of the callback with any number of threads.                *)
THEOREM RingCorrect == Spec => []RingConsistent
<1>1. IInv => RingConsistent
  BY DEF IInv
<1> QED
  BY <1>1, InvAlways, PTL
-----------------------------------------------------------------------------
(* The receive path implements Fifo.                                       *)

(* What the queue of Fifo is made of.                                      *)
Listing == /\ Contents \in Seq(Byte)
           /\ Len(Contents) = iBytesIQ
           /\ \A i \in 1 .. iBytesIQ : Contents[i] = bmIncomingQueue[Slot(i - 1)]

LEMMA ContentsProperties == TypeOK => Listing
<1> SUFFICES ASSUME TypeOK PROVE Listing
  OBVIOUS
<1>1. iBytesIQ \in 0 .. Size /\ iHeadIQ \in 0 .. Size - 1
  BY DEF TypeOK
<1>2. \A i \in 1 .. iBytesIQ : Slot(i - 1) \in 0 .. Size - 1
  BY <1>1 DEF Slot
<1>3. \A i \in 1 .. iBytesIQ : bmIncomingQueue[Slot(i - 1)] \in Byte
  BY <1>2 DEF TypeOK
<1>4. Contents \in [1 .. iBytesIQ -> Byte]
  BY <1>3 DEF Contents
<1>5. Contents \in Seq(Byte)
  BY <1>1, <1>4, SeqDef
<1>6. Len(Contents) = iBytesIQ
  <2>1. DOMAIN Contents = 1 .. iBytesIQ
    BY DEF Contents
  <2>2. Len(Contents) \in Nat /\ DOMAIN Contents = 1 .. Len(Contents)
    BY <1>5, LenProperties
  <2> QED
    BY <1>1, <2>1, <2>2
<1> QED
  BY <1>5, <1>6 DEF Contents, Listing

(* The same of the state after a step.                                     *)
LEMMA ContentsNext == TypeOK' => Listing'
  BY ContentsProperties, PTL

(* A step that leaves the ring alone leaves the queue of Fifo alone.       *)
LEMMA FifoStutter ==
  UNCHANGED <<ring, got>> => UNCHANGED F!vars
  BY DEF F!vars, ring, Contents, Slot

LEMMA PutImplements == IInv /\ IInv' /\ PutStore => F!Next
<1> SUFFICES ASSUME IInv, IInv', PutStore PROVE F!Next
  OBVIOUS
<1> DEFINE b == Head(usbChars)
<1>t. TypeOK /\ TypeOK' /\ RingConsistent /\ usbN = iBytesIQ /\ usbChars # <<>>
  BY DEF IInv, Fresh, Pending, PutStore
<1>n. /\ iBytesIQ \in 0 .. Size
      /\ iHeadIQ \in 0 .. Size - 1 /\ iTailIQ \in 0 .. Size - 1
      /\ bmIncomingQueue \in [0 .. Size - 1 -> Byte]
  BY <1>t DEF TypeOK
<1>b. b \in Byte
  BY <1>t, HeadTailProperties DEF TypeOK
<1>g. got' = got
  BY DEF PutStore, appVars
<1>1. CASE usbN < Size
  <2>1. /\ bmIncomingQueue' = [bmIncomingQueue EXCEPT ![iTailIQ] = b]
        /\ iBytesIQ' = iBytesIQ + 1
        /\ UNCHANGED <<iHeadIQ, iCounterOverflowIQ>>
    BY <1>1, <1>t DEF PutStore, PutChar_Incoming
  <2>2. Contents' \in Seq(Byte) /\ Len(Contents') = iBytesIQ + 1
    BY <1>t, <2>1, ContentsNext DEF Listing
  <2>3. Append(Contents, b) \in Seq(Byte)
        /\ Len(Append(Contents, b)) = iBytesIQ + 1
    BY <1>t, <1>b, ContentsProperties, AppendProperties DEF Listing
  <2>4. ASSUME NEW i \in 1 .. iBytesIQ + 1
        PROVE  Contents'[i] = Append(Contents, b)[i]
    <3>1. Contents'[i] = bmIncomingQueue'[Slot(i - 1)]
      BY <1>t, <2>1, <2>4, ContentsNext DEF Listing, Slot
    <3>2. CASE i = iBytesIQ + 1
      <4>1. Slot(i - 1) = iTailIQ
        BY <3>2, <1>t, <1>n DEF RingConsistent
      <4>2. bmIncomingQueue'[Slot(i - 1)] = b
        BY <4>1, <2>1, <1>n
      <4>3. Append(Contents, b)[i] = b
        BY <3>2, <1>t, <1>b, ContentsProperties, AppendProperties DEF Listing
      <4> QED
        BY <3>1, <4>2, <4>3
    <3>3. CASE i \in 1 .. iBytesIQ
      <4>1. Slot(i - 1) # iTailIQ /\ Slot(i - 1) \in 0 .. Size - 1
        BY <3>3, <1>1, <1>t, <1>n DEF RingConsistent, Slot
      <4>2. bmIncomingQueue'[Slot(i - 1)] = bmIncomingQueue[Slot(i - 1)]
        BY <4>1, <2>1, <1>n
      <4>3. Append(Contents, b)[i] = Contents[i]
        BY <3>3, <1>t, <1>b, ContentsProperties, AppendProperties DEF Listing
      <4>4. Contents[i] = bmIncomingQueue[Slot(i - 1)]
        BY <3>3, <1>t, ContentsProperties DEF Listing
      <4> QED
        BY <3>1, <4>2, <4>3, <4>4
    <3>4. i = iBytesIQ + 1 \/ i \in 1 .. iBytesIQ
      <4>1. iBytesIQ \in Nat
        BY <1>n
      <4> QED
        BY ONLY <2>4, <4>1
    <3> QED
      BY ONLY <3>2, <3>3, <3>4
  <2>5. Contents' = Append(Contents, b)
    BY <2>2, <2>3, <2>4, SeqEqual
  <2>6. Len(Contents) < Size
    BY <1>1, <1>t, ContentsProperties DEF Listing
  <2> QED
    BY <2>1, <2>5, <2>6, <1>b, <1>g DEF F!Next, F!Keep
<1>2. CASE ~(usbN < Size)
  <2>1. /\ iCounterOverflowIQ' = (iCounterOverflowIQ + 1) % CounterMod
        /\ UNCHANGED <<bmIncomingQueue, iBytesIQ, iHeadIQ>>
    BY <1>2 DEF PutStore, PutChar_Incoming
  <2>2. Len(Contents) = Size
    BY <1>2, <1>t, <1>n, ContentsProperties DEF Listing
  <2>3. Contents' = Contents
    BY <2>1 DEF Contents, Slot
  <2> QED
    BY <2>1, <2>2, <2>3, <1>g DEF F!Next, F!Lose
<1> QED
  BY <1>1, <1>2

LEMMA GetImplements ==
  ASSUME IInv, IInv', NEW t \in Thread, GetStore(t)
  PROVE  F!Next \/ UNCHANGED F!vars
<1>t. TypeOK /\ TypeOK' /\ appN[t] = iBytesIQ
  BY DEF IInv, Fresh, GetStore
<1>n. /\ iBytesIQ \in 0 .. Size /\ iHeadIQ \in 0 .. Size - 1
  BY <1>t DEF TypeOK
<1>1. CASE appN[t] # 0
  <2>1. /\ got' = [got EXCEPT ![t] = bmIncomingQueue[iHeadIQ]]
        /\ iBytesIQ' = iBytesIQ - 1
        /\ iHeadIQ' = Wrap(iHeadIQ)
        /\ UNCHANGED <<bmIncomingQueue, iCounterOverflowIQ>>
    BY <1>1, <1>t DEF GetStore, GetChar_Incoming
  <2>2. /\ Contents \in Seq(Byte) /\ Len(Contents) = iBytesIQ
        /\ \A i \in 1 .. iBytesIQ : Contents[i] = bmIncomingQueue[Slot(i - 1)]
    BY <1>t, ContentsProperties DEF Listing
  <2>3. Contents # <<>>
    <3>1. Len(<<>>) = 0 /\ Len(Contents) # 0
      BY <2>2, <1>1, <1>t
    <3> QED
      BY <3>1, Zenon
  <2>4. Head(Contents) = bmIncomingQueue[iHeadIQ]
    <3>1. Head(Contents) = Contents[1]
      BY <2>2, <2>3
    <3>2. Contents[1] = bmIncomingQueue[Slot(0)]
      BY <2>2, <1>1, <1>t, <1>n
    <3> QED
      BY <3>1, <3>2, <1>n DEF Slot
  <2>5. /\ Tail(Contents) \in Seq(Byte) /\ Len(Tail(Contents)) = iBytesIQ - 1
        /\ \A i \in 1 .. iBytesIQ - 1 : Tail(Contents)[i] = Contents[i + 1]
    BY <2>2, <2>3, HeadTailProperties
  <2>6. /\ Contents' \in Seq(Byte) /\ Len(Contents') = iBytesIQ - 1
        /\ \A i \in 1 .. iBytesIQ - 1 :
              Contents'[i] = bmIncomingQueue[Slot(i - 1)']
    BY <1>t, <2>1, ContentsNext DEF Listing
  <2>7. ASSUME NEW i \in 1 .. iBytesIQ - 1
        PROVE  Contents'[i] = Tail(Contents)[i]
    <3>1. Slot(i - 1)' = Slot(i)
      BY <2>1, <1>n DEF Slot, Wrap
    <3>2. Contents[i + 1] = bmIncomingQueue[Slot(i)]
      BY <2>2, <1>n
    <3> QED
      BY <2>5, <2>6, <3>1, <3>2
  <2>8. Contents' = Tail(Contents)
    BY <2>5, <2>6, <2>7, SeqEqual
  <2> QED
    BY <2>1, <2>3, <2>4, <2>8 DEF F!Next, F!Take
<1>2. CASE appN[t] = 0
  BY <1>2, FifoStutter DEF GetStore, GetChar_Incoming
<1> QED
  BY <1>1, <1>2

(* The receive path implements the bounded queue Fifo, for every ring size *)
(* and any number of threads: no byte that PutChar_Incoming keeps is lost, *)
(* duplicated or reordered before GetChar_Incoming gives it to a thread.   *)
THEOREM ImplementsFifo == Spec => FifoSpec
<1>1. Init => F!Init
  <2> SUFFICES ASSUME Init PROVE F!Init
    OBVIOUS
  <2>1. TypeOK /\ iBytesIQ = 0
    BY TypeInit DEF Init
  <2>2. Contents = <<>>
    BY <2>1, ContentsProperties, EmptySeq DEF Listing
  <2> QED
    BY <2>1, <2>2 DEF F!Init, Init, TypeOK
<1>2. IInv /\ IInv' /\ [Next]_vars => [F!Next]_F!vars
  <2> SUFFICES ASSUME IInv, IInv', [Next]_vars PROVE F!Next \/ UNCHANGED F!vars
    BY DEF F!vars
  <2>1. CASE PutStore
    BY <2>1, PutImplements
  <2>2. ASSUME NEW t \in Thread, GetStore(t) PROVE F!Next \/ UNCHANGED F!vars
    BY <2>2, GetImplements
  <2>3. CASE UNCHANGED <<ring, got>>
    BY <2>3, FifoStutter
  <2>4. \/ PutStore
        \/ \E t \in Thread : GetStore(t)
        \/ UNCHANGED <<ring, got>>
    BY DEF Next, UsbStep, AppStep, Refused, ProcCmd_GET_BYTE,
           ProcCmd_GET_BYTES, Unplug, Disconnected, Callback_BulkInp, UsbLock,
           PutLoad, UsbUnlock, Restart, Enter, AppLock, GetLoad, AppUnlock,
           vars, appVars
  <2> QED
    BY <2>1, <2>2, <2>3, <2>4
<1> QED
  BY <1>1, <1>2, InvAlways, PTL DEF Spec, FifoSpec, F!Spec

-----------------------------------------------------------------------------
(* The receiver stays armed.                                               *)

Submits == FALSE \notin SubmitResult

(* Disconnected comes after the unplug only, and a callback that began     *)
(* with the device there was not told that its pipe is closed.             *)
ArmedInv == /\ plugged => presence
            /\ ReceiverArmed
            /\ plugged /\ usbPc # "idle" => usbStatus # "closed"

LEMMA Submitted == ASSUME Submits, NEW r \in SubmitResult PROVE r
  BY FlagAssumption, Zenon DEF Submits

LEMMA ArmedStep ==
  ASSUME Submits, ArmedInv, [Next]_vars
  PROVE  ArmedInv'
<1>1. CASE UNCHANGED <<plugged, presence, usbPc, transfer, usbStatus>>
  BY <1>1 DEF ArmedInv, ReceiverArmed
<1>2. CASE Unplug \/ Disconnected
  <2>1. ~plugged'
    BY <1>2, Zenon DEF Unplug, Disconnected
  <2> QED
    BY <2>1 DEF ArmedInv, ReceiverArmed
<1>3. ASSUME NEW p, NEW s, Callback_BulkInp(p, s) PROVE ArmedInv'
  <2>1. UNCHANGED <<plugged, presence>> /\ usbPc' # "idle" /\ (plugged => usbStatus' # "closed")
    BY <1>3 DEF Callback_BulkInp
  <2> QED
    BY <2>1 DEF ArmedInv, ReceiverArmed
<1>4. CASE UsbLock \/ PutLoad \/ PutStore \/ UsbUnlock
  <2>1. usbPc # "idle" /\ usbPc' # "idle" /\ UNCHANGED <<plugged, presence, usbStatus>>
    BY <1>4 DEF UsbLock, PutLoad, PutStore, UsbUnlock
  <2> QED
    BY <2>1 DEF ArmedInv, ReceiverArmed
<1>5. CASE Restart
  <2>1. usbPc # "idle" /\ usbPc' = "idle" /\ UNCHANGED <<plugged, presence>>
    BY <1>5 DEF Restart
  <2>2. plugged => transfer' \in SubmitResult
    BY <1>5, <2>1 DEF Restart, ArmedInv
  <2>3. plugged => transfer'
    BY <2>2, Submitted, Zenon
  <2> QED
    BY <2>1, <2>3 DEF ArmedInv, ReceiverArmed
<1>6. ASSUME NEW t \in Thread,
             Refused(t) \/ ProcCmd_GET_BYTE(t) \/ ProcCmd_GET_BYTES(t) \/ AppStep(t)
      PROVE  UNCHANGED <<plugged, presence, usbPc, transfer, usbStatus>>
  BY <1>6 DEF Refused, ProcCmd_GET_BYTE, ProcCmd_GET_BYTES, AppStep, Enter, AppLock, GetLoad,
              GetStore, AppUnlock, vars, usbVars
<1>7. CASE UNCHANGED vars
  BY <1>1, <1>7 DEF vars, usbVars
<1> QED
  BY <1>1, <1>2, <1>3, <1>4, <1>5, <1>6, <1>7 DEF Next, UsbStep

(* Callback_BulkInp submits the receiver again after every transfer, the   *)
(* failed and the empty ones too: while the device is plugged and the      *)
(* stack accepts what it is given, bytes that arrive have somewhere to go. *)
THEOREM ReceiverCorrect == Submits /\ Spec => []ReceiverArmed
<1> SUFFICES ASSUME Submits PROVE Spec => []ReceiverArmed
  OBVIOUS
<1>1. Init => ArmedInv
  <2> SUFFICES ASSUME Init PROVE ArmedInv
    OBVIOUS
  <2>1. presence /\ transfer /\ usbPc = "idle"
    BY Submitted, Zenon DEF Init
  <2> QED
    BY <2>1 DEF ArmedInv, ReceiverArmed
<1>2. ArmedInv /\ [Next]_vars => ArmedInv'
  BY ArmedStep
<1>3. ArmedInv => ReceiverArmed
  BY DEF ArmedInv
<1> QED
  BY <1>1, <1>2, <1>3, PTL DEF Spec
=============================================================================
