---------------------------- MODULE KosFtdiProofs ----------------------------
(***************************************************************************)
(* Proofs about KosFtdi for any programs, devices, requests and sizes.     *)
(***************************************************************************)
EXTENDS KosFtdi, TLAPS

USE KosAssumption

ContextType == [in : {"none", "new", "orphan", "half", "bound", "gone"},
                lockPID : Program \union {NoProgram}, w : Nat, r : Nat]
SettingsType == [Setting -> Value \union {0, 1}]
EnteredType == [at : {"entered"}, op : 2 .. 26, c : Context]
PassedType == [at : {"passed"}, op : 2 .. 26, c : Context, seen : Program \union {NoProgram}]
ControlType == [at : {"waiting"}, op : Asks \union Tells, c : Context, value : Value \union {0}]
BulkType == [at : {"waiting"}, op : Bulk, c : Context, size : Nat, ecx : Nat, esi : Nat,
             edx : Nat, n : 1 .. 3]
CallType == {NoCall} \union EnteredType \union PassedType \union ControlType \union BulkType

KosTypes == /\ ctx \in [Context -> ContextType] /\ plugged \subseteq Context
            /\ reg \in [Context -> SettingsType] /\ call \in [Program -> CallType]
            /\ event \in [Program -> {"none", "auto", "manual"}]
            /\ raised \in [Program -> BOOLEAN] /\ onbus \in [Program -> BOOLEAN]
            /\ result \in [Program -> Int]
            /\ robbed \subseteq Program \X Context /\ bad \in BOOLEAN

ChunksLarge == \A c \in Context :
    Written(c) => ctx[c].w >= maxPacketSize /\ ctx[c].r >= maxPacketSize

(* A transfer has a call that waits, and no call has two; the event is of  *)
(* the kind WaitEvent leaves to the loop of the bulk calls only.           *)
Frame(p) == /\ ~Waiting(p) => ~onbus[p] /\ ~raised[p] /\ event[p] = "none"
            /\ Waiting(p) => event[p] = CreateEvent(call[p].op)
            /\ onbus[p] => ~raised[p]

(* A bulk call: what is done, the place of its chunk, and what the         *)
(* callback may have found.                                                *)
Bounded(p) == Waiting(p) /\ call[p].op \in Bulk =>
    /\ call[p].edx <= call[p].size - call[p].ecx
    /\ call[p].n = 1 => call[p].ecx = 0 /\ call[p].esi = 0
    /\ call[p].n = 2 => call[p].esi = call[p].ecx
    /\ raised[p] => result[p] \in -1 .. call[p].edx

(* A call that passed the test of the lock: its context had its fields; it *)
(* is still locked by the program unless that was robbed; a call that is   *)
(* about to lock found nobody's lock, one about to unlock its own; and a   *)
(* context with a transfer on the bus is still there.                      *)
Holder(p) ==
    /\ call[p].at \in {"passed", "waiting"} =>
          ctx[call[p].c].in \in {"orphan", "half", "bound", "gone"}
    /\ call[p].at \in {"passed", "waiting"} /\ call[p].op >= 4 /\ Listed(call[p].c) =>
          ctx[call[p].c].lockPID = p \/ <<p, call[p].c>> \in robbed
    /\ call[p].at = "passed" /\ call[p].op = 2 => call[p].seen = NoProgram
    /\ call[p].at = "passed" /\ call[p].op = 3 => call[p].seen = p
    /\ onbus[p] => Listed(call[p].c)

(* The setting found applied by a call whose callback said so.             *)
Applied(p) ==
    Waiting(p) /\ call[p].op \in Tells /\ raised[p] /\ result[p] = 0
    /\ SettingOf(call[p].op) # "none" /\ (\A q \in Program : <<q, call[p].c>> \notin robbed) =>
    reg[call[p].c][SettingOf(call[p].op)] = Wanted(call[p].op, call[p].value)

(* A setting that is not one of the two lines is a value of the request.   *)
Valued(p) == Waiting(p) /\ call[p].op \in Tells
             /\ SettingOf(call[p].op) \in Setting \ {"rts", "dtr"} => call[p].value \in Value

KosInv == /\ KosTypes /\ ChunksLarge
          /\ \A p \in Program : Frame(p) /\ Bounded(p) /\ Holder(p) /\ Applied(p) /\ Valued(p)

-----------------------------------------------------------------------------
(* The kinds of calls do not overlap.                                      *)
LEMMA CallKinds ==
  ASSUME NEW k \in CallType
  PROVE  /\ k.at \in {"out", "entered", "passed", "waiting"}
         /\ k.at = "out" <=> k = NoCall
         /\ k.at = "entered" => k \in EnteredType
         /\ k.at = "passed" => k \in PassedType
         /\ k.at = "waiting" /\ k.op \in Bulk => k \in BulkType
         /\ k.at = "waiting" /\ k.op \notin Bulk => k \in ControlType
         /\ k.at = "waiting" => k.op \in Transfers /\ k.op \in Int /\ k.op >= 8
         /\ k.at # "out" => k.c \in Context
  BY DEF CallType, NoCall, EnteredType, PassedType, ControlType, BulkType, Transfers, Bulk,
         Asks, Tells, write_data, read_data

LEMMA Codes ==
  /\ Bulk \subseteq Transfers /\ Asks \subseteq Transfers /\ Tells \subseteq Transfers
  /\ \A op \in Asks \union Tells : op \notin Bulk
  /\ \A op \in Tells : op \notin Asks
  /\ \A op \in Transfers : op \in Int /\ op >= 8
  BY DEF Transfers, Bulk, Asks, Tells, write_data, read_data

LEMMA KosInit == Init => KosInv
<1> SUFFICES ASSUME Init PROVE KosInv
  OBVIOUS
<1>1. raised \in [Program -> BOOLEAN] /\ onbus \in [Program -> BOOLEAN] /\ bad \in BOOLEAN
  BY Zenon DEF Init
<1>2. /\ ctx \in [Context -> ContextType] /\ plugged \subseteq Context
      /\ reg \in [Context -> SettingsType] /\ result \in [Program -> Int]
      /\ event \in [Program -> {"none", "auto", "manual"}]
      /\ call \in [Program -> CallType] /\ robbed \subseteq Program \X Context
  BY DEF Init, ContextType, SettingsType, NoContext, CallType
<1>3. \A c \in Context : ~Written(c)
  BY DEF Init, Written, NoContext
<1>4. \A p \in Program : call[p].at = "out" /\ ~onbus[p] /\ ~raised[p] /\ event[p] = "none"
  BY DEF Init, NoCall
<1>5. \A p \in Program : Frame(p) /\ Bounded(p) /\ Holder(p) /\ Applied(p) /\ Valued(p)
  BY <1>4 DEF Frame, Bounded, Holder, Applied, Valued, Waiting
<1> QED
  BY <1>1, <1>2, <1>3, <1>5 DEF KosInv, KosTypes, ChunksLarge

-----------------------------------------------------------------------------
(* What a step leaves alone.                                               *)

(* The step does nothing to the call of q.                                 *)
Kept(q) == /\ call'[q] = call[q] /\ event'[q] = event[q] /\ result'[q] = result[q]
           /\ raised'[q] <=> raised[q]
           /\ onbus'[q] <=> onbus[q]

LEMMA KeptCall ==
  ASSUME KosInv, NEW q \in Program, Kept(q)
  PROVE  Frame(q)' /\ Bounded(q)' /\ Valued(q)'
<1>1. Frame(q) /\ Bounded(q) /\ Valued(q)
  BY DEF KosInv
<1>2. Frame(q)'
  BY <1>1 DEF Kept, Frame, Waiting
<1>3. Bounded(q)' /\ Valued(q)'
  BY <1>1 DEF Kept, Bounded, Valued, Waiting
<1> QED
  BY <1>2, <1>3

(* Nor to the place and the lock of its context.                           *)
LEMMA KeptContext ==
  ASSUME KosInv, NEW q \in Program, Kept(q),
         call[q].at \in {"passed", "waiting"} =>
            /\ ctx'[call[q].c].in = ctx[call[q].c].in
            /\ ctx'[call[q].c].lockPID = ctx[call[q].c].lockPID,
         UNCHANGED robbed
  PROVE  Holder(q)'
<1>1. Holder(q) /\ Frame(q)
  BY DEF KosInv
<1>2. onbus[q] => call[q].at = "waiting"
  BY <1>1 DEF Frame, Waiting
<1> QED
  BY <1>1, <1>2 DEF Kept, Holder, Listed, Written

LEMMA KeptSetting ==
  ASSUME KosInv, NEW q \in Program, Kept(q), UNCHANGED <<reg, robbed>>
  PROVE  Applied(q)'
<1>1. Applied(q)
  BY DEF KosInv
<1> QED
  BY <1>1 DEF Kept, Applied, Waiting

(* The contexts and the settings stay as they are, and of the calls one    *)
(* changes.                                                                *)
LEMMA OneCall ==
  ASSUME KosInv, KosTypes', UNCHANGED <<ctx, reg, robbed>>, NEW p \in Program,
         \A q \in Program \ {p} : Kept(q),
         Frame(p)', Bounded(p)', Holder(p)', Applied(p)', Valued(p)'
  PROVE  KosInv'
<1>1. ChunksLarge'
  BY DEF KosInv, ChunksLarge, Written
<1>2. ASSUME NEW q \in Program \ {p}
      PROVE  Frame(q)' /\ Bounded(q)' /\ Holder(q)' /\ Applied(q)' /\ Valued(q)'
  BY KeptCall, KeptContext, KeptSetting
<1> QED
  BY <1>1, <1>2 DEF KosInv

LEMMA KosStutter ==
  ASSUME KosInv, UNCHANGED <<ctx, reg, call, event, raised, result, onbus, robbed>>,
         plugged' \subseteq Context, bad' \in BOOLEAN
  PROVE  KosInv'
<1>1. KosTypes' /\ ChunksLarge'
  BY DEF KosInv, KosTypes, ChunksLarge, Written
<1>2. \A p \in Program : Kept(p)
  BY DEF Kept
<1>3. \A p \in Program : Holder(p)'
  BY <1>2, KeptContext
<1> QED
  BY <1>1, <1>2, <1>3, KeptCall, KeptSetting DEF KosInv

-----------------------------------------------------------------------------
(* Devices that come and go.                                               *)

(* One context changes.  A call that passed its lock finds it locked as    *)
(* before or gone, and not gone when its transfer is on the bus.           *)
LEMMA OneContext ==
  ASSUME KosInv, NEW c \in Context, NEW x \in ContextType,
         ctx' = [ctx EXCEPT ![c] = x], plugged' \subseteq Context,
         UNCHANGED reg, UNCHANGED callVars,
         x.in \in {"orphan", "half", "bound"} => x.w >= maxPacketSize /\ x.r >= maxPacketSize,
         \A p \in Program : call[p].at \in {"passed", "waiting"} /\ call[p].c = c =>
            \/ x.in = "gone" /\ ~onbus[p]
            \/ /\ x.in \in {"orphan", "half", "bound"} /\ Listed(c)
               /\ x.lockPID = ctx[c].lockPID
  PROVE  KosInv'
<1>1. UNCHANGED <<call, event, raised, result, onbus, robbed, bad>>
  BY DEF callVars, frameVars
<1>2. ctx' \in [Context -> ContextType] /\ ctx'[c] = x
  BY DEF KosInv, KosTypes
<1>3. KosTypes'
  BY <1>1, <1>2 DEF KosInv, KosTypes
<1>4. \A d \in Context : d # c => ctx'[d] = ctx[d]
  BY DEF KosInv, KosTypes
<1>5. ChunksLarge'
  BY <1>2, <1>4 DEF KosInv, ChunksLarge, Written
<1>6. \A p \in Program : Kept(p)
  BY <1>1 DEF Kept
<1>7. ASSUME NEW p \in Program PROVE Holder(p)'
  <2>1. Holder(p) /\ Frame(p) /\ call[p] \in CallType
    BY DEF KosInv, KosTypes
  <2>2. CASE call[p].at \in {"passed", "waiting"} /\ call[p].c = c
    BY <1>1, <1>2, <2>1, <2>2 DEF Holder, Listed, Written
  <2>3. CASE call[p].at \in {"passed", "waiting"} /\ call[p].c # c
    <3>1. call[p].c \in Context
      BY <2>1, <2>3, CallKinds
    <3> QED
      BY <1>1, <1>4, <1>6, <2>3, <3>1, KeptContext
  <2>4. CASE call[p].at \notin {"passed", "waiting"}
    BY <1>1, <1>6, <2>4, KeptContext
  <2> QED
    BY <2>2, <2>3, <2>4
<1> QED
  BY <1>1, <1>3, <1>5, <1>6, <1>7, KeptCall, KeptSetting DEF KosInv

LEMMA DeviceSteps ==
  ASSUME KosInv, NEW c \in Context,
         \/ AddDevice(c) \/ WriteFields(c) \/ OpenPipe(c)
         \/ Unplug(c) \/ DeviceDisconnected(c)
  PROVE  KosInv'
<1>t. /\ plugged \subseteq Context /\ bad \in BOOLEAN /\ ctx \in [Context -> ContextType]
      /\ ctx[c] \in ContextType
  BY DEF KosInv, KosTypes
<1>h. ASSUME NEW p \in Program, call[p].at \in {"passed", "waiting"}, call[p].c = c
      PROVE  ctx[c].in \in {"orphan", "half", "bound", "gone"}
  BY <1>h DEF KosInv, Holder
<1>1. CASE AddDevice(c)
  <2>1. PICK place \in {"new", "gone"} : ctx' = [ctx EXCEPT ![c] = [NoContext EXCEPT !.in = place]]
    BY <1>1 DEF AddDevice
  <2>2. [NoContext EXCEPT !.in = place] \in ContextType /\ [NoContext EXCEPT !.in = place].in = place
    BY DEF NoContext, ContextType
  <2>3. PICK x \in ContextType : ctx' = [ctx EXCEPT ![c] = x] /\ x.in \notin {"orphan", "half", "bound"}
    BY <2>1, <2>2
  <2>6. ctx[c].in = "none" /\ plugged' \subseteq Context /\ UNCHANGED reg /\ UNCHANGED callVars
    BY <1>1, <1>t DEF AddDevice
  <2>4. \A p \in Program : call[p].at \in {"passed", "waiting"} /\ call[p].c = c =>
            \/ x.in = "gone" /\ ~onbus[p]
            \/ /\ x.in \in {"orphan", "half", "bound"} /\ Listed(c)
               /\ x.lockPID = ctx[c].lockPID
    BY <1>h, <2>6
  <2>5. x.in \in {"orphan", "half", "bound"} => x.w >= maxPacketSize /\ x.r >= maxPacketSize
    BY <2>3
  <2>7. ctx' = [ctx EXCEPT ![c] = x]
    BY <2>3
  <2>8. plugged' \subseteq Context /\ UNCHANGED reg /\ UNCHANGED callVars
    BY <2>6
  <2> QED
    BY <2>4, <2>5, <2>7, <2>8, OneContext
<1>2. CASE WriteFields(c)
  <2> DEFINE x == [in |-> "orphan", lockPID |-> NoProgram, w |-> maxPacketSize, r |-> maxPacketSize]
  <2>1. x \in ContextType /\ x.w >= maxPacketSize /\ x.r >= maxPacketSize
    BY DEF ContextType
  <2>2. /\ ctx[c].in = "new" /\ ctx' = [ctx EXCEPT ![c] = x]
        /\ UNCHANGED plugged /\ UNCHANGED reg /\ UNCHANGED callVars
    BY <1>2 DEF WriteFields
  <2>3. x.in = "orphan" /\ x.in \notin {"gone"}
    OBVIOUS
  <2> HIDE DEF x
  <2>4. \A p \in Program : call[p].at \in {"passed", "waiting"} /\ call[p].c = c =>
            \/ x.in = "gone" /\ ~onbus[p]
            \/ /\ x.in \in {"orphan", "half", "bound"} /\ Listed(c)
               /\ x.lockPID = ctx[c].lockPID
    BY <1>h, <2>2
  <2>5. x.in \in {"orphan", "half", "bound"} => x.w >= maxPacketSize /\ x.r >= maxPacketSize
    BY <2>1
  <2>6. x \in ContextType
    BY <2>1
  <2>7. ctx' = [ctx EXCEPT ![c] = x]
    BY <2>2
  <2>8. plugged' \subseteq Context /\ UNCHANGED reg /\ UNCHANGED callVars
    BY <1>t, <2>2
  <2> QED
    BY <2>4, <2>5, <2>6, <2>7, <2>8, OneContext
<1>3. CASE OpenPipe(c)
  <2> DEFINE x == [ctx[c] EXCEPT !.in = IF ctx[c].in = "orphan" THEN "half" ELSE "bound"]
  <2>1. /\ x \in ContextType /\ x.in \in {"orphan", "half", "bound"}
        /\ x.lockPID = ctx[c].lockPID /\ x.w = ctx[c].w /\ x.r = ctx[c].r
    BY <1>t DEF ContextType
  <2>2. /\ ctx[c].in \in {"orphan", "half"} /\ ctx' = [ctx EXCEPT ![c] = x]
        /\ UNCHANGED plugged /\ UNCHANGED reg /\ UNCHANGED callVars
    BY <1>3, <1>t DEF OpenPipe
  <2> HIDE DEF x
  <2>3. Listed(c) /\ x.w >= maxPacketSize /\ x.r >= maxPacketSize
    BY <2>1, <2>2 DEF KosInv, ChunksLarge, Written, Listed
  <2>4. \A p \in Program : call[p].at \in {"passed", "waiting"} /\ call[p].c = c =>
            \/ x.in = "gone" /\ ~onbus[p]
            \/ /\ x.in \in {"orphan", "half", "bound"} /\ Listed(c)
               /\ x.lockPID = ctx[c].lockPID
    BY <2>1, <2>3
  <2>5. x.in \in {"orphan", "half", "bound"} => x.w >= maxPacketSize /\ x.r >= maxPacketSize
    BY <2>3
  <2>6. x \in ContextType
    BY <2>1
  <2>7. ctx' = [ctx EXCEPT ![c] = x]
    BY <2>2
  <2>8. plugged' \subseteq Context /\ UNCHANGED reg /\ UNCHANGED callVars
    BY <1>t, <2>2
  <2> QED
    BY <2>4, <2>5, <2>6, <2>7, <2>8, OneContext
<1>4. CASE Unplug(c)
  BY <1>4, <1>t, KosStutter DEF Unplug, callVars, frameVars
<1>5. CASE DeviceDisconnected(c)
  <2> DEFINE x == [NoContext EXCEPT !.in = "gone"]
  <2>1. x \in ContextType /\ x.in = "gone"
    BY DEF NoContext, ContextType
  <2>2. /\ ctx' = [ctx EXCEPT ![c] = x] /\ \A p \in Users(c) : ~onbus[p]
        /\ UNCHANGED plugged /\ UNCHANGED reg /\ UNCHANGED callVars
    BY <1>5 DEF DeviceDisconnected
  <2>3. ASSUME NEW p \in Program, call[p].c = c PROVE ~onbus[p]
    <3>1. CASE Waiting(p)
      <4>1. call[p].op >= 4
        BY <3>1, CallKinds DEF KosInv, KosTypes, Waiting
      <4> QED
        BY <2>2, <2>3, <3>1, <4>1 DEF Users, Waiting
    <3>2. CASE ~Waiting(p)
      BY <3>2 DEF KosInv, Frame
    <3> QED
      BY <3>1, <3>2
  <2> HIDE DEF x
  <2>4. plugged' \subseteq Context
    BY <1>t, <2>2
  <2>5. x.in \in {"orphan", "half", "bound"} => x.w >= maxPacketSize /\ x.r >= maxPacketSize
    BY <2>1
  <2>6. \A p \in Program : call[p].at \in {"passed", "waiting"} /\ call[p].c = c =>
            \/ x.in = "gone" /\ ~onbus[p]
            \/ /\ x.in \in {"orphan", "half", "bound"} /\ Listed(c)
               /\ x.lockPID = ctx[c].lockPID
    BY <2>1, <2>3
  <2> QED
    BY <2>1, <2>2, <2>4, <2>5, <2>6, OneContext
<1> QED
  BY <1>1, <1>2, <1>3, <1>4, <1>5

-----------------------------------------------------------------------------
(* Calls that are not yet waiting.                                         *)

(* A call moves to a place where it does not wait, or is done.             *)
LEMMA NotWaiting ==
  ASSUME KosInv, NEW p \in Program, ~Waiting(p), NEW k \in CallType, k.at # "waiting",
         call' = [call EXCEPT ![p] = k], UNCHANGED frameVars
  PROVE  /\ call' \in [Program -> CallType] /\ call'[p] = k
         /\ \A q \in Program \ {p} : Kept(q)
         /\ Frame(p)' /\ Bounded(p)' /\ Applied(p)' /\ Valued(p)'
<1>1. /\ call' \in [Program -> CallType] /\ call'[p] = k
      /\ \A q \in Program \ {p} : call'[q] = call[q]
  BY DEF KosInv, KosTypes
<1>2. UNCHANGED <<event, raised, result, onbus>>
  BY DEF frameVars
<1>3. \A q \in Program \ {p} : Kept(q)
  BY <1>1, <1>2 DEF Kept
<1>4. ~Waiting(p)'
  BY <1>1 DEF Waiting
<1>5. ~onbus[p] /\ ~raised[p] /\ event[p] = "none"
  BY DEF KosInv, Frame
<1>6. Frame(p)'
  BY <1>2, <1>4, <1>5 DEF Frame
<1>7. Bounded(p)' /\ Applied(p)' /\ Valued(p)'
  BY <1>4 DEF Bounded, Applied, Valued
<1> QED
  BY <1>1, <1>3, <1>6, <1>7

(* Such a move alone keeps the invariant if its program holds what it      *)
(* needs.                                                                  *)
LEMMA HolderCall ==
  ASSUME KosInv, NEW p \in Program, ~Waiting(p), NEW k \in CallType, k.at # "waiting",
         call' = [call EXCEPT ![p] = k], UNCHANGED frameVars,
         UNCHANGED <<ctx, plugged, reg, robbed, bad>>, Holder(p)'
  PROVE  KosInv'
<1>1. /\ call' \in [Program -> CallType] /\ \A q \in Program \ {p} : Kept(q)
      /\ Frame(p)' /\ Bounded(p)' /\ Applied(p)' /\ Valued(p)'
  BY NotWaiting
<1>2. KosTypes'
  BY <1>1 DEF KosInv, KosTypes, frameVars
<1> QED
  BY <1>1, <1>2, OneCall

LEMMA EnterStep ==
  ASSUME KosInv, NEW p \in Program, NEW op \in Opcode, NEW c \in Context, Enter(p, op, c)
  PROVE  KosInv'
<1> DEFINE k == Entered(op, c)
<1>1. /\ call[p] = NoCall /\ op >= 2 /\ call' = [call EXCEPT ![p] = k]
      /\ UNCHANGED <<ctx, plugged, reg, robbed, bad>> /\ UNCHANGED frameVars
  BY DEF Enter, Idle
<1>2. k \in CallType /\ k.at = "entered"
  BY <1>1 DEF Entered, CallType, EnteredType
<1>3. ~Waiting(p)
  BY <1>1 DEF Waiting, NoCall
<1> HIDE DEF k
<1>4. /\ call' \in [Program -> CallType] /\ call'[p] = k
      /\ \A q \in Program \ {p} : Kept(q)
      /\ Frame(p)' /\ Bounded(p)' /\ Applied(p)' /\ Valued(p)'
  BY <1>1, <1>2, <1>3, NotWaiting
<1>5. ~onbus'[p]
  BY <1>1, <1>3 DEF KosInv, Frame, frameVars
<1>6. Holder(p)'
  BY <1>2, <1>4, <1>5 DEF Holder
<1> QED
  BY <1>1, <1>2, <1>3, <1>6, HolderCall

(* The test of the lock: it finds nobody's, or that of the program.        *)
LEMMA TestLockStep ==
  ASSUME KosInv, NEW p \in Program, TestLock(p)
  PROVE  KosInv'
<1> DEFINE c == call[p].c
           op == call[p].op
           k == IF LetThrough(p, op, ctx[c].lockPID) THEN Passed(op, c, ctx[c].lockPID) ELSE NoCall
<1>1. /\ call[p].at = "entered" /\ Written(c)
      /\ UNCHANGED <<ctx, plugged, reg, robbed, bad>> /\ UNCHANGED frameVars
  BY DEF TestLock
<1>2. call' = [call EXCEPT ![p] = k]
  BY DEF TestLock
<1>3. call[p] \in EnteredType /\ c \in Context /\ op \in 2 .. 26
  <2>1. call[p] \in CallType
    BY DEF KosInv, KosTypes
  <2>2. call[p] \in EnteredType
    BY <1>1, <2>1, CallKinds
  <2> QED
    BY <2>2 DEF EnteredType
<1>4. ctx[c] \in ContextType
  BY <1>3 DEF KosInv, KosTypes
<1>5. k \in CallType /\ k.at # "waiting"
  BY <1>3, <1>4 DEF Passed, CallType, PassedType, ContextType, NoCall
<1>6. ~Waiting(p) /\ ~onbus[p]
  BY <1>1 DEF Waiting, KosInv, Frame
<1>7. CASE LetThrough(p, op, ctx[c].lockPID)
  <2>1. k = Passed(op, c, ctx[c].lockPID)
    BY <1>7
  <2>2. /\ k.at = "passed" /\ k.op = op /\ k.c = c /\ k.seen = ctx[c].lockPID
        /\ op = 2 => k.seen = NoProgram
        /\ op # 2 => k.seen = p
    BY <1>7, <2>1 DEF Passed, LetThrough
  <2> HIDE DEF k, c, op
  <2>3. call'[p] = k
    BY <1>2, <1>5, <1>6, <1>1, NotWaiting
  <2> QED
    <3>1. Holder(p)'
      BY <1>1, <1>3, <1>6, <2>2, <2>3 DEF Holder, Written, frameVars
    <3> QED
      BY <3>1, <1>1, <1>2, <1>5, <1>6, HolderCall
<1>8. CASE ~LetThrough(p, op, ctx[c].lockPID)
  <2>1. k = NoCall
    BY <1>8
  <2> HIDE DEF k, c, op
  <2>2. call'[p] = k
    BY <1>2, <1>5, <1>6, <1>1, NotWaiting
  <2>3. Holder(p)'
    BY <1>1, <1>6, <2>1, <2>2 DEF Holder, NoCall, frameVars
  <2> QED
    BY <2>3, <1>1, <1>2, <1>5, <1>6, HolderCall
<1> QED
  BY <1>7, <1>8

(* The store of ftdi_lock or ftdi_unlock: whoever has the lock then and    *)
(* was not seen by the test is robbed, so that a call at work on the       *)
(* context either keeps its lock or is counted as robbed.                  *)
LEMMA StoreLockStep ==
  ASSUME KosInv, NEW p \in Program, StoreLock(p)
  PROVE  KosInv'
<1> DEFINE c == call[p].c
           holder == ctx[c].lockPID
           seen == call[p].seen
           owner == IF call[p].op = 2 THEN p ELSE NoProgram
           x == [ctx[c] EXCEPT !.lockPID = owner]
<1>1. /\ call[p].at = "passed" /\ call[p].op \in {2, 3} /\ Written(c)
      /\ ctx' = [ctx EXCEPT ![c].lockPID = owner]
      /\ robbed' = (robbed \ {<<owner, c>>}) \union ({holder} \ {seen, NoProgram}) \X {c}
      /\ call' = [call EXCEPT ![p] = NoCall]
      /\ UNCHANGED <<plugged, reg, bad>> /\ UNCHANGED frameVars
  BY DEF StoreLock, At
<1>t. KosTypes
  BY DEF KosInv
<1>2. call[p] \in PassedType /\ c \in Context /\ seen \in Program \union {NoProgram}
  <2>1. call[p] \in CallType
    BY <1>t DEF KosTypes
  <2>2. call[p] \in PassedType
    BY <1>1, <2>1, CallKinds
  <2> QED
    BY <2>2 DEF PassedType
<1>3. ctx[c] \in ContextType
  BY <1>t, <1>2 DEF KosTypes
<1>4. seen \in {NoProgram, p} /\ owner \in {NoProgram, p}
  BY <1>1 DEF KosInv, Holder
<1>5. holder \in Program \union {NoProgram}
  BY <1>3 DEF ContextType
<1>6. x \in ContextType /\ x.in = ctx[c].in /\ x.w = ctx[c].w /\ x.r = ctx[c].r /\ x.lockPID = owner
  BY <1>3, <1>4 DEF ContextType
<1>7. ctx' = [ctx EXCEPT ![c] = x]
  BY <1>1, <1>2, <1>t DEF KosTypes
<1>8. ~Waiting(p) /\ NoCall \in CallType /\ NoCall.at # "waiting" /\ ~onbus[p]
  BY <1>1 DEF Waiting, CallType, NoCall, KosInv, Frame
<1>9. /\ call' \in [Program -> CallType] /\ call'[p] = NoCall
      /\ \A q \in Program \ {p} : Kept(q)
      /\ Frame(p)' /\ Bounded(p)' /\ Applied(p)' /\ Valued(p)'
  BY <1>1, <1>8, NotWaiting
<1>r. /\ robbed' \subseteq Program \X Context
      /\ \A q \in Program \ {p}, d \in Context : <<q, d>> \in robbed => <<q, d>> \in robbed'
      /\ \A q \in Program \ {p} : holder = q => <<q, c>> \in robbed'
  <2>1. /\ owner = p \/ owner = NoProgram
        /\ \A q \in Program \ {p} : q # owner /\ q # seen /\ q # NoProgram
    BY <1>4
  <2> HIDE DEF c, holder, seen, owner
  <2>2. robbed \subseteq Program \X Context
    BY <1>t DEF KosTypes
  <2> QED
    BY <1>1, <1>2, <1>5, <2>1, <2>2
<1> HIDE DEF x, owner, holder, seen
<1>10. /\ ctx' \in [Context -> ContextType] /\ ctx'[c] = x
       /\ \A d \in Context \ {c} : ctx'[d] = ctx[d]
  BY <1>t, <1>2, <1>6, <1>7 DEF KosTypes
<1>11. KosTypes'
  BY <1>t, <1>1, <1>9, <1>10, <1>r DEF KosTypes, frameVars
<1>12. ChunksLarge'
  BY <1>6, <1>10 DEF KosInv, ChunksLarge, Written
<1>13. Holder(p)'
  BY <1>1, <1>8, <1>9 DEF Holder, NoCall, frameVars
<1>14. ASSUME NEW q \in Program \ {p} PROVE Holder(q)' /\ Applied(q)'
  <2> DEFINE d == call[q].c
  <2>1. Holder(q) /\ Applied(q) /\ Frame(q) /\ call[q] \in CallType /\ Kept(q)
    BY <1>t, <1>9 DEF KosInv, KosTypes
  <2>2. call'[q] = call[q] /\ (onbus'[q] <=> onbus[q]) /\ (raised'[q] <=> raised[q])
        /\ result'[q] = result[q]
    BY <2>1 DEF Kept
  <2>3. CASE call[q].at \notin {"passed", "waiting"}
    <3>1. ~Waiting(q) /\ ~onbus[q]
      BY <2>1, <2>3 DEF Frame, Waiting
    <3> QED
      BY <2>2, <2>3, <3>1 DEF Holder, Applied, Waiting
  <2>4. CASE call[q].at \in {"passed", "waiting"}
    <3>1. d \in Context
      BY <2>1, <2>4, CallKinds
    <3>2. <<q, d>> \in robbed => <<q, d>> \in robbed'
      BY <1>r, <3>1
    <3>3. ctx'[d].in = ctx[d].in /\ (d # c => ctx'[d].lockPID = ctx[d].lockPID)
      BY <1>6, <1>10, <3>1
    <3>4. d = c /\ ctx[d].lockPID = q => <<q, d>> \in robbed'
      BY <1>r DEF holder
    <3>5. Holder(q)'
      BY <2>1, <2>2, <2>4, <3>2, <3>3, <3>4 DEF Holder, Listed, Written
    <3>6. ASSUME Waiting(q), NEW r \in Program, <<r, d>> \in robbed
          PROVE  \E s \in Program : <<s, d>> \in robbed'
      <4>1. CASE d # c \/ r # p
        <5>1. <<r, d>> \in robbed'
          BY <1>1, <1>4, <3>6, <4>1
        <5> QED
          BY <5>1
      <4>2. CASE d = c /\ r = p
        <5>1. call[q].op >= 4
          BY <2>1, <3>6, CallKinds DEF Waiting
        <5>2. ctx[d].lockPID = q \/ <<q, d>> \in robbed
          BY <1>1, <2>1, <2>4, <4>2, <5>1 DEF Holder, Listed, Written
        <5>3. <<q, d>> \in robbed'
          BY <3>2, <3>4, <4>2, <5>2
        <5> QED
          BY <5>3
      <4> QED
        BY <4>1, <4>2
    <3>7. Applied(q)'
      BY <1>1, <2>1, <2>2, <3>6 DEF Applied, Waiting
    <3> QED
      BY <3>5, <3>7
  <2> QED
    BY <2>3, <2>4
<1> QED
  BY <1>9, <1>11, <1>12, <1>13, <1>14, KeptCall DEF KosInv

(* ftdi_set_chunksize: a chunk is never made smaller than a packet.        *)
LEMMA QuickStep ==
  ASSUME KosInv, NEW p \in Program, Quick(p)
  PROVE  KosInv'
<1> DEFINE c == call[p].c
<1>1. /\ call[p].at = "passed" /\ Written(c) /\ call' = [call EXCEPT ![p] = NoCall]
      /\ UNCHANGED <<plugged, reg, robbed, bad>> /\ UNCHANGED frameVars
  BY DEF Quick, At
<1>t. KosTypes
  BY DEF KosInv
<1>2. c \in Context
  BY <1>t, <1>1, CallKinds DEF KosTypes
<1>3. ctx[c] \in ContextType /\ ctx[c].w >= maxPacketSize /\ ctx[c].r >= maxPacketSize
  BY <1>t, <1>1, <1>2 DEF KosTypes, KosInv, ChunksLarge
<1>4. PICK size \in ChunkSize : ctx' = ftdi_set_chunksize(call[p].op, c, size)
  BY DEF Quick
<1>5. PICK x \in ContextType : /\ ctx' = [ctx EXCEPT ![c] = x]
                              /\ x.in = ctx[c].in /\ x.lockPID = ctx[c].lockPID
                              /\ x.w >= maxPacketSize /\ x.r >= maxPacketSize
  <2>1. size \in Nat
    OBVIOUS
  <2>2. CASE ctx' = ctx
    <3>1. ctx' = [ctx EXCEPT ![c] = ctx[c]]
      BY <1>t, <1>2, <2>2 DEF KosTypes
    <3> QED
      BY <1>3, <3>1
  <2>3. CASE ctx' = [ctx EXCEPT ![c].r = size] /\ size >= maxPacketSize
    <3> DEFINE x == [ctx[c] EXCEPT !.r = size]
    <3>1. x \in ContextType /\ x.in = ctx[c].in /\ x.lockPID = ctx[c].lockPID /\ x.w = ctx[c].w /\ x.r = size
      BY <1>3, <2>1 DEF ContextType
    <3>2. ctx' = [ctx EXCEPT ![c] = x]
      BY <1>t, <1>2, <2>3 DEF KosTypes
    <3> HIDE DEF x
    <3> QED
      BY <1>3, <2>3, <3>1, <3>2
  <2>4. CASE ctx' = [ctx EXCEPT ![c].w = size] /\ size >= maxPacketSize
    <3> DEFINE x == [ctx[c] EXCEPT !.w = size]
    <3>1. x \in ContextType /\ x.in = ctx[c].in /\ x.lockPID = ctx[c].lockPID /\ x.w = size /\ x.r = ctx[c].r
      BY <1>3, <2>1 DEF ContextType
    <3>2. ctx' = [ctx EXCEPT ![c] = x]
      BY <1>t, <1>2, <2>4 DEF KosTypes
    <3> HIDE DEF x
    <3> QED
      BY <1>3, <2>4, <3>1, <3>2
  <2>5. \/ ctx' = ctx
        \/ size >= maxPacketSize /\ ctx' = [ctx EXCEPT ![c].r = size]
        \/ size >= maxPacketSize /\ ctx' = [ctx EXCEPT ![c].w = size]
    BY <1>4, <2>1 DEF ftdi_set_chunksize
  <2> QED
    BY <2>2, <2>3, <2>4, <2>5
<1>6. ~Waiting(p) /\ NoCall \in CallType /\ NoCall.at # "waiting" /\ ~onbus[p]
  BY <1>1 DEF Waiting, CallType, NoCall, KosInv, Frame
<1>7. /\ call' \in [Program -> CallType] /\ call'[p] = NoCall
      /\ \A q \in Program \ {p} : Kept(q)
      /\ Frame(p)' /\ Bounded(p)' /\ Applied(p)' /\ Valued(p)'
  BY <1>1, <1>6, NotWaiting
<1>8. /\ ctx' \in [Context -> ContextType] /\ ctx'[c] = x
      /\ \A d \in Context \ {c} : ctx'[d] = ctx[d]
  BY <1>t, <1>2, <1>5 DEF KosTypes
<1>9. KosTypes'
  BY <1>t, <1>1, <1>7, <1>8 DEF KosTypes, frameVars
<1>10. ChunksLarge'
  BY <1>5, <1>8 DEF KosInv, ChunksLarge, Written
<1>11. Holder(p)'
  BY <1>1, <1>6, <1>7 DEF Holder, NoCall, frameVars
<1>12. ASSUME NEW q \in Program \ {p} PROVE Holder(q)'
  <2>1. call[q].at \in {"passed", "waiting"} => call[q].c \in Context
    BY <1>t, CallKinds DEF KosTypes
  <2>2. call[q].at \in {"passed", "waiting"} =>
           /\ ctx'[call[q].c].in = ctx[call[q].c].in
           /\ ctx'[call[q].c].lockPID = ctx[call[q].c].lockPID
    BY <1>5, <1>8, <2>1
  <2> QED
    BY <1>1, <1>7, <2>2, KeptContext
<1> QED
  BY <1>1, <1>7, <1>9, <1>10, <1>11, <1>12, KeptCall, KeptSetting DEF KosInv

-----------------------------------------------------------------------------
(* Steps of calls with a transfer.                                         *)

(* A request that tells a setting and is obeyed leaves that setting in the *)
(* device: the words of the two modem lines name the line they are for.    *)
LEMMA ObeyedSetting ==
  ASSUME NEW s \in SettingsType, NEW op \in Asks \union Tells, NEW value,
         SettingOf(op) \in Setting \ {"rts", "dtr"} => value \in Value
  PROVE  /\ Obeyed(s, op, value) \in SettingsType
         /\ SettingOf(op) # "none" => Obeyed(s, op, value)[SettingOf(op)] = Wanted(op, value)
<1>1. CASE op \in {12, 13}
  <2>1. SettingOf(op) = "rts" /\ ConfPacket(op, value) = (IF op = 12 THEN 514 ELSE 512)
    BY <1>1 DEF SettingOf, ConfPacket, SIO_SET_RTS_HIGH, SIO_SET_RTS_LOW
  <2>2. /\ (ConfPacket(op, value) \div 256) % 2 = 0 /\ (ConfPacket(op, value) \div 512) % 2 = 1
        /\ (ConfPacket(op, value) \div 2) % 2 = (IF op = 12 THEN 1 ELSE 0)
    BY <2>1
  <2>3. Obeyed(s, op, value) =
          [s EXCEPT !["dtr"] = IF (ConfPacket(op, value) \div 256) % 2 = 1
                               THEN ConfPacket(op, value) % 2 ELSE @,
                    !["rts"] = IF (ConfPacket(op, value) \div 512) % 2 = 1
                               THEN (ConfPacket(op, value) \div 2) % 2 ELSE @]
    BY <2>1, Zenon DEF Obeyed
  <2> QED
    BY <1>1, <2>1, <2>2, <2>3 DEF SettingsType, Setting, Wanted
<1>2. CASE op \in {14, 15}
  <2>1. SettingOf(op) = "dtr" /\ ConfPacket(op, value) = (IF op = 14 THEN 257 ELSE 256)
    BY <1>2 DEF SettingOf, ConfPacket, SIO_SET_DTR_HIGH, SIO_SET_DTR_LOW
  <2>2. /\ (ConfPacket(op, value) \div 256) % 2 = 1 /\ (ConfPacket(op, value) \div 512) % 2 = 0
        /\ ConfPacket(op, value) % 2 = (IF op = 14 THEN 1 ELSE 0)
    BY <2>1
  <2>3. Obeyed(s, op, value) =
          [s EXCEPT !["dtr"] = IF (ConfPacket(op, value) \div 256) % 2 = 1
                               THEN ConfPacket(op, value) % 2 ELSE @,
                    !["rts"] = IF (ConfPacket(op, value) \div 512) % 2 = 1
                               THEN (ConfPacket(op, value) \div 2) % 2 ELSE @]
    BY <2>1, Zenon DEF Obeyed
  <2> QED
    BY <1>2, <2>1, <2>2, <2>3 DEF SettingsType, Setting, Wanted
<1>3. CASE op \notin {12, 13, 14, 15}
  <2>1. SettingOf(op) \notin {"rts", "dtr"} /\ ConfPacket(op, value) = value /\ Wanted(op, value) = value
    BY <1>3 DEF SettingOf, ConfPacket, Wanted
  <2>2. CASE SettingOf(op) \in Setting \ {"rts", "dtr"}
    <3>1. Obeyed(s, op, value) = [s EXCEPT ![SettingOf(op)] = value]
      BY <2>1, <2>2 DEF Obeyed
    <3> QED
      BY <2>1, <2>2, <3>1 DEF SettingsType
  <2>3. CASE SettingOf(op) \notin Setting
    <3>1. SettingOf(op) = "none"
      BY <2>3 DEF SettingOf, Setting
    <3>2. Obeyed(s, op, value) = s
      BY <2>1, <2>3 DEF Obeyed, Setting
    <3> QED
      BY <3>1, <3>2
  <2> QED
    BY <2>1, <2>2, <2>3
<1> QED
  BY <1>1, <1>2, <1>3

(* A call starts to wait.                                                  *)
LEMMA Begins ==
  ASSUME KosInv, NEW p \in Program, NEW op \in Transfers, At(p, {op}),
         NEW k \in ControlType \union BulkType, k.op = op, k.c = call[p].c,
         op \in Tells /\ SettingOf(op) \in Setting \ {"rts", "dtr"} => k.value \in Value,
         op \in Bulk => k.edx <= k.size - k.ecx /\ k.n = 1 /\ k.ecx = 0 /\ k.esi = 0,
         call' = [call EXCEPT ![p] = k], event' = [event EXCEPT ![p] = CreateEvent(op)],
         UNCHANGED onbus \/ onbus' = [onbus EXCEPT ![p] = TRUE],
         UNCHANGED <<ctx, plugged, reg, raised, result, robbed, bad>>
  PROVE  KosInv'
<1>t. KosTypes
  BY DEF KosInv
<1>1. onbus' \in [Program -> BOOLEAN] /\ \A q \in Program \ {p} : onbus'[q] <=> onbus[q]
  BY <1>t, Zenon DEF KosTypes
<1>2. call' \in [Program -> CallType]
  BY <1>t DEF KosTypes, CallType
<1>3. event' \in [Program -> {"none", "auto", "manual"}]
  BY <1>t DEF KosTypes, CreateEvent
<1>4. KosTypes'
  BY <1>t, <1>1, <1>2, <1>3 DEF KosTypes
<1>5. /\ call'[p] = k /\ event'[p] = CreateEvent(op) /\ k.at = "waiting"
      /\ \A q \in Program \ {p} : call'[q] = call[q] /\ event'[q] = event[q]
  BY <1>t DEF KosTypes, ControlType, BulkType
<1>6. /\ call[p].at = "passed" /\ call[p].op = op /\ Written(call[p].c)
      /\ ~Waiting(p) /\ ~raised[p]
  BY DEF At, KosInv, Frame, Waiting
<1>7. \A q \in Program \ {p} : Kept(q)
  BY <1>1, <1>5 DEF Kept
<1>8. Holder(p)'
  <2>1. Holder(p)
    BY DEF KosInv
  <2> QED
    BY <1>5, <1>6, <2>1 DEF Holder, Listed, Written
<1>9. Frame(p)'
  BY <1>5, <1>6 DEF Frame, Waiting
<1>10. Bounded(p)' /\ Applied(p)' /\ Valued(p)'
  BY <1>5, <1>6 DEF Bounded, Applied, Valued
<1> QED
  BY <1>4, <1>7, <1>8, <1>9, <1>10, OneCall

(* A call returns before it waits.                                         *)
LEMMA TurnsBack ==
  ASSUME KosInv, NEW p \in Program, call[p].at = "passed", call' = [call EXCEPT ![p] = NoCall],
         UNCHANGED <<ctx, plugged, reg, event, raised, result, onbus, robbed, bad>>
  PROVE  KosInv'
<1>1. UNCHANGED frameVars /\ ~Waiting(p) /\ ~onbus[p]
  BY DEF frameVars, Waiting, KosInv, Frame
<1>2. NoCall \in CallType /\ NoCall.at = "out"
  BY DEF CallType, NoCall
<1>3. call'[p] = NoCall
  BY DEF KosInv, KosTypes
<1>4. Holder(p)'
  BY <1>1, <1>2, <1>3 DEF Holder
<1> QED
  BY <1>1, <1>2, <1>4, HolderCall

LEMMA StartControlStep ==
  ASSUME KosInv, NEW p \in Program, StartControl(p)
  PROVE  KosInv'
<1> DEFINE op == call[p].op
           c == call[p].c
<1>1. /\ At(p, {op}) /\ call[p].at = "passed" /\ op \in Asks \union Tells
      /\ UNCHANGED <<ctx, plugged, reg, raised, result, robbed, bad>>
  BY DEF StartControl, At
<1>2. PICK value \in IF SettingOf(op) \in Setting \ {"rts", "dtr"} THEN Value ELSE {0} :
        \/ /\ call' = [call EXCEPT ![p] = ControlCall(op, c, value)]
           /\ event' = [event EXCEPT ![p] = CreateEvent(op)]
           /\ UNCHANGED onbus \/ onbus' = [onbus EXCEPT ![p] = TRUE]
        \/ call' = [call EXCEPT ![p] = NoCall] /\ UNCHANGED <<event, onbus>>
  BY DEF StartControl
<1>3. CASE call' = [call EXCEPT ![p] = NoCall] /\ UNCHANGED <<event, onbus>>
  BY <1>1, <1>3, TurnsBack
<1>4. ASSUME call' = [call EXCEPT ![p] = ControlCall(op, c, value)],
             event' = [event EXCEPT ![p] = CreateEvent(op)],
             UNCHANGED onbus \/ onbus' = [onbus EXCEPT ![p] = TRUE]
      PROVE  KosInv'
  <2> DEFINE k == ControlCall(op, c, value)
  <2>1. c \in Context
    BY <1>1, CallKinds DEF KosInv, KosTypes
  <2>2. k \in ControlType /\ k.op = op /\ k.c = c /\ k.value = value
    BY <1>1, <1>2, <2>1 DEF ControlCall, ControlType
  <2>3. op \in Transfers /\ op \notin Bulk
    BY <1>1, Codes
  <2>4. op \in Tells /\ SettingOf(op) \in Setting \ {"rts", "dtr"} => k.value \in Value
    BY <1>2, <2>2
  <2>5. call' = [call EXCEPT ![p] = k]
    BY <1>4
  <2> HIDE DEF k
  <2> QED
    BY <1>1, <1>4, <2>2, <2>3, <2>4, <2>5, Begins
<1> QED
  BY <1>2, <1>3, <1>4

(* The chunk that the loop sets up next.                                   *)
LEMMA ChunkProperties ==
  ASSUME KosInv, NEW k, k.at = "waiting", k.op \in Bulk, k.c \in Context, NEW n \in 0 .. 3, k.n = n,
         k = [at |-> "waiting", op |-> k.op, c |-> k.c, size |-> k.size, ecx |-> k.ecx, esi |-> k.esi,
              edx |-> k.edx, n |-> n],
         k.size \in Nat, k.ecx \in 0 .. k.size, k.esi \in Nat, k.edx \in Nat
  PROVE  /\ Chunk(k) \in BulkType /\ Chunk(k).at = "waiting" /\ Chunk(k).op = k.op /\ Chunk(k).c = k.c
         /\ Chunk(k).edx <= Chunk(k).size - Chunk(k).ecx
         /\ Chunk(k).size = k.size /\ Chunk(k).ecx = k.ecx
         /\ Chunk(k).n = IF n < 3 THEN n + 1 ELSE 3
         /\ Chunk(k).esi = IF k.esi + k.ecx > k.size THEN k.size + 1 ELSE k.esi + k.ecx
<1> DEFINE most == IF k.op = write_data THEN ctx[k.c].w ELSE ctx[k.c].r
           left == k.size - k.ecx
           edx == IF left < most THEN left ELSE most
           esi == IF k.esi + k.ecx > k.size THEN k.size + 1 ELSE k.esi + k.ecx
           count == IF n < 3 THEN n + 1 ELSE 3
<1>1. ctx[k.c] \in ContextType
  BY DEF KosInv, KosTypes
<1>2. most \in Nat
  BY <1>1 DEF ContextType
<1>3. left \in Nat
  OBVIOUS
<1> HIDE DEF most, left
<1>4. edx \in Nat /\ edx <= left /\ esi \in Nat /\ count \in 1 .. 3
  BY <1>2, <1>3
<1>5. Chunk(k) = [k EXCEPT !.edx = edx, !.esi = esi, !.n = count]
  BY DEF Chunk, most, left
<1> HIDE DEF edx, esi, count
<1>6. Chunk(k) = [at |-> "waiting", op |-> k.op, c |-> k.c, size |-> k.size, ecx |-> k.ecx, esi |-> esi,
                  edx |-> edx, n |-> count]
  BY <1>5
<1>7. Chunk(k) \in BulkType
  BY <1>4, <1>6 DEF BulkType
<1>8. edx <= k.size - k.ecx
  BY <1>4 DEF left
<1>9. count = (IF n < 3 THEN n + 1 ELSE 3)
      /\ esi = (IF k.esi + k.ecx > k.size THEN k.size + 1 ELSE k.esi + k.ecx)
  BY DEF count, esi
<1> QED
  BY <1>6, <1>7, <1>8, <1>9

LEMMA StartBulkStep ==
  ASSUME KosInv, NEW p \in Program, StartBulk(p)
  PROVE  KosInv'
<1> DEFINE op == call[p].op
           c == call[p].c
<1>1. /\ At(p, {op}) /\ call[p].at = "passed" /\ op \in Bulk
      /\ UNCHANGED <<ctx, plugged, reg, raised, result, robbed, bad>>
  BY DEF StartBulk, At
<1>2. PICK size \in Size :
        \/ StartChunk(p, BulkCall(op, c, size)) /\ event' = [event EXCEPT ![p] = CreateEvent(op)]
        \/ call' = [call EXCEPT ![p] = NoCall] /\ UNCHANGED <<event, onbus>>
  BY DEF StartBulk
<1>3. CASE call' = [call EXCEPT ![p] = NoCall] /\ UNCHANGED <<event, onbus>>
  BY <1>1, <1>3, TurnsBack
<1>4. ASSUME StartChunk(p, BulkCall(op, c, size)), event' = [event EXCEPT ![p] = CreateEvent(op)]
      PROVE  KosInv'
  <2> DEFINE b == BulkCall(op, c, size)
             k == Chunk(b)
  <2>1. /\ b.at = "waiting" /\ b.op = op /\ b.c = c /\ b.n = 0 /\ b.size = size /\ size \in Nat
        /\ b.ecx = 0 /\ b.esi = 0 /\ b.edx = 0
        /\ b = [at |-> "waiting", op |-> op, c |-> c, size |-> size, ecx |-> 0, esi |-> 0,
                edx |-> 0, n |-> 0]
    BY DEF BulkCall
  <2>2. call' = [call EXCEPT ![p] = k] /\ (UNCHANGED onbus \/ onbus' = [onbus EXCEPT ![p] = TRUE])
    BY <1>4 DEF StartChunk
  <2>c. c \in Context
    BY <1>1, CallKinds DEF KosInv, KosTypes
  <2> HIDE DEF b
  <2>3. /\ k \in BulkType /\ k.op = op /\ k.c = c /\ k.edx <= k.size - k.ecx
        /\ k.n = 1 /\ k.ecx = 0 /\ k.esi = 0
    BY <1>1, <2>c, <2>1, ChunkProperties
  <2> HIDE DEF k
  <2>4. op \in Transfers /\ op \notin Tells
    BY <1>1, Codes
  <2> QED
    BY <1>1, <1>4, <2>2, <2>3, <2>4, Begins
<1> QED
  BY <1>2, <1>3, <1>4

(* A callback: the call waits, with its event, and nothing but the result, *)
(* the event and, for a control transfer, the device is touched.  Another  *)
(* call at work on the same context would have been robbed of its lock, or *)
(* would have robbed this one.                                             *)
LEMMA CallbackStep ==
  ASSUME KosInv, NEW p \in Program, onbus[p], NEW x \in Int,
         onbus' = [onbus EXCEPT ![p] = FALSE], result' = [result EXCEPT ![p] = x],
         raised' = [raised EXCEPT ![p] = event[p] # "none"],
         NEW new \in SettingsType, UNCHANGED reg \/ reg' = [reg EXCEPT ![call[p].c] = new],
         call[p].op \in Bulk => x \in -1 .. call[p].edx,
         Waiting(p) /\ call[p].op \in Tells /\ x = 0 /\ SettingOf(call[p].op) # "none" =>
            /\ reg' = [reg EXCEPT ![call[p].c] = new]
            /\ new[SettingOf(call[p].op)] = Wanted(call[p].op, call[p].value),
         UNCHANGED <<ctx, plugged, call, event, robbed>>, bad' \in BOOLEAN
  PROVE  KosInv'
<1>t. KosTypes /\ call[p] \in CallType
  BY DEF KosInv, KosTypes
<1>1. Waiting(p)
  BY DEF KosInv, Frame
<1>2. call[p].c \in Context /\ call[p].op >= 4 /\ call[p].at = "waiting"
  BY <1>t, <1>1, CallKinds DEF Waiting
<1>3. /\ onbus' \in [Program -> BOOLEAN] /\ \A q \in Program \ {p} : onbus'[q] <=> onbus[q]
      /\ ~onbus'[p]
  BY <1>t, Zenon DEF KosTypes
<1>4. (event[p] # "none") \in BOOLEAN
  OBVIOUS
<1>5. raised' \in [Program -> BOOLEAN] /\ \A q \in Program \ {p} : raised'[q] <=> raised[q]
  BY <1>t, <1>4, Zenon DEF KosTypes
<1>6. /\ result' \in [Program -> Int] /\ result'[p] = x
      /\ \A q \in Program \ {p} : result'[q] = result[q]
  BY <1>t DEF KosTypes
<1>7. reg' \in [Context -> SettingsType]
  BY <1>t, <1>2 DEF KosTypes
<1>8. KosTypes'
  BY <1>t, <1>3, <1>5, <1>6, <1>7 DEF KosTypes
<1>9. Frame(p) /\ Bounded(p) /\ Holder(p) /\ Valued(p)
  BY DEF KosInv
<1>10. \A q \in Program \ {p} : Kept(q)
  BY <1>3, <1>5, <1>6 DEF Kept
<1>11. ASSUME NEW q \in Program \ {p} PROVE Applied(q)'
  <2>1. Applied(q) /\ Holder(q) /\ call[q] \in CallType
    BY <1>t DEF KosInv, KosTypes
  <2>2. CASE Waiting(q) /\ call[q].c = call[p].c
    <3>1. call[q].op >= 4 /\ call[q].at = "waiting"
      BY <2>1, <2>2, CallKinds DEF Waiting
    <3>2. <<p, call[p].c>> \in robbed \/ <<q, call[p].c>> \in robbed
      BY <1>2, <1>9, <2>1, <2>2, <3>1 DEF Holder
    <3> QED
      BY <2>2, <3>2 DEF Applied
  <2>3. CASE Waiting(q) /\ call[q].c # call[p].c
    <3>1. call[q].c \in Context
      BY <2>1, <2>3, CallKinds DEF Waiting
    <3>2. reg'[call[q].c] = reg[call[q].c]
      BY <1>t, <2>3, <3>1 DEF KosTypes
    <3> QED
      BY <1>5, <1>6, <2>1, <3>2 DEF Applied, Waiting
  <2>4. CASE ~Waiting(q)
    BY <2>4 DEF Applied, Waiting
  <2> QED
    BY <2>2, <2>3, <2>4
<1>12. Frame(p)'
  BY <1>1, <1>3, <1>9 DEF Frame, Waiting
<1>13. Bounded(p)' /\ Valued(p)'
  BY <1>6, <1>9 DEF Bounded, Valued, Waiting
<1>14. Applied(p)'
  BY <1>t, <1>1, <1>2, <1>6 DEF Applied, Waiting, KosTypes
<1>15. Holder(p)'
  BY <1>3, <1>9 DEF Holder, Listed, Written
<1>16. \A q \in Program \ {p} : Holder(q)'
  BY <1>10, KeptContext
<1>17. ChunksLarge'
  BY DEF KosInv, ChunksLarge, Written
<1> QED
  BY <1>8, <1>10, <1>11, <1>12, <1>13, <1>14, <1>15, <1>16, <1>17, KeptCall DEF KosInv

LEMMA CompleteControlStep ==
  ASSUME KosInv, NEW p \in Program, CompleteControl(p)
  PROVE  KosInv'
<1> DEFINE new == Obeyed(reg[call[p].c], call[p].op, call[p].value)
<1>t. /\ KosTypes /\ call[p] \in CallType /\ onbus[p] /\ call[p].op \notin Bulk
  BY DEF CompleteControl, KosInv, KosTypes
<1>1. Waiting(p)
  BY <1>t DEF KosInv, Frame
<1>2. call[p] \in ControlType
  BY <1>t, <1>1, CallKinds DEF Waiting
<1>3. /\ reg[call[p].c] \in SettingsType /\ call[p].op \in Asks \union Tells
  BY <1>t, <1>2 DEF KosTypes, ControlType
<1>4. SettingOf(call[p].op) \in Setting \ {"rts", "dtr"} => call[p].value \in Value
  <2>1. call[p].op \in Asks => SettingOf(call[p].op) = "none"
    BY DEF Asks, SettingOf
  <2>2. "none" \notin Setting
    BY DEF Setting
  <2> QED
    BY <1>1, <1>3, <2>1, <2>2 DEF KosInv, Valued
<1>5. /\ new \in SettingsType
      /\ SettingOf(call[p].op) # "none" =>
            new[SettingOf(call[p].op)] = Wanted(call[p].op, call[p].value)
  BY <1>3, <1>4, ObeyedSetting
<1>6. /\ onbus' = [onbus EXCEPT ![p] = FALSE] /\ UNCHANGED <<ctx, plugged, call, event, robbed, bad>>
      /\ \/ reg' = [reg EXCEPT ![call[p].c] = new] /\ control_callback(p, 0)
         \/ (UNCHANGED reg \/ reg' = [reg EXCEPT ![call[p].c] = new]) /\ control_callback(p, 1)
  BY DEF CompleteControl
<1>b. bad' \in BOOLEAN
  BY <1>t, <1>6, Zenon DEF KosTypes
<1> HIDE DEF new
<1>7. CASE reg' = [reg EXCEPT ![call[p].c] = new] /\ control_callback(p, 0)
  <2>1. /\ 0 \in Int /\ result' = [result EXCEPT ![p] = 0]
        /\ raised' = [raised EXCEPT ![p] = event[p] # "none"]
    BY <1>7 DEF control_callback
  <2>2. /\ UNCHANGED reg \/ reg' = [reg EXCEPT ![call[p].c] = new]
        /\ call[p].op \in Bulk => 0 \in -1 .. call[p].edx
        /\ Waiting(p) /\ call[p].op \in Tells /\ 0 = 0 /\ SettingOf(call[p].op) # "none" =>
              /\ reg' = [reg EXCEPT ![call[p].c] = new]
              /\ new[SettingOf(call[p].op)] = Wanted(call[p].op, call[p].value)
    BY <1>t, <1>5, <1>7
  <2> QED
    BY <1>t, <1>b, <1>5, <1>6, <2>1, <2>2, CallbackStep, Zenon
<1>8. CASE (UNCHANGED reg \/ reg' = [reg EXCEPT ![call[p].c] = new]) /\ control_callback(p, 1)
  <2>1. /\ 1 \in Int /\ result' = [result EXCEPT ![p] = 1]
        /\ raised' = [raised EXCEPT ![p] = event[p] # "none"]
    BY <1>8 DEF control_callback
  <2>2. /\ UNCHANGED reg \/ reg' = [reg EXCEPT ![call[p].c] = new]
        /\ call[p].op \in Bulk => 1 \in -1 .. call[p].edx
        /\ Waiting(p) /\ call[p].op \in Tells /\ 1 = 0 /\ SettingOf(call[p].op) # "none" =>
              /\ reg' = [reg EXCEPT ![call[p].c] = new]
              /\ new[SettingOf(call[p].op)] = Wanted(call[p].op, call[p].value)
    BY <1>t, <1>5, <1>8
  <2> QED
    BY <1>t, <1>b, <1>5, <1>6, <2>1, <2>2, CallbackStep, Zenon
<1> QED
  BY <1>6, <1>7, <1>8

LEMMA CompleteBulkStep ==
  ASSUME KosInv, NEW p \in Program, CompleteBulk(p)
  PROVE  KosInv'
<1>1. /\ onbus[p] /\ call[p].op \in Bulk /\ onbus' = [onbus EXCEPT ![p] = FALSE]
      /\ UNCHANGED <<ctx, plugged, reg, call, event, robbed>>
  BY DEF CompleteBulk
<1>2. call[p] \in BulkType
  BY <1>1, CallKinds DEF KosInv, KosTypes, Frame, Waiting
<1>3. call[p].edx \in Nat /\ call[p].c \in Context
  BY <1>2 DEF BulkType
<1>4. PICK x \in -1 .. call[p].edx : bulk_callback(p, x)
  BY <1>3 DEF CompleteBulk
<1>5. bad' \in BOOLEAN
  <2>1. bad \in BOOLEAN
    BY DEF KosInv, KosTypes
  <2>2. UNCHANGED bad \/ \E length \in 0 .. call[p].edx : bad' = Overruns(call[p], length)
    BY DEF CompleteBulk
  <2>3. \A length : Overruns(call[p], length) \in BOOLEAN
    BY Zenon DEF Overruns
  <2> QED
    BY <2>1, <2>2, <2>3, Zenon
<1>6. reg[call[p].c] \in SettingsType /\ x \in Int
  BY <1>3 DEF KosInv, KosTypes
<1>7. call[p].op \notin Tells
  BY <1>1, Codes
<1> QED
  BY <1>1, <1>4, <1>5, <1>6, <1>7, CallbackStep DEF bulk_callback

(* A call returns: nothing of it is left.                                  *)
LEMMA Returns ==
  ASSUME KosInv, NEW p \in Program, Waiting(p), raised[p],
         call' = [call EXCEPT ![p] = NoCall], raised' = [raised EXCEPT ![p] = FALSE],
         event' = [event EXCEPT ![p] = "none"], result' = [result EXCEPT ![p] = 0],
         UNCHANGED <<ctx, plugged, reg, onbus, robbed, bad>>
  PROVE  KosInv'
<1>t. KosTypes
  BY DEF KosInv
<1>1. /\ raised' \in [Program -> BOOLEAN] /\ \A q \in Program \ {p} : raised'[q] <=> raised[q]
      /\ ~raised'[p]
  BY <1>t, Zenon DEF KosTypes
<1>2. /\ call' \in [Program -> CallType]
      /\ call'[p] = NoCall /\ \A q \in Program \ {p} : call'[q] = call[q]
  BY <1>t DEF KosTypes, CallType
<1>3. /\ event' \in [Program -> {"none", "auto", "manual"}] /\ event'[p] = "none"
      /\ \A q \in Program \ {p} : event'[q] = event[q]
  BY <1>t DEF KosTypes
<1>4. /\ result' \in [Program -> Int] /\ \A q \in Program \ {p} : result'[q] = result[q]
  BY <1>t DEF KosTypes
<1>5. KosTypes'
  BY <1>t, <1>1, <1>2, <1>3, <1>4 DEF KosTypes
<1>6. \A q \in Program \ {p} : Kept(q)
  BY <1>1, <1>2, <1>3, <1>4 DEF Kept
<1>7. ~onbus'[p] /\ ~Waiting(p)' /\ call'[p].at = "out"
  BY <1>2 DEF KosInv, Frame, Waiting, NoCall
<1>8. Frame(p)' /\ Holder(p)' /\ Bounded(p)' /\ Applied(p)' /\ Valued(p)'
  BY <1>1, <1>3, <1>7 DEF Frame, Holder, Bounded, Applied, Valued
<1> QED
  BY <1>5, <1>6, <1>8, OneCall

LEMMA FinishControlStep ==
  ASSUME KosInv, NEW p \in Program, FinishControl(p)
  PROVE  KosInv'
<1>1. event[p] = "auto"
  BY DEF FinishControl, KosInv, Frame, CreateEvent
<1>2. event' = [event EXCEPT ![p] = "none"]
  BY <1>1 DEF FinishControl, EventAfterWait
<1> QED
  BY <1>2, Returns DEF FinishControl

LEMMA LoopStep ==
  ASSUME KosInv, NEW p \in Program, Loop(p)
  PROVE  KosInv'
<1> DEFINE k == [call[p] EXCEPT !.ecx = @ + result[p]]
<1>t. KosTypes
  BY DEF KosInv
<1>1. /\ Waiting(p) /\ call[p].op \in Bulk /\ raised[p]
      /\ raised' = [raised EXCEPT ![p] = FALSE] /\ result' = [result EXCEPT ![p] = 0]
      /\ UNCHANGED <<ctx, plugged, reg, robbed, bad>>
  BY DEF Loop
<1>2. call[p] \in BulkType
  BY <1>t, <1>1, CallKinds DEF KosTypes, Waiting
<1>3. CASE /\ call' = [call EXCEPT ![p] = NoCall] /\ event' = [event EXCEPT ![p] = "none"]
           /\ UNCHANGED onbus
  BY <1>1, <1>3, Returns
<1>4. ASSUME result[p] # -1, k.ecx < k.size, StartChunk(p, k),
             event' = [event EXCEPT ![p] = EventAfterWait(@)]
      PROVE  KosInv'
  <2> DEFINE next == Chunk(k)
  <2>1. Frame(p) /\ Bounded(p) /\ Holder(p)
    BY DEF KosInv
  <2>2. /\ result[p] \in 0 .. call[p].edx /\ event[p] = "manual" /\ ~onbus[p]
        /\ call[p].edx <= call[p].size - call[p].ecx
        /\ call[p].n = 1 => call[p].ecx = 0 /\ call[p].esi = 0
    BY <1>1, <1>2, <1>4, <2>1 DEF Bounded, Frame, CreateEvent, BulkType
  <2>3. /\ k.op = call[p].op /\ k.c = call[p].c /\ k.size = call[p].size
        /\ k.ecx = call[p].ecx + result[p] /\ k.esi = call[p].esi /\ k.edx = call[p].edx
        /\ k.n = call[p].n
        /\ k.at = "waiting"
        /\ k = [at |-> "waiting", op |-> k.op, c |-> k.c, size |-> k.size, ecx |-> k.ecx, esi |-> k.esi,
                edx |-> k.edx, n |-> k.n]
    BY <1>2 DEF BulkType
  <2>4. /\ call[p].c \in Context /\ call[p].size \in Nat /\ call[p].ecx \in Nat
        /\ call[p].esi \in Nat /\ call[p].edx \in Nat /\ call[p].n \in 1 .. 3
    BY <1>2 DEF BulkType
  <2>5. call' = [call EXCEPT ![p] = next] /\ (UNCHANGED onbus \/ onbus' = [onbus EXCEPT ![p] = TRUE])
    BY <1>4 DEF StartChunk
  <2>a. k.ecx < k.size
    BY <1>4
  <2> HIDE DEF k
  <2>6. k.ecx \in 0 .. k.size /\ k.n \in 0 .. 3 /\ k.op \in Bulk /\ k.c \in Context
    BY <1>1, <2>a, <2>2, <2>3, <2>4
  <2>7. /\ next \in BulkType /\ next.at = "waiting" /\ next.op = call[p].op /\ next.c = call[p].c
        /\ next.edx <= next.size - next.ecx /\ next.ecx = k.ecx
        /\ next.n = (IF k.n < 3 THEN k.n + 1 ELSE 3)
        /\ next.esi = (IF k.esi + k.ecx > k.size THEN k.size + 1 ELSE k.esi + k.ecx)
    BY <2>3, <2>4, <2>6, ChunkProperties
  <2> HIDE DEF next
  <2>8. next.n # 1 /\ (next.n = 2 => next.esi = next.ecx)
    BY <2>a, <2>2, <2>3, <2>4, <2>6, <2>7
  <2>9. /\ raised' \in [Program -> BOOLEAN] /\ \A q \in Program \ {p} : raised'[q] <=> raised[q]
        /\ ~raised'[p]
    BY <1>t, <1>1, Zenon DEF KosTypes
  <2>10. onbus' \in [Program -> BOOLEAN] /\ \A q \in Program \ {p} : onbus'[q] <=> onbus[q]
    BY <1>t, <2>5, Zenon DEF KosTypes
  <2>11. /\ call' \in [Program -> CallType]
         /\ call'[p] = next /\ \A q \in Program \ {p} : call'[q] = call[q]
    BY <1>t, <2>5, <2>7 DEF KosTypes, CallType
  <2>12. UNCHANGED event
    BY <1>t, <1>4, <2>2 DEF KosTypes, EventAfterWait
  <2>13. result' \in [Program -> Int] /\ \A q \in Program \ {p} : result'[q] = result[q]
    BY <1>t, <1>1 DEF KosTypes
  <2>14. KosTypes'
    BY <1>t, <1>1, <1>4, <2>9, <2>10, <2>11, <2>12, <2>13 DEF KosTypes
  <2>15. Frame(p)'
    BY <1>1, <2>2, <2>7, <2>9, <2>11, <2>12 DEF Frame, Waiting, CreateEvent
  <2>16. Bounded(p)' /\ Applied(p)'
    BY <2>7, <2>8, <2>9, <2>11 DEF Bounded, Applied, Waiting
  <2>17. Valued(p)'
    BY <1>1, <2>7, <2>11, Codes DEF Valued
  <2>20. Written(call[p].c)
    BY <1>4, <2>3, <1>1 DEF StartChunk, Opened, Written, Bulk
  <2>18. Holder(p)'
    BY <1>1, <2>1, <2>7, <2>11, <2>20 DEF Holder, Waiting, Listed, Written
  <2>19. \A q \in Program \ {p} : Kept(q)
    BY <2>9, <2>10, <2>11, <2>12, <2>13 DEF Kept
  <2> QED
    BY <1>1, <2>14, <2>15, <2>16, <2>17, <2>18, <2>19, OneCall
<1>5. \/ /\ call' = [call EXCEPT ![p] = NoCall] /\ event' = [event EXCEPT ![p] = "none"]
         /\ UNCHANGED onbus
      \/ /\ result[p] # -1 /\ k.ecx < k.size /\ StartChunk(p, k)
         /\ event' = [event EXCEPT ![p] = EventAfterWait(@)]
  BY DEF Loop, EventDestroyed
<1> QED
  BY <1>3, <1>4, <1>5

LEMMA KosStep == KosInv /\ [Next]_vars => KosInv'
<1> SUFFICES ASSUME KosInv, [Next]_vars PROVE KosInv'
  OBVIOUS
<1>t. plugged \subseteq Context /\ bad \in BOOLEAN
  BY DEF KosInv, KosTypes
<1>1. CASE UNCHANGED vars
  BY <1>t, <1>1, KosStutter DEF vars
<1>2. ASSUME NEW p \in Program, Stray(p) PROVE KosInv'
  <2>1. bad' \in BOOLEAN
    BY <1>2, Zenon DEF Stray
  <2> QED
    BY <1>t, <1>2, <2>1, KosStutter DEF Stray, frameVars
<1> QED
  BY <1>1, <1>2, DeviceSteps, EnterStep, TestLockStep, StoreLockStep, QuickStep, StartControlStep,
     StartBulkStep, CompleteControlStep, FinishControlStep, CompleteBulkStep, LoopStep DEF Next

LEMMA KosAlways == Spec => []KosInv
  BY KosInit, KosStep, PTL DEF Spec

(* A callback of usbftdi.KOS.asm always finds the stack frame and the      *)
(* event of the call that started its transfer, and the context that call  *)
(* works on has not been freed; the loops of the bulk calls never ask for  *)
(* more than is left, and their second chunk is right behind the first.    *)
(* For any programs, devices, sizes and chunk sizes, with unplugs at any   *)
(* time, until a call uses a context or pipe that is gone or was not made. *)
THEOREM CallsCorrect == Spec => []CallsSound
<1>1. ASSUME KosInv PROVE CallsSound
  <2>1. ASSUME NEW p \in Program PROVE call[p].at \in {"out", "entered", "passed", "waiting"}
    BY <1>1, CallKinds DEF KosInv, KosTypes
  <2>2. ASSUME NEW c \in Context
        PROVE  /\ ctx[c].in \in {"none", "new", "orphan", "half", "bound", "gone"}
               /\ ctx[c].lockPID \in Program \union {NoProgram}
    <3>1. ctx[c] \in ContextType
      BY <1>1 DEF KosInv, KosTypes
    <3> QED
      BY <3>1 DEF ContextType
  <2>3. TypeOK
    BY <1>1, <2>1, <2>2 DEF TypeOK, KosInv, KosTypes, ChunksLarge, SettingsType
  <2>4. FrameAlive
    BY <1>1, <2>1 DEF FrameAlive, KosInv, Frame, Holder, CreateEvent
  <2>5. ASSUME NEW p \in Program, Waiting(p), call[p].op \in Bulk
        PROVE  /\ call[p].edx <= call[p].size - call[p].ecx
               /\ call[p].n <= 2 => call[p].esi = call[p].ecx
    <3>1. call[p] \in BulkType /\ Bounded(p)
      BY <1>1, <2>5, CallKinds DEF KosInv, KosTypes, Waiting
    <3>2. call[p].n \in 1 .. 3
      BY <3>1 DEF BulkType
    <3> QED
      BY <2>5, <3>1, <3>2 DEF Bounded
  <2> QED
    BY <2>3, <2>4, <2>5 DEF CallsSound, ChunkInside
<1> QED
  BY <1>1, KosAlways, PTL

(* ftdi_lock keeps programs apart: a call that was let through to a device *)
(* is one of the program that holds its lock, unless the lock was taken    *)
(* from that program between another one's test and its store; and as long *)
(* as no lock of a device is lost so, a setting reported as accepted is    *)
(* still in the device when the call returns.                              *)
THEOREM ProgramsCorrect == Spec => []ProgramsApart
<1>1. ASSUME KosInv PROVE ProgramsApart
  <2>1. OneProgram
    BY <1>1 DEF OneProgram, Users, KosInv, Holder
  <2>2. SettingApplied
    BY <1>1 DEF SettingApplied, KosInv, Applied
  <2> QED
    BY <2>1, <2>2 DEF ProgramsApart
<1> QED
  BY <1>1, KosAlways, PTL
=============================================================================
