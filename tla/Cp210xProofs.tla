---------------------------- MODULE Cp210xProofs ----------------------------
(***************************************************************************)
(* Proofs about Cp210xControl for every number of threads and any values.  *)
(***************************************************************************)
EXTENDS Cp210xControl, SequenceTheorems, TLAPS

USE ControlAssumption

Kinds == {"SET_LINE_CTL", "SET_BAUDRATE", "SET_MHS"}

(* The two commands a program can give, as their requests.                 *)
SetupTodo(v) == <<[kind |-> "SET_LINE_CTL", value |-> v],
                  [kind |-> "SET_BAUDRATE", value |-> Zero]>>
BaudTodo == <<[kind |-> "SET_BAUDRATE", value |-> Zero]>>
LinesTodo(v) == <<[kind |-> "SET_MHS", value |-> v]>>

(* A thread that is making requests has one to make.                       *)
HasRequest == \A t \in Thread :
    /\ appPc[t] \in {"test", "fill", "arm", "spin"} => appTodo[t] # <<>>

(* Whoever has put the context to use waits until it is free again.        *)
SpinServed == iStatus # 0 => \E t \in Thread : appPc[t] = "spin"

(* With the context free, the bus carries a poll.                          *)
PollWhenFree == plugged /\ iStatus = 0 => ControlRequest = Poll

(* Two commands under way promise nothing.                                 *)
Alone == \A t, u \in Thread :
    t # u /\ appPc[t] # "idle" /\ appPc[u] # "idle" => appWant[t] = Nothing

(* The handshake of a command that nobody disturbs.                        *)
Handshake == \A t \in Thread :
    plugged /\ appPc[t] # "idle" /\ appWant[t] # Nothing =>
       /\ appPc[t] = "arm" => slot = Head(appTodo[t])
       /\ appPc[t] = "spin" /\ iStatus # 0 => slot = Head(appTodo[t])
       /\ iStatus = 1 => ControlRequest = Poll
       /\ iStatus = 2 => ControlRequest = slot

BusInv == TypeOK /\ HasRequest /\ PollAlive /\ SpinServed /\ PollWhenFree
          /\ Alone /\ Handshake

LEMMA BusInit == Init => BusInv
<1> SUFFICES ASSUME Init PROVE BusInv
  OBVIOUS
<1>1. TypeOK
  <2>1. presence \in BOOLEAN /\ plugged \in BOOLEAN /\ refused \in BOOLEAN
    BY Zenon DEF Init
  <2>2. /\ iStatus \in 0 .. 2 /\ inFlight \in 0 .. 1
        /\ slot \in Command \union {Poll} /\ ControlRequest \in Command \union {Poll}
        /\ LineCoding \in Value \union {Zero}
        /\ line \in [{"SET_LINE_CTL", "SET_BAUDRATE", "SET_MHS"} -> Value \union {Zero}]
        /\ appPc \in [Thread -> AppPc] /\ appTodo \in [Thread -> Seq(Command)]
    BY EmptySeq DEF Init, AppPc
  <2> QED
    BY <2>1, <2>2 DEF TypeOK
<1>2. HasRequest /\ PollAlive /\ SpinServed /\ PollWhenFree /\ Alone /\ Handshake
  BY DEF Init, HasRequest, PollAlive, SpinServed, PollWhenFree, Alone, Handshake
<1> QED
  BY <1>1, <1>2 DEF BusInv

(***************************************************************************)
(* What remains of the requests of a command after one of them.            *)
(***************************************************************************)
LEMMA TodoTail ==
  ASSUME NEW S, NEW s \in Seq(S), s # <<>>
  PROVE  /\ Head(s) \in S /\ Tail(s) \in Seq(S)
         /\ Len(s) > 1 => Tail(s) # <<>>
<1>1. Len(s) \in Nat /\ Len(Tail(s)) = Len(s) - 1 /\ Head(s) \in S /\ Tail(s) \in Seq(S)
  BY HeadTailProperties, LenProperties
<1>2. Len(<<>>) = 0
  OBVIOUS
<1>3. Len(s) > 1 => Len(Tail(s)) # 0
  BY <1>1
<1> QED
  BY <1>1, <1>2, <1>3, Zenon

(* The end of a transfer, with both outcomes of the next submission.       *)
LEMMA CallbackCases ==
  ASSUME NEW s \in Status, Callback_Intr(s)
  PROVE  /\ \/ inFlight' = inFlight /\ refused' = refused
            \/ inFlight' = inFlight - 1 /\ refused'
         /\ iStatus = 1 => iStatus' = 2 /\ ControlRequest' = slot
         /\ iStatus # 1 => iStatus' = 0 /\ ControlRequest' = Poll
  BY Zenon DEF Callback_Intr, usb_control_msg

LEMMA TypeStep == TypeOK /\ HasRequest /\ [Next]_vars => TypeOK' /\ HasRequest'
<1> SUFFICES ASSUME TypeOK, HasRequest, [Next]_vars PROVE TypeOK' /\ HasRequest'
  OBVIOUS
<1> USE DEF TypeOK, HasRequest, AppPc
<1>1. CASE Unplug
  BY <1>1 DEF Unplug, context
<1>2. CASE Disconnected
  BY <1>2 DEF Disconnected, context
<1>3. ASSUME NEW s \in Status, Callback_Intr(s) PROVE TypeOK' /\ HasRequest'
  <2>1. line' \in [Kinds -> Value \union {Zero}]
    BY <1>3 DEF Callback_Intr, Execute, Poll, Command, Kinds
  <2>2. iStatus' \in 0 .. 2 /\ ControlRequest' \in Command \union {Poll}
    BY <1>3, CallbackCases
  <2>3. inFlight' \in 0 .. 1
    BY <1>3, CallbackCases DEF Callback_Intr
  <2>4. refused' \in BOOLEAN
    BY <1>3, Zenon DEF Callback_Intr, usb_control_msg
  <2> QED
    BY <1>3, <2>1, <2>2, <2>3, <2>4 DEF Callback_Intr, Kinds
<1>4. CASE Callback_Closed
  BY <1>4 DEF Callback_Closed
<1>5. ASSUME NEW t \in Thread, Refused(t) PROVE TypeOK' /\ HasRequest'
  BY <1>5 DEF Refused, vars, context, usbVars
<1>6. ASSUME NEW t \in Thread, NEW v \in Value, ProcCmd_SETUP_LINE(t, v)
      PROVE  TypeOK' /\ HasRequest'
  <2>1. SetupTodo(v) \in Seq(Command) /\ SetupTodo(v) # <<>>
    BY DEF SetupTodo, Command
  <2> QED
    BY <1>6, <2>1 DEF ProcCmd_SETUP_LINE, Start, Goto, context, usbVars, SetupTodo
<1>7. ASSUME NEW t \in Thread, NEW v \in Value, ProcCmd_SET_STATUS_LINE(t, v)
      PROVE  TypeOK' /\ HasRequest'
  <2>1. LinesTodo(v) \in Seq(Command) /\ LinesTodo(v) # <<>>
    BY DEF LinesTodo, Command
  <2> QED
    BY <1>7, <2>1 DEF ProcCmd_SET_STATUS_LINE, Start, Goto, context, usbVars, LinesTodo
<1>8. ASSUME NEW t \in Thread, NextRequest(t), appPc[t] \in {"test", "spin"}
      PROVE  TypeOK' /\ HasRequest'
  <2>1. /\ Tail(appTodo[t]) \in Seq(Command)
        /\ Len(appTodo[t]) > 1 => Tail(appTodo[t]) # <<>>
    BY <1>8, TodoTail
  <2> QED
    BY <1>8, <2>1 DEF NextRequest, Goto, context, usbVars
<1>9. ASSUME NEW t \in Thread, Lcp210x__usb_control_msg(t)
      PROVE  TypeOK' /\ HasRequest'
  <2>1. CASE LcpTest(t)
    BY <2>1 DEF LcpTest, Goto, context, usbVars
  <2>2. CASE LcpSkip(t) \/ LcpDone(t)
    BY <2>2, <1>8 DEF LcpSkip, LcpDone
  <2>3. CASE LcpFill(t)
    <3>1. Head(appTodo[t]) \in Command
      BY <2>3, TodoTail DEF LcpFill
    <3> QED
      BY <2>3, <3>1 DEF LcpFill, Goto, usbVars
  <2>4. CASE LcpArm(t)
    BY <2>4 DEF LcpArm, Goto, usbVars
  <2>5. CASE LcpSpin(t)
    BY <2>5 DEF LcpSpin, vars, context, usbVars
  <2> QED
    BY <1>9, <2>1, <2>2, <2>3, <2>4, <2>5 DEF Lcp210x__usb_control_msg
<1>10. ASSUME NEW t \in Thread, Return(t) PROVE TypeOK' /\ HasRequest'
  BY <1>10 DEF Return, Goto, context, usbVars
<1>11. CASE UNCHANGED vars
  BY <1>11 DEF vars, context, usbVars
<1> QED
  BY <1>1, <1>2, <1>3, <1>4, <1>5, <1>6, <1>7, <1>9, <1>10, <1>11 DEF Next

(***************************************************************************)
(* The rest of BusInv, action by action.  In a step of thread t every      *)
(* other thread is idle or promises nothing (Alone), so Handshake is about *)
(* t itself.                                                               *)
(***************************************************************************)
BusRest == PollAlive /\ SpinServed /\ PollWhenFree /\ Alone /\ Handshake

LEMMA BusStep == BusInv /\ [Next]_vars => BusInv'
<1> SUFFICES ASSUME BusInv, [Next]_vars PROVE BusInv'
  OBVIOUS
<1> TypeOK /\ HasRequest /\ BusRest /\ TypeOK' /\ HasRequest'
  BY TypeStep DEF BusInv, BusRest
<1> SUFFICES BusRest'
  BY DEF BusInv, BusRest
<1> USE DEF BusRest, PollAlive, SpinServed, PollWhenFree, Alone, Handshake
<1>1. CASE Unplug
  BY <1>1 DEF Unplug, context
<1>2. CASE Disconnected
  BY <1>2 DEF Disconnected, context
<1>3. ASSUME NEW s \in Status, Callback_Intr(s) PROVE BusRest'
  <2>1. appPc' = appPc /\ appTodo' = appTodo /\ slot' = slot /\ plugged' = plugged
    BY <1>3 DEF Callback_Intr
  <2>2. \A t \in Thread : appWant'[t] = appWant[t] \/ appWant'[t] = Nothing
    BY <1>3 DEF Callback_Intr, Promise
  <2>3. PollAlive'
    BY <1>3, <2>1, CallbackCases DEF TypeOK
  <2>4. SpinServed' /\ PollWhenFree'
    BY <1>3, <2>1, CallbackCases DEF TypeOK
  <2>5. Alone'
    BY <2>1, <2>2
  <2>6. Handshake'
    BY <1>3, <2>1, <2>2, CallbackCases DEF TypeOK
  <2> QED
    BY <2>3, <2>4, <2>5, <2>6
<1>4. CASE Callback_Closed
  BY <1>4 DEF Callback_Closed, TypeOK
<1>5. ASSUME NEW t \in Thread, Refused(t) PROVE BusRest'
  BY <1>5 DEF Refused, vars, context, usbVars
<1>6. ASSUME NEW t \in Thread, NEW want, NEW todo, Start(t, want, todo) PROVE BusRest'
  <2>1. /\ UNCHANGED <<iStatus, slot, ControlRequest, presence, plugged, refused, inFlight>>
        /\ appPc' = [appPc EXCEPT ![t] = "test"] /\ appPc[t] = "idle"
    BY <1>6 DEF Start, Goto, context, usbVars
  <2>2. PollAlive' /\ SpinServed' /\ PollWhenFree'
    BY <2>1 DEF TypeOK
  <2>3. CASE \A u \in Thread : appPc[u] = "idle"
    <3>1. iStatus = 0
      BY <2>3
    <3> QED
      BY <2>1, <2>2, <2>3, <3>1 DEF TypeOK
  <2>4. CASE ~\A u \in Thread : appPc[u] = "idle"
    <3>1. \A u \in Thread : appWant'[u] = Nothing
      BY <1>6, <2>4 DEF Start
    <3> QED
      BY <2>2, <3>1
  <2> QED
    BY <2>3, <2>4
<1>7. ASSUME NEW t \in Thread, NextRequest(t), appPc[t] # "idle",
             appPc[t] = "spin" => iStatus = 0
      PROVE  BusRest'
  <2>1. /\ UNCHANGED <<iStatus, slot, ControlRequest, presence, plugged, refused, inFlight, appWant>>
        /\ appPc' \in [Thread -> AppPc] /\ appPc'[t] \in {"test", "return"}
        /\ \A u \in Thread : u # t => appPc'[u] = appPc[u] /\ appTodo'[u] = appTodo[u]
    BY <1>7 DEF NextRequest, Goto, context, usbVars, TypeOK, AppPc
  <2> QED
    BY <1>7, <2>1 DEF TypeOK
<1>8. ASSUME NEW t \in Thread, Lcp210x__usb_control_msg(t) PROVE BusRest'
  <2>1. CASE LcpTest(t)
    BY <2>1 DEF LcpTest, Goto, context, usbVars, TypeOK
  <2>2. CASE LcpSkip(t) \/ LcpDone(t)
    BY <2>2, <1>7 DEF LcpSkip, LcpDone
  <2>3. CASE LcpFill(t)
    BY <2>3, SMTT(30) DEF LcpFill, Goto, usbVars, TypeOK
  <2>4. CASE LcpArm(t)
    BY <2>4, SMTT(30) DEF LcpArm, Goto, usbVars, TypeOK
  <2>5. CASE LcpSpin(t)
    BY <2>5 DEF LcpSpin, vars, context, usbVars
  <2> QED
    BY <1>8, <2>1, <2>2, <2>3, <2>4, <2>5 DEF Lcp210x__usb_control_msg
<1>9. ASSUME NEW t \in Thread, Return(t) PROVE BusRest'
  BY <1>9 DEF Return, Goto, context, usbVars, TypeOK
<1>10. CASE UNCHANGED vars
  BY <1>10 DEF vars, context, usbVars
<1> QED
  BY <1>1, <1>2, <1>3, <1>4, <1>5, <1>6, <1>8, <1>9, <1>10
     DEF Next, ProcCmd_SETUP_LINE, ProcCmd_SET_STATUS_LINE

LEMMA BusAlways == Spec => []BusInv
  BY BusInit, BusStep, PTL DEF Spec

(* The poll of endpoint 0 goes on, and what is on the bus is what the      *)
(* handshake through context->iStatus says, with any number of threads     *)
(* that collide, transfers that fail and submissions that are refused.     *)
THEOREM BusCorrect == Spec => []BusSound
<1>1. BusInv => BusSound
  <2> SUFFICES ASSUME BusInv PROVE RequestOnBus
    BY DEF BusInv, BusSound
  <2> SUFFICES ASSUME plugged, inFlight > 0, Undisturbed
               PROVE  /\ iStatus = 2 => /\ ControlRequest = slot
                                        /\ \E t \in Thread : appPc[t] = "spin"
                                                              /\ slot = Head(appTodo[t])
                      /\ iStatus # 2 => ControlRequest = Poll
    BY DEF RequestOnBus
  <2>1. CASE iStatus = 0
    BY <2>1 DEF BusInv, PollWhenFree
  <2>2. CASE iStatus # 0
    <3>1. PICK t \in Thread : appPc[t] = "spin"
      BY <2>2 DEF BusInv, SpinServed
    <3>2. appWant[t] # Nothing
      BY <3>1 DEF Undisturbed
    <3> QED
      BY <2>2, <3>1, <3>2 DEF BusInv, Handshake, TypeOK
  <2> QED
    BY <2>1, <2>2
<1> QED
  BY <1>1, BusAlways, PTL

-----------------------------------------------------------------------------
(* What the device has been set to, as a command under way goes on.        *)
Setup(t, v) ==
    /\ appWant[t] = [k \in {"SET_LINE_CTL", "SET_BAUDRATE"} |-> v] /\ LineCoding = v
    /\ \/ appPc[t] # "return" /\ appTodo[t] = SetupTodo(v)
       \/ appPc[t] # "return" /\ appTodo[t] = BaudTodo /\ line["SET_LINE_CTL"] = v
       \/ appPc[t] = "return" /\ line["SET_LINE_CTL"] = v /\ line["SET_BAUDRATE"] = v

SetLines(t, v) ==
    /\ appWant[t] = [k \in {"SET_MHS"} |-> v]
    /\ \/ appPc[t] # "return" /\ appTodo[t] = LinesTodo(v)
       \/ appPc[t] = "return" /\ line["SET_MHS"] = v

Promising(t) == plugged /\ appPc[t] # "idle" /\ appWant[t] # Nothing

Promised == \A t \in Thread :
    Promising(t) => \E v \in Value : Setup(t, v) \/ SetLines(t, v)

(* A request whose wait is over has been executed.                         *)
Done(request) ==
    line[request.kind] = IF request.kind = "SET_BAUDRATE" THEN LineCoding ELSE request.value

Executed == \A t \in Thread :
    Promising(t) /\ appPc[t] = "spin" /\ iStatus = 0 => Done(Head(appTodo[t]))

(* appWant is a function of the threads; its values are those of Promised. *)
CommandInv == BusInv /\ Promised /\ Executed /\ DOMAIN appWant = Thread

(* The requests of the commands, one by one.                               *)
LEMMA TodoShapes ==
  ASSUME NEW v
  PROVE  /\ Head(SetupTodo(v)) = [kind |-> "SET_LINE_CTL", value |-> v]
         /\ Tail(SetupTodo(v)) = BaudTodo /\ Len(SetupTodo(v)) = 2
         /\ Head(BaudTodo) = [kind |-> "SET_BAUDRATE", value |-> Zero] /\ Len(BaudTodo) = 1
         /\ Head(LinesTodo(v)) = [kind |-> "SET_MHS", value |-> v] /\ Len(LinesTodo(v)) = 1
  BY DEF SetupTodo, BaudTodo, LinesTodo

(* A step of a thread inside the driver that neither ends a request nor    *)
(* returns keeps the promise.                                              *)
LEMMA OwnStep ==
  ASSUME CommandInv, NEW t \in Thread, appPc[t] \notin {"idle", "return"},
         appPc'[t] \notin {"idle", "return"}, appTodo' = appTodo,
         UNCHANGED <<plugged, appWant, LineCoding, line>>,
         \A u \in Thread : u # t => appPc'[u] = appPc[u]
  PROVE  Promised'
  BY DEF CommandInv, Promised, Promising, Setup, SetLines

(* What a step leaves alone for a thread keeps its promise.                *)
LEMMA Untouched ==
  ASSUME CommandInv, NEW u \in Thread, UNCHANGED <<iStatus, plugged, LineCoding, line>>,
         appPc'[u] = appPc[u], appTodo'[u] = appTodo[u], appWant'[u] = appWant[u]
  PROVE  /\ Promising(u)' => \E v \in Value : Setup(u, v)' \/ SetLines(u, v)'
         /\ Promising(u)' /\ appPc'[u] = "spin" /\ iStatus' = 0 => Done(Head(appTodo[u]))'
  BY DEF CommandInv, Promised, Executed, Promising, Setup, SetLines, Done

LEMMA CommandStep == CommandInv /\ [Next]_vars => CommandInv'
<1> SUFFICES ASSUME CommandInv, [Next]_vars PROVE CommandInv'
  OBVIOUS
<1> BusInv'
  BY BusStep DEF CommandInv
<1>0. DOMAIN appWant' = Thread
  <2>1. appWant' = appWant \/ appWant' = [u \in Thread |-> Nothing]
        \/ \E t \in Thread : \E w : appWant' = [appWant EXCEPT ![t] = w]
    BY DEF Next, vars, context, usbVars, Unplug, Disconnected, Callback_Intr, Promise,
           Callback_Closed, Refused, ProcCmd_SETUP_LINE, ProcCmd_SET_STATUS_LINE, Start,
           Lcp210x__usb_control_msg, LcpTest, LcpSkip, LcpFill, LcpArm, LcpSpin, LcpDone,
           NextRequest, Return
  <2> QED
    BY <2>1 DEF CommandInv
<1> SUFFICES Promised' /\ Executed'
  BY <1>0 DEF CommandInv
<1> USE DEF Promised, Executed, Promising
<1>1. CASE Unplug
  BY <1>1 DEF Unplug
<1>2. CASE Disconnected
  BY <1>2 DEF Disconnected, context, CommandInv, Setup, SetLines, Done
<1>3. ASSUME NEW s \in Status, Callback_Intr(s) PROVE Promised' /\ Executed'
  <2>1. /\ UNCHANGED <<appPc, appTodo, slot, plugged, LineCoding>>
        /\ line' = IF s = "ok" THEN Execute(ControlRequest) ELSE line
        /\ plugged
    BY <1>3 DEF Callback_Intr
  <2>2. CASE s = "ok"
    <3>1. appWant' = appWant
      BY <1>3, <2>2 DEF Callback_Intr, Promise
    <3> SUFFICES ASSUME NEW t \in Thread, Promising(t)
                 PROVE  /\ \E v \in Value : Setup(t, v)' \/ SetLines(t, v)'
                        /\ appPc[t] = "spin" /\ iStatus' = 0 => Done(Head(appTodo[t]))'
      BY <2>1, <3>1
    <3>2. PICK v \in Value : Setup(t, v) \/ SetLines(t, v)
      BY DEF CommandInv
    <3>3. CASE iStatus # 2
      <4>1. ControlRequest = Poll
        BY <3>3 DEF CommandInv, BusInv, PollWhenFree, Handshake, TypeOK
      <4>2. line' = line
        BY <2>1, <2>2, <4>1 DEF Execute, Poll, CommandInv, BusInv, TypeOK
      <4>3. iStatus' = 0 => iStatus = 0
        BY <1>3, <3>3, CallbackCases DEF CommandInv, BusInv, TypeOK
      <4> QED
        BY <2>1, <3>1, <3>2, <4>2, <4>3 DEF CommandInv, Setup, SetLines, Done
    <3>4. CASE iStatus = 2
      <4>1. appPc[t] = "spin"
        BY <3>4 DEF CommandInv, BusInv, SpinServed, Alone
      <4>2. ControlRequest = Head(appTodo[t])
        BY <3>4, <4>1 DEF CommandInv, BusInv, Handshake
      <4> DEFINE r == Head(appTodo[t])
      <4>3. r \in Command
        BY <4>1, TodoTail DEF CommandInv, BusInv, TypeOK, HasRequest
      <4>4. line' = [line EXCEPT ![r.kind] = IF r.kind = "SET_BAUDRATE" THEN LineCoding
                                             ELSE r.value]
        BY <2>1, <2>2, <4>2, <4>3 DEF Execute, Command, CommandInv, BusInv, TypeOK
      <4>5. /\ Done(r)'
            /\ \A k \in Kinds : k # r.kind => line'[k] = line[k]
        BY <2>1, <4>3, <4>4 DEF Done, Command, Kinds, CommandInv, BusInv, TypeOK
      <4>6. CASE Setup(t, v)
        <5>1. r.kind \in {"SET_LINE_CTL", "SET_BAUDRATE"} /\ (appTodo[t] = BaudTodo => r.kind = "SET_BAUDRATE")
          BY <4>1, <4>6, TodoShapes DEF Setup
        <5>2. Setup(t, v)'
          BY <2>1, <3>1, <4>1, <4>5, <4>6, <5>1 DEF Setup, Kinds
        <5> QED
          BY <2>1, <4>5, <5>2
      <4>7. CASE SetLines(t, v)
        <5>1. SetLines(t, v)'
          BY <2>1, <3>1, <4>1, <4>7 DEF SetLines
        <5> QED
          BY <2>1, <4>5, <5>1
      <4> QED
        BY <3>2, <4>6, <4>7
    <3> QED
      BY <3>3, <3>4
  <2>3. CASE s # "ok"
    BY <1>3, <2>3 DEF Callback_Intr, Promise
  <2> QED
    BY <2>2, <2>3
<1>4. CASE Callback_Closed
  BY <1>4 DEF Callback_Closed
<1>5. ASSUME NEW t \in Thread, Refused(t) PROVE Promised' /\ Executed'
  BY <1>5 DEF Refused, vars, context, usbVars, CommandInv, Setup, SetLines, Done
<1>6. ASSUME NEW t \in Thread, NEW v \in Value, NEW want, NEW todo, Start(t, want, todo),
             \/ /\ want = [k \in {"SET_LINE_CTL", "SET_BAUDRATE"} |-> v]
                /\ todo = SetupTodo(v) /\ LineCoding' = v
             \/ want = [k \in {"SET_MHS"} |-> v] /\ todo = LinesTodo(v)
      PROVE  Promised' /\ Executed'
  <2>1. CASE \A u \in Thread : appPc[u] = "idle"
    <3>1. /\ appPc'[t] = "test" /\ \A u \in Thread : u # t => appPc'[u] = "idle"
          /\ appWant'[t] = want /\ appTodo'[t] = todo
      BY <1>6, <2>1 DEF Start, Goto, CommandInv, BusInv, TypeOK
    <3> QED
      BY <1>6, <3>1 DEF Setup, SetLines
  <2>2. CASE ~\A u \in Thread : appPc[u] = "idle"
    BY <1>6, <2>2 DEF Start
  <2> QED
    BY <2>1, <2>2
<1>7. ASSUME NEW t \in Thread, NextRequest(t),
             appPc[t] \in {"test", "spin"}, (appPc[t] = "spin") <=> (iStatus = 0)
      PROVE  Promised' /\ Executed'
  <2>1. /\ UNCHANGED <<iStatus, plugged, LineCoding, line, appWant>>
        /\ appPc'[t] = IF Len(appTodo[t]) > 1 THEN "test" ELSE "return"
        /\ appTodo'[t] = Tail(appTodo[t])
        /\ \A u \in Thread : u # t => appPc'[u] = appPc[u] /\ appTodo'[u] = appTodo[u]
    BY <1>7 DEF NextRequest, Goto, context, usbVars, CommandInv, BusInv, TypeOK
  <2>2. SUFFICES ASSUME Promising(t) PROVE \E v \in Value : Setup(t, v)' \/ SetLines(t, v)'
    <3>1. \A u \in Thread : u # t =>
             /\ Promising(u)' => \E v \in Value : Setup(u, v)' \/ SetLines(u, v)'
             /\ Promising(u)' /\ appPc'[u] = "spin" /\ iStatus' = 0 => Done(Head(appTodo[u]))'
      BY <2>1, Untouched DEF Promising
    <3>2. Promising(t)' => Promising(t) /\ appPc'[t] # "spin"
      BY <1>7, <2>1
    <3> QED
      BY <3>1, <3>2
  <2>3. appPc[t] = "spin" /\ iStatus = 0
    BY <1>7, <2>2 DEF CommandInv, BusInv, SpinServed, Alone
  <2>4. PICK v \in Value : Setup(t, v) \/ SetLines(t, v)
    BY <2>2 DEF CommandInv
  <2>5. Done(Head(appTodo[t]))
    BY <2>2, <2>3 DEF CommandInv
  <2>6. CASE Setup(t, v)
    <3>1. CASE appTodo[t] = SetupTodo(v)
      <4>1. appPc'[t] = "test" /\ appTodo'[t] = BaudTodo
        BY <2>1, <3>1, TodoShapes
      <4>2. line["SET_LINE_CTL"] = v
        BY <2>5, <3>1, TodoShapes DEF Done
      <4>3. Setup(t, v)'
        BY <2>1, <2>6, <4>1, <4>2 DEF Setup
      <4> QED
        BY <4>3
    <3>2. CASE appTodo[t] = BaudTodo /\ line["SET_LINE_CTL"] = v
      <4>1. appPc'[t] = "return"
        BY <2>1, <3>2, TodoShapes
      <4>2. line["SET_BAUDRATE"] = LineCoding
        BY <2>5, <3>2, TodoShapes DEF Done
      <4>3. Setup(t, v)'
        BY <2>1, <2>6, <3>2, <4>1, <4>2 DEF Setup
      <4> QED
        BY <4>3
    <3> QED
      BY <2>3, <2>6, <3>1, <3>2 DEF Setup
  <2>7. CASE SetLines(t, v)
    <3>1. appTodo[t] = LinesTodo(v)
      BY <2>3, <2>7 DEF SetLines
    <3>2. appPc'[t] = "return"
      BY <2>1, <3>1, TodoShapes
    <3>3. line["SET_MHS"] = v
      BY <2>5, <3>1, TodoShapes DEF Done
    <3>4. SetLines(t, v)'
      BY <2>1, <2>7, <3>2, <3>3 DEF SetLines
    <3> QED
      BY <3>4
  <2> QED
    BY <2>4, <2>6, <2>7
<1>8. ASSUME NEW t \in Thread, Lcp210x__usb_control_msg(t) PROVE Promised' /\ Executed'
  <2>1. CASE LcpTest(t)
    <3>1. Promised'
      BY <2>1, OwnStep DEF LcpTest, Goto, context, usbVars, CommandInv, BusInv, TypeOK
    <3> QED
      BY <2>1, <3>1 DEF LcpTest, Goto, context, usbVars, CommandInv, BusInv, TypeOK, Alone
  <2>2. CASE LcpSkip(t) \/ LcpDone(t)
    BY <2>2, <1>7 DEF LcpSkip, LcpDone
  <2>3. CASE LcpFill(t)
    <3>1. Promised'
      BY <2>3, OwnStep DEF LcpFill, Goto, usbVars, CommandInv, BusInv, TypeOK
    <3> QED
      BY <2>3, <3>1 DEF LcpFill, Goto, usbVars, CommandInv, BusInv, TypeOK, Alone
  <2>4. CASE LcpArm(t)
    <3>1. Promised'
      BY <2>4, OwnStep DEF LcpArm, Goto, usbVars, CommandInv, BusInv, TypeOK
    <3> QED
      BY <2>4, <3>1 DEF LcpArm, Goto, usbVars, CommandInv, BusInv, TypeOK
  <2>5. CASE LcpSpin(t)
    BY <2>5 DEF LcpSpin, vars, context, usbVars, CommandInv, Setup, SetLines, Done
  <2> QED
    BY <1>8, <2>1, <2>2, <2>3, <2>4, <2>5 DEF Lcp210x__usb_control_msg
<1>9. ASSUME NEW t \in Thread, Return(t) PROVE Promised' /\ Executed'
  <2>1. /\ UNCHANGED <<iStatus, plugged, LineCoding, line, appTodo>>
        /\ appPc'[t] = "idle"
        /\ \A u \in Thread : u # t => appPc'[u] = appPc[u] /\ appWant'[u] = appWant[u]
    BY <1>9 DEF Return, Goto, context, usbVars, CommandInv, BusInv, TypeOK
  <2> QED
    BY <2>1, Untouched
<1>10. CASE UNCHANGED vars
  BY <1>10 DEF vars, context, usbVars, CommandInv, Setup, SetLines, Done
<1>11. ASSUME NEW t \in Thread, NEW v \in Value,
              ProcCmd_SETUP_LINE(t, v) \/ ProcCmd_SET_STATUS_LINE(t, v)
       PROVE  Promised' /\ Executed'
  BY <1>11, <1>6 DEF ProcCmd_SETUP_LINE, ProcCmd_SET_STATUS_LINE, SetupTodo, LinesTodo
<1> QED
  BY <1>1, <1>2, <1>3, <1>4, <1>5, <1>8, <1>9, <1>10, <1>11 DEF Next

(* A command that returns success has been carried out: every value that   *)
(* SETUP_LINE or SET_STATUS_LINE was to set is in the device, unless a     *)
(* transfer failed or another command ran beside it.                       *)
THEOREM CommandCorrect == Spec => []CommandApplied
<1>1. Init => CommandInv
  <2> SUFFICES ASSUME Init PROVE Promised /\ Executed /\ DOMAIN appWant = Thread
    BY BusInit DEF CommandInv
  <2> QED
    BY DEF Init, Promised, Executed, Promising
<1>2. CommandInv => CommandApplied
  <2> SUFFICES ASSUME CommandInv, NEW t \in Thread, appPc[t] = "return", plugged,
                      NEW k \in DOMAIN appWant[t]
               PROVE  line[k] = appWant[t][k]
    BY DEF CommandApplied
  <2>1. appWant[t] # Nothing
    BY DEF Nothing
  <2>2. PICK v \in Value : Setup(t, v) \/ SetLines(t, v)
    BY <2>1 DEF CommandInv, Promised, Promising
  <2> QED
    BY <2>2 DEF Setup, SetLines
<1> QED
  BY <1>1, <1>2, CommandStep, PTL DEF Spec
=============================================================================
