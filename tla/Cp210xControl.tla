--------------------------- MODULE Cp210xControl ---------------------------
(***************************************************************************)
(* Control requests to an open CP210x (usbuart.c).  Endpoint 0 is polled   *)
(* without end for the modem status: Callback_Intr submits the next poll   *)
(* when one completes.  A control request of a program does not go to the  *)
(* endpoint itself: Lcp210x__usb_control_msg leaves it in the device's     *)
(* context and spins until the callback has slipped it in between two      *)
(* polls.  context->iStatus is the whole protocol:                         *)
(*     0  not in use,  1  a request waits,  2  the request is under way.   *)
(*                                                                         *)
(* The session is modelled from the first poll, submitted by OPEN_UART, to *)
(* an unplug.  The status word the polls bring is not part of this state.  *)
(***************************************************************************)
EXTENDS Integers, Sequences

CONSTANTS Thread,       \* application threads that hold the handle
          Value,        \* line codings, and values of the control lines
          Zero,         \* the value of a field before it is set
          Status,       \* how a transfer on the bus may end: "ok", "error"
          SubmitResult  \* what coreUSBControlTransferAsync may return

ASSUME ControlAssumption == /\ Status \subseteq {"ok", "error"}
                            /\ SubmitResult \subseteq BOOLEAN
                            /\ Zero \notin Value

(* Requests to the device: the poll, and the three that programs make.     *)
Poll == [kind |-> "GET_MDMSTS", value |-> Zero]
Command == [kind : {"SET_LINE_CTL", "SET_BAUDRATE", "SET_MHS"},
            value : Value \union {Zero}]

VARIABLES
    iStatus, slot,   \* dev->context: its iStatus and the request in it
    ControlRequest,  \* the setup packet every transfer of endpoint 0 uses
    LineCoding,      \* the rate SET_BAUDRATE sends is read from here
    presence,        \* PRESENCE_BIT0 of iFlags
    plugged,         \* the device is on the bus (USB stack)
    refused,         \* a submission was refused: nobody is told of it
    inFlight,        \* control transfers submitted and not completed
    line,            \* the device: the value it was last given, per command
    appPc,           \* where each thread is
    appTodo,         \* the requests its command has still to make
    appWant          \* ghost: what its command promises to set in the device

context == <<iStatus, slot>>
usbVars == <<presence, plugged, refused, inFlight, line>>
vars == <<context, ControlRequest, LineCoding, usbVars, appPc, appTodo,
          appWant>>

AppPc == {"idle", "test", "fill", "arm", "spin", "return"}
Nothing == [k \in {} |-> Zero]

Init == /\ iStatus = 0 /\ slot = Poll
        /\ ControlRequest = Poll /\ inFlight = 1    \* by OPEN_UART
        /\ LineCoding = Zero
        /\ presence = TRUE /\ plugged = TRUE /\ refused = FALSE
        /\ line = [k \in {"SET_LINE_CTL", "SET_BAUDRATE", "SET_MHS"} |-> Zero]
        /\ appPc = [t \in Thread |-> "idle"]
        /\ appTodo = [t \in Thread |-> <<>>]
        /\ appWant = [t \in Thread |-> Nothing]

-----------------------------------------------------------------------------
(* The thread of the USB stack.                                            *)

Unplug == /\ plugged
          /\ plugged' = FALSE
          /\ UNCHANGED <<context, ControlRequest, LineCoding, presence,
                         refused, inFlight, line, appPc, appTodo, appWant>>

Disconnected == /\ ~plugged /\ presence /\ inFlight = 0
                /\ presence' = FALSE
                /\ UNCHANGED <<context, ControlRequest, LineCoding, plugged,
                               refused, inFlight, line, appPc, appTodo, appWant>>

(***************************************************************************)
(* usb_control_msg(..., NO_WAIT, Callback_Intr) from the callback: the     *)
(* setup packet is written and the transfer queued, or refused.  It takes  *)
(* the place of the transfer that has just completed.                      *)
(***************************************************************************)
usb_control_msg(request) ==
    /\ ControlRequest' = request
    /\ \/ TRUE \in SubmitResult /\ UNCHANGED <<inFlight, refused>>
       \/ FALSE \in SubmitResult /\ inFlight' = inFlight - 1 /\ refused' = TRUE

(* The effect of the setup packet on the device; the data stage of         *)
(* SET_BAUDRATE is read from LineCoding.                                   *)
Execute(request) ==
    IF request.kind \notin DOMAIN line THEN line
    ELSE [line EXCEPT ![request.kind] =
             IF request.kind = "SET_BAUDRATE" THEN LineCoding
             ELSE request.value]

(* A transfer that fails releases the commands under way from their        *)
(* promise.                                                                *)
Promise(status) == appWant' = IF status = "ok" THEN appWant
                              ELSE [t \in Thread |-> Nothing]

(* A mistake: the end of a request is not noted.                           *)
Callback_NoEnd(status) ==
    /\ plugged /\ inFlight > 0
    /\ line' = IF status = "ok" THEN Execute(ControlRequest) ELSE line
    /\ IF iStatus = 1
       THEN iStatus' = 2 /\ usb_control_msg(slot)
       ELSE UNCHANGED iStatus /\ usb_control_msg(Poll)
    /\ Promise(status)
    /\ UNCHANGED <<slot, LineCoding, presence, plugged, appPc, appTodo>>

(* A transfer ends while the device is there: the callback takes the       *)
(* request that waits, or notes the end of the one it took, and submits.   *)
Callback_Intr(status) ==
    /\ plugged /\ inFlight > 0
    /\ line' = IF status = "ok" THEN Execute(ControlRequest) ELSE line
    /\ IF iStatus = 1
       THEN iStatus' = 2 /\ usb_control_msg(slot)
       ELSE iStatus' = 0 /\ usb_control_msg(Poll)
    /\ Promise(status)
    /\ UNCHANGED <<slot, LineCoding, presence, plugged, appPc, appTodo>>

(* The transfer is closed by the unplug: the callback lets a waiter go and *)
(* submits nothing.                                                        *)
Callback_Closed ==
    /\ ~plugged /\ inFlight > 0
    /\ iStatus' = 0
    /\ inFlight' = inFlight - 1
    /\ UNCHANGED <<slot, ControlRequest, LineCoding, presence, plugged,
                   refused, line, appPc, appTodo, appWant>>

-----------------------------------------------------------------------------
(* Application threads.                                                    *)

Goto(t, pc) == appPc' = [appPc EXCEPT ![t] = pc]

(* A command beside another one promises nothing: they share the context.  *)
Start(t, want, todo) ==
    /\ appPc[t] = "idle" /\ presence
    /\ appWant' = IF \A u \in Thread : appPc[u] = "idle"
                  THEN [appWant EXCEPT ![t] = want]
                  ELSE [u \in Thread |-> Nothing]
    /\ appTodo' = [appTodo EXCEPT ![t] = todo]
    /\ Goto(t, "test")
    /\ UNCHANGED <<context, ControlRequest, usbVars>>

(* The command is refused: the device is gone, and the result is 0.        *)
Refused(t) == appPc[t] = "idle" /\ ~presence /\ UNCHANGED vars

ProcCmd_SETUP_LINE(t, v) ==
    /\ LineCoding' = v
    /\ Start(t, [k \in {"SET_LINE_CTL", "SET_BAUDRATE"} |-> v],
             <<[kind |-> "SET_LINE_CTL", value |-> v],
               [kind |-> "SET_BAUDRATE", value |-> Zero]>>)

ProcCmd_SET_STATUS_LINE(t, v) ==
    /\ UNCHANGED LineCoding
    /\ Start(t, [k \in {"SET_MHS"} |-> v], <<[kind |-> "SET_MHS", value |-> v]>>)

(* What follows a request, made or skipped.                                *)
NextRequest(t) ==
    /\ appTodo' = [appTodo EXCEPT ![t] = Tail(@)]
    /\ Goto(t, IF Len(appTodo[t]) > 1 THEN "test" ELSE "return")
    /\ UNCHANGED <<context, ControlRequest, LineCoding, usbVars, appWant>>

(* Lcp210x__usb_control_msg goes on only if the context is not in use ...  *)
LcpTest(t) == /\ appPc[t] = "test" /\ iStatus = 0
              /\ Goto(t, "fill")
              /\ UNCHANGED <<context, ControlRequest, LineCoding, usbVars,
                             appTodo, appWant>>

(* ... and otherwise gives the request up, without a word to its caller.   *)
LcpSkip(t) == /\ appPc[t] = "test" /\ iStatus # 0
              /\ NextRequest(t)

LcpFill(t) == /\ appPc[t] = "fill"
              /\ slot' = Head(appTodo[t])
              /\ Goto(t, "arm")
              /\ UNCHANGED <<iStatus, ControlRequest, LineCoding, usbVars,
                             appTodo, appWant>>

LcpArm(t) == /\ appPc[t] = "arm"
             /\ iStatus' = 1
             /\ Goto(t, "spin")
             /\ UNCHANGED <<slot, ControlRequest, LineCoding, usbVars,
                            appTodo, appWant>>

(* The loop that waits: sleeping is not possible here.                     *)
LcpSpin(t) == appPc[t] = "spin" /\ iStatus # 0 /\ UNCHANGED vars

(* A mistake: the loop waits only until the request is taken.              *)
LcpDone_Taken(t) == /\ appPc[t] = "spin" /\ iStatus # 1
                    /\ NextRequest(t)

LcpDone(t) == /\ appPc[t] = "spin" /\ iStatus = 0
              /\ NextRequest(t)

Return(t) == /\ appPc[t] = "return"
             /\ appWant' = [appWant EXCEPT ![t] = Nothing]
             /\ Goto(t, "idle")
             /\ UNCHANGED <<context, ControlRequest, LineCoding, usbVars,
                            appTodo>>

(* A mistake: the request is announced before it is written.               *)
ArmEarly(t) == /\ appPc[t] = "fill"
               /\ iStatus' = 1
               /\ Goto(t, "arm")
               /\ UNCHANGED <<slot, ControlRequest, LineCoding, usbVars,
                              appTodo, appWant>>

FillLate(t) == /\ appPc[t] = "arm"
               /\ slot' = Head(appTodo[t])
               /\ Goto(t, "spin")
               /\ UNCHANGED <<iStatus, ControlRequest, LineCoding, usbVars,
                              appTodo, appWant>>

Lcp210x_ArmFirst(t) == \/ LcpTest(t) \/ LcpSkip(t) \/ ArmEarly(t)
                       \/ FillLate(t) \/ LcpSpin(t) \/ LcpDone(t)

Lcp210x__usb_control_msg(t) == \/ LcpTest(t) \/ LcpSkip(t) \/ LcpFill(t)
                               \/ LcpArm(t) \/ LcpSpin(t) \/ LcpDone(t)

-----------------------------------------------------------------------------
Next == \/ Unplug \/ Disconnected
        \/ \E s \in Status : Callback_Intr(s)
        \/ Callback_Closed
        \/ \E t \in Thread :
              \/ Refused(t)
              \/ \E v \in Value : \/ ProcCmd_SETUP_LINE(t, v)
                                  \/ ProcCmd_SET_STATUS_LINE(t, v)
              \/ Lcp210x__usb_control_msg(t)
              \/ Return(t)

Spec == Init /\ [][Next]_vars

(***************************************************************************)
(* Transfers complete, closed ones too, and fairness never makes the stack *)
(* refuse a submission or fail a transfer; threads inside the driver are   *)
(* scheduled, also the one that spins: the kernel preempts.                *)
(***************************************************************************)
Fairness == /\ WF_vars(\/ /\ \E s \in Status : Callback_Intr(s)
                          /\ UNCHANGED <<refused, appWant>>
                       \/ Callback_Closed)
            /\ \A t \in Thread : WF_vars(Lcp210x__usb_control_msg(t) \/ Return(t))

FairSpec == Spec /\ Fairness
-----------------------------------------------------------------------------
(* Properties.                                                             *)

(* Type correctness of the handshake.                                      *)
TypeOK == /\ iStatus \in 0 .. 2 /\ slot \in Command \union {Poll}
          /\ ControlRequest \in Command \union {Poll}
          /\ LineCoding \in Value \union {Zero}
          /\ presence \in BOOLEAN /\ plugged \in BOOLEAN /\ refused \in BOOLEAN
          /\ inFlight \in 0 .. 1
          /\ line \in [{"SET_LINE_CTL", "SET_BAUDRATE", "SET_MHS"}
                          -> Value \union {Zero}]
          /\ appPc \in [Thread -> AppPc]
          /\ appTodo \in [Thread -> Seq(Command)]

(* The poll never stops while the device is there, unless the stack has    *)
(* refused it: whoever waits in the context has someone to serve it.       *)
PollAlive == plugged /\ ~refused => inFlight = 1

Undisturbed == \A t \in Thread : appPc[t] # "idle" => appWant[t] # Nothing

(* The setup packet that is on the bus is the one the handshake says:      *)
(* while a request is under way it is the request of the thread that       *)
(* waits, otherwise it is a poll; also after commands have collided and    *)
(* transfers have failed.                                                  *)
RequestOnBus == plugged /\ inFlight > 0 /\ Undisturbed =>
    /\ iStatus = 2 => /\ ControlRequest = slot
                      /\ \E t \in Thread : appPc[t] = "spin"
                                            /\ slot = Head(appTodo[t])
    /\ iStatus # 2 => ControlRequest = Poll

(* A command that returns success has been carried out (usbuart_msg.h:     *)
(* "result: 0 -ERROR"): unless a transfer failed or another command ran    *)
(* beside it, the device has every value that SETUP_LINE or                *)
(* SET_STATUS_LINE was to set, whatever happened before.                   *)
CommandApplied == \A t \in Thread : appPc[t] = "return" /\ plugged =>
    \A k \in DOMAIN appWant[t] : line[k] = appWant[t][k]

(* A command returns, unless the device is unplugged meanwhile, the stack  *)
(* refuses a submission, a transfer fails or another command comes beside  *)
(* it.                                                                     *)
ReturnsWhilePlugged == \A t \in Thread :
    appPc[t] = "test" ~> \/ appPc[t] = "return" \/ appWant[t] = Nothing
                         \/ ~plugged \/ refused

(* Whatever several threads do to the one context at the same time, it     *)
(* does not stay in use for ever while the poll goes on.                   *)
ContextFreed == iStatus # 0 ~> iStatus = 0 \/ ~plugged \/ refused

(* The side of the USB stack: the poll goes on, and what is on the bus is  *)
(* what the handshake says.                                                *)
BusSound == TypeOK /\ PollAlive /\ RequestOnBus

(* Commands are served: an undisturbed one returns, and commands that      *)
(* collided leave the context to the next.                                 *)
CommandsServed == ReturnsWhilePlugged /\ ContextFreed
=============================================================================
