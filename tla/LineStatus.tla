------------------------------ MODULE LineStatus ------------------------------
(***************************************************************************)
(* What a program is told of the line (usbuart.c): the callbacks keep the  *)
(* modem signals the device reports in wStatusLine and set                 *)
(* EVENT_STATUS_LINE; GET_STATUS_LINE tells the signals, and whether a     *)
(* packet can be sent, and clears the event.  The two sides share no lock, *)
(* and the second half of the answer depends on the send path: the module  *)
(* extends Sender.                                                         *)
(*                                                                         *)
(* A store to a shared field is a step, a test of one signal is a step.    *)
(* The events are bits of one byte, set and cleared by one instruction.    *)
(* The callbacks and Callback_BulkOut are all run by the thread of the USB *)
(* stack.                                                                  *)
(***************************************************************************)
EXTENDS Sender

CONSTANTS Signals    \* the modem signals, in the order GET_STATUS_LINE tests them

ASSUME StatusAssumption == Signals \in Seq(STRING)

VARIABLES
    kind,         \* "com": FTDI, CP210x; "cdc": the others
    wStatusLine,  \* the signals that are on
    lineEvent,    \* bit EVENT_STATUS_LINE of bEventsUART
    statPc,       \* where the callback is
    getPc, next,  \* where each thread is in GET_STATUS_LINE, the next signal
    told,         \* what it was told last
    missed        \* the event was set while its request had not cleared it yet

line == <<kind, wStatusLine, lineEvent, statPc, getPc, next, told, missed>>
lineVars == <<vars, line>>

LineInit == /\ Init /\ kind \in {"com", "cdc"}
            /\ wStatusLine = {} /\ lineEvent = FALSE /\ statPc = "idle"
            /\ getPc = [t \in Thread |-> "idle"] /\ next = [t \in Thread |-> 1]
            /\ told = [t \in Thread |-> [signals |-> {}, free |-> FALSE]]
            /\ missed = [t \in Thread |-> FALSE]

-----------------------------------------------------------------------------
(* Callback_Intr, or Callback_BulkInp of an FTDI chip.                     *)

(* The device has reported signals that differ from those known.           *)
Report(s) == presence /\ usbPc = "idle" /\ s # wStatusLine

StoreStatus(s) ==
    /\ statPc = "idle" /\ Report(s)
    /\ wStatusLine' = s /\ statPc' = "event"
    /\ UNCHANGED <<vars, kind, lineEvent, getPc, next, told, missed>>

RaiseStatus ==
    /\ statPc = "event"
    /\ lineEvent' = TRUE /\ statPc' = "idle"
    /\ missed' = [t \in Thread |-> missed[t] \/ getPc[t] \in {"read", "clear"}]
    /\ UNCHANGED <<vars, kind, wStatusLine, getPc, next, told>>

(* A mistake the properties must catch: the event before the signals.      *)
StatusCallback_EventFirst ==
    \/ /\ statPc = "idle" /\ presence /\ usbPc = "idle"
       /\ lineEvent' = TRUE /\ statPc' = "store"
       /\ missed' = [t \in Thread |-> missed[t] \/ getPc[t] \in {"read", "clear"}]
       /\ UNCHANGED <<vars, kind, wStatusLine, getPc, next, told>>
    \/ /\ statPc = "store" /\ statPc' = "idle"
       /\ wStatusLine' \in SUBSET {Signals[i] : i \in DOMAIN Signals}
       /\ UNCHANGED <<vars, kind, lineEvent, getPc, next, told, missed>>

StatusCallback == (\E s \in SUBSET {Signals[i] : i \in DOMAIN Signals} : StoreStatus(s)) \/ RaiseStatus

-----------------------------------------------------------------------------
(* GET_STATUS_LINE.  It asks for no PRESENCE_BIT0: after an unplug the     *)
(* program is told the signals reported last.                              *)

Begin(t) ==
    /\ getPc[t] = "idle" /\ appPc[t] = "idle"
    /\ getPc' = [getPc EXCEPT ![t] = "read"] /\ next' = [next EXCEPT ![t] = 1]
    /\ told' = [told EXCEPT ![t] = [signals |-> {}, free |-> FALSE]]
    /\ missed' = [missed EXCEPT ![t] = FALSE]
    /\ UNCHANGED <<vars, kind, wStatusLine, lineEvent, statPc>>

(* COM style: wStatusLine is tested signal by signal; CDC style: the word. *)
Read(t) ==
    /\ getPc[t] = "read"
    /\ LET last == IF kind = "cdc" THEN Len(Signals) ELSE next[t]
       IN  /\ told' = [told EXCEPT ![t].signals =
                          @ \union (wStatusLine \intersect {Signals[i] : i \in next[t] .. last})]
           /\ next' = [next EXCEPT ![t] = IF last = Len(Signals) THEN 1 ELSE last + 1]
           /\ getPc' = [getPc EXCEPT ![t] = IF last = Len(Signals) THEN "clear" ELSE @]
    /\ UNCHANGED <<vars, kind, wStatusLine, lineEvent, statPc, missed>>

ClearStatus(t) ==
    /\ getPc[t] = "clear"
    /\ lineEvent' = FALSE /\ getPc' = [getPc EXCEPT ![t] = "free"]
    /\ UNCHANGED <<vars, kind, wStatusLine, statPc, next, told, missed>>

(* A mistake: the event is asked, not the buffer.                          *)
TestFree_Event(t) ==
    /\ getPc[t] = "free"
    /\ told' = [told EXCEPT ![t].free = sendFree]
    /\ getPc' = [getPc EXCEPT ![t] = "idle"]
    /\ UNCHANGED <<vars, kind, wStatusLine, lineEvent, statPc, next, missed>>

TestFree(t) ==
    /\ getPc[t] = "free"
    /\ told' = [told EXCEPT ![t].free = (wBytes = 0)]
    /\ getPc' = [getPc EXCEPT ![t] = "idle"]
    /\ UNCHANGED <<vars, kind, wStatusLine, lineEvent, statPc, next, missed>>

ProcCmd_GET_STATUS_LINE(t) == Read(t) \/ ClearStatus(t) \/ TestFree(t)

(* EVENT_STATUS returns the byte of the events as it is.                   *)
ProcCmd_EVENT_STATUS == [EVENT_STATUS_LINE |-> lineEvent, EVENT_SEND_IS_FREE |-> sendFree]

-----------------------------------------------------------------------------
(* A step of the send path: a thread makes one request at a time, the      *)
(* stack runs one callback at a time.  A packet accepted uses up what the  *)
(* thread was told.                                                        *)
SendStep ==
    /\ Next
    /\ statPc # "idle" => presence' = presence /\ usbPc' = usbPc
    /\ \A t \in Thread : getPc[t] # "idle" => appPc'[t] = appPc[t]
    /\ told' = [t \in Thread |-> [told[t] EXCEPT !.free = @ /\ appPc'[t] = "idle"]]
    /\ UNCHANGED <<kind, wStatusLine, lineEvent, statPc, getPc, next, missed>>

LineNext == \/ SendStep \/ StatusCallback
            \/ \E t \in Thread : Begin(t) \/ ProcCmd_GET_STATUS_LINE(t)

LineSpec == LineInit /\ [][LineNext]_lineVars

(* Callbacks and requests that have begun go on.                           *)
LineFairSpec == /\ LineSpec /\ Fairness /\ WF_lineVars(RaiseStatus)
                /\ \A t \in Thread : WF_lineVars(ProcCmd_GET_STATUS_LINE(t))

-----------------------------------------------------------------------------
(* A program that GET_STATUS_LINE told that it may send can: until it      *)
(* does, no callback, however late, makes the buffer busy.  The answer is  *)
(* about wBytes: EVENT_SEND_IS_FREE can be set by a late callback when the *)
(* next packet is already in the buffer.                                   *)
FreeTold == \A t \in Thread : told[t].free => wBytes = 0

(* While EVENT_STATUS shows no change of the line, what the program was    *)
(* told last is what the device reported last: a program may ask for the   *)
(* status only after the event.  (A change inside the request itself can   *)
(* be lost: see `missed'.)                                                 *)
ChangesAnnounced ==
    \A t \in Thread :
        /\ ~ProcCmd_EVENT_STATUS.EVENT_STATUS_LINE /\ statPc = "idle"
        /\ getPc[t] = "idle" /\ ~missed[t]
        => told[t].signals = wStatusLine

(* A program learns of the free buffer in two ways, and both are right:    *)
(* the event comes, and the answer holds.                                  *)
BufferTold == FreeAnnounced /\ FreeTold
=============================================================================
