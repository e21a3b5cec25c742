----------------------------- MODULE DeviceList -----------------------------
(***************************************************************************)
(* The list of devices of the driver (usbuart.c): Additive and             *)
(* Disconnected, called by the USB stack, add and remove cells; programs   *)
(* enumerate the list, open devices by number and close them by handle.    *)
(* Each handler is one step here: the module is about what sequences of    *)
(* whole calls do to the list.  Cells are kept as the code keeps them, in  *)
(* memory that kmalloc hands out again after kfree, linked both ways, with *)
(* rootDevice pointing anywhere into the list.                             *)
(***************************************************************************)
EXTENDS Integers, Sequences, FiniteSets

CONSTANTS Addr,    \* addresses kmalloc may return for a cell
          NULL,    \* the null pointer
          Port,    \* places a known device may be plugged into
          Pid,     \* programs, by the number coreGetPid returns
          Viewer   \* the programs that enumerate the list

ASSUME AddrAssumption == Addr \subseteq Nat \ {0} /\ IsFiniteSet(Addr) /\ NULL \notin Addr
ASSUME PidAssumption == Pid \subseteq Nat \ {0} /\ Viewer \subseteq Pid

(***************************************************************************)
(* A cell is larger than the distance between any two program numbers: the *)
(* handle dev + pid is then different for different cells.                 *)
(***************************************************************************)
ASSUME SpacingAssumption == \A a, b \in Addr : \A p, r \in Pid :
                               a + p = b + r => a = b

VARIABLES
    heap,          \* the allocated cells: a function from their addresses
    rootDevice,
    booChangeList,
    devicedata,    \* per port, what Additive returned to the USB stack
    loaded,        \* the driver is loaded
    held,          \* per program, the handles it has open
    find,          \* per program, find->device of its enumeration
    seen,          \* per program, the numbers its enumeration has reported
    ended          \* per program, its enumeration was told there is no more

list == <<heap, rootDevice, booChangeList>>
views == <<find, seen, ended>>
vars == <<list, devicedata, loaded, held, views>>

Flag == {"PRESENCE", "BUSY", "UART"}
N == Cardinality(Addr)
Cells == DOMAIN heap

Init == /\ heap = [a \in {} |-> NULL] /\ rootDevice = NULL
        /\ booChangeList = FALSE
        /\ devicedata = [o \in Port |-> NULL]
        /\ loaded = TRUE
        /\ held = [p \in Pid |-> {}]
        /\ find = [p \in Pid |-> NULL]
        /\ seen = [p \in Pid |-> {}]
        /\ ended = [p \in Pid |-> FALSE]

-----------------------------------------------------------------------------
(* Walking the list.  N steps are enough for a list of N cells.            *)

(* for (;dev->last;dev = dev->last);                                       *)
GotoFirst(a) ==
    LET at[k \in 0 .. N] == IF k = 0 THEN a
                            ELSE IF heap[at[k - 1]].last = NULL THEN at[k - 1]
                            ELSE heap[at[k - 1]].last
    IN  at[N]

(* for (;dev->next;dev = dev->next);                                       *)
GotoEnd(a) ==
    LET at[k \in 0 .. N] == IF k = 0 THEN a
                            ELSE IF heap[at[k - 1]].next = NULL THEN at[k - 1]
                            ELSE heap[at[k - 1]].next
    IN  at[N]

(* The cells a walk from a along next visits, in order.                    *)
From(a) ==
    LET path[k \in 1 .. N] ==
            IF k = 1 THEN <<a>>
            ELSE LET s == path[k - 1]
                     c == heap[s[Len(s)]].next
                 IN  IF c = NULL THEN s ELSE Append(s, c)
    IN  path[N]

(* Every search starts at the first cell, wherever rootDevice points.      *)
Walk == IF rootDevice = NULL THEN <<>> ELSE From(GotoFirst(rootDevice))

(* The first cell of the walk that is one of S, or NULL.                   *)
Seek(S) ==
    LET w == Walk
        hits == {k \in DOMAIN w : w[k] \in S}
    IN  IF hits = {} THEN NULL
        ELSE w[CHOOSE k \in hits : \A j \in hits : k <= j]

SeekUartDevice(dev) == Seek({dev})
SeekToDescriptor(h) == Seek({c \in Cells : heap[c].lDescriptor = h})
SeekNumber(n) == Seek({c \in Cells : heap[c].devnum = n})

-----------------------------------------------------------------------------
(* Calls of the USB stack.                                                 *)

(* The smallest number that no cell has: the search starts again with the  *)
(* next number whenever it meets the current one.                          *)
Index0device ==
    LET try[i \in 0 .. N] == IF SeekNumber(i) = NULL THEN i ELSE try[i + 1]
    IN  try[0]

(* A known device is plugged in and there is memory for its cell.          *)
Additive(o, a) ==
    /\ loaded /\ devicedata[o] = NULL
    /\ a \notin Cells
    /\ LET end == IF rootDevice = NULL THEN NULL ELSE GotoEnd(rootDevice)
           new == [devnum |-> Index0device, last |-> end, next |-> NULL,
                   iFlags |-> {"PRESENCE"}, lDescriptor |-> 0]
       IN  heap' = [c \in Cells \union {a} |->
                      IF c = a THEN new
                      ELSE IF c = end THEN [heap[c] EXCEPT !.next = a]
                      ELSE heap[c]]
    /\ rootDevice' = a
    /\ booChangeList' = TRUE
    /\ devicedata' = [devicedata EXCEPT ![o] = a]
    /\ UNCHANGED <<loaded, held, views>>

(* A mistake: the cell that follows keeps its link to the freed one.       *)
Unlinked_OneWay(h, dev) ==
    [c \in DOMAIN h \ {dev} |->
        IF c = h[dev].last THEN [h[c] EXCEPT !.next = h[dev].next] ELSE h[c]]

(* The list without cell dev, and the cell rootDevice then points to.      *)
Unlinked(h, dev) ==
    [c \in DOMAIN h \ {dev} |->
        IF c = h[dev].last THEN [h[c] EXCEPT !.next = h[dev].next]
        ELSE IF c = h[dev].next THEN [h[c] EXCEPT !.last = h[dev].last]
        ELSE h[c]]

NewRoot(h, dev) == IF h[dev].next # NULL THEN h[dev].next ELSE h[dev].last

(* A cell that is still open stays in the list when its device leaves.     *)
Disconnected(o) ==
    /\ loaded /\ devicedata[o] # NULL
    /\ LET dev == devicedata[o]
           h == [heap EXCEPT ![dev].iFlags = @ \ {"PRESENCE"}]
       IN  IF h[dev].iFlags = {}
           THEN heap' = Unlinked(h, dev) /\ rootDevice' = NewRoot(h, dev)
           ELSE heap' = h /\ UNCHANGED rootDevice
    /\ booChangeList' = TRUE
    /\ devicedata' = [devicedata EXCEPT ![o] = NULL]
    /\ UNCHANGED <<loaded, held, views>>

(* Public_Start with a reason other than DRV_ENTRY frees every cell that a *)
(* walk from the first one reaches.                                        *)
Unload ==
    /\ loaded
    /\ loaded' = FALSE
    /\ heap' = [c \in Cells \ {Walk[k] : k \in DOMAIN Walk} |-> heap[c]]
    /\ rootDevice' = NULL
    /\ UNCHANGED <<booChangeList, devicedata, held, views>>

-----------------------------------------------------------------------------
(* Requests of programs, dispatched by ServiceProc.                        *)

(* SetBusy with the flag the caller adds: OPEN_UART sets UART_BIT2,        *)
(* OPEN_RAW clears it.                                                     *)
SetBusy(p, n, mode) ==
    LET dev == SeekNumber(n)
    IN  /\ dev # NULL
        /\ "PRESENCE" \in heap[dev].iFlags /\ "BUSY" \notin heap[dev].iFlags
        /\ heap' = [heap EXCEPT
                      ![dev].iFlags = (@ \ {"UART"}) \union {"BUSY"} \union mode,
                      ![dev].lDescriptor = dev + p]
        /\ held' = [held EXCEPT ![p] = @ \union {dev + p}]
        /\ UNCHANGED <<rootDevice, booChangeList, devicedata, loaded, views>>

ProcCmd_OPEN_UART(p, n) == loaded /\ SetBusy(p, n, {"UART"})
ProcCmd_OPEN_RAW(p, n) == loaded /\ SetBusy(p, n, {})

(* A mistake: closing clears every flag.                                   *)
Close_AllFlags(p, h) ==
    LET dev == SeekToDescriptor(h)
    IN  /\ loaded /\ dev # NULL
        /\ heap' = [heap EXCEPT ![dev].iFlags = {}, ![dev].lDescriptor = 0]
        /\ held' = [held EXCEPT ![p] = @ \ {h}]
        /\ UNCHANGED <<rootDevice, booChangeList, devicedata, loaded, views>>

ProcCmd_CLOSE_DEVICE(p, h) ==
    LET dev == SeekToDescriptor(h)
    IN  /\ loaded /\ dev # NULL
        /\ heap' = [heap EXCEPT ![dev].iFlags = @ \ {"BUSY", "UART"},
                                ![dev].lDescriptor = 0]
        /\ held' = [held EXCEPT ![p] = @ \ {h}]
        /\ UNCHANGED <<rootDevice, booChangeList, devicedata, loaded, views>>

(* A program that asks about changes is about to enumerate anew.           *)
GET_EVENT_CHANGE_LIST(p) ==
    /\ loaded
    /\ booChangeList' = FALSE
    /\ find' = [find EXCEPT ![p] = NULL]
    /\ seen' = [seen EXCEPT ![p] = {}]
    /\ ended' = [ended EXCEPT ![p] = FALSE]
    /\ UNCHANGED <<heap, rootDevice, devicedata, loaded, held>>

(* The request reports cell dev, or answers 0 if there is none.            *)
Report(p, dev) ==
    /\ IF dev = NULL
       THEN /\ ended' = [ended EXCEPT ![p] = TRUE]
            /\ UNCHANGED <<find, seen>>
       ELSE /\ find' = [find EXCEPT ![p] = dev]
            /\ seen' = [seen EXCEPT ![p] = @ \union {heap[dev].devnum}]
            /\ UNCHANGED ended
    /\ UNCHANGED <<list, devicedata, loaded, held>>

(* A mistake: the enumeration starts where rootDevice points.              *)
FirstDevice_AtRoot(p) ==
    /\ loaded /\ find[p] = NULL /\ ~ended[p]
    /\ Report(p, rootDevice)

FIRST_DEVICE(p) ==
    /\ loaded /\ find[p] = NULL /\ ~ended[p]
    /\ Report(p, IF rootDevice = NULL THEN NULL ELSE GotoFirst(rootDevice))

(* find->device is the program's copy of an address: it is looked for in   *)
(* the list before it is used.                                             *)
NEXT_DEVICE(p) ==
    /\ loaded /\ find[p] # NULL /\ ~ended[p]
    /\ LET dev == SeekUartDevice(find[p])
       IN  Report(p, IF dev = NULL THEN NULL ELSE heap[dev].next)

-----------------------------------------------------------------------------
Next == \/ \E o \in Port : Disconnected(o) \/ \E a \in Addr : Additive(o, a)
        \/ Unload
        \/ \E p \in Pid : \/ \E n \in 0 .. N : \/ ProcCmd_OPEN_UART(p, n)
                                               \/ ProcCmd_OPEN_RAW(p, n)
                          \/ \E h \in held[p] \union {0} :
                                ProcCmd_CLOSE_DEVICE(p, h)
        \/ \E p \in Viewer : \/ GET_EVENT_CHANGE_LIST(p)
                             \/ FIRST_DEVICE(p) \/ NEXT_DEVICE(p)

Spec == Init /\ [][Next]_vars
-----------------------------------------------------------------------------
(* Properties.                                                             *)

Cell == [devnum : 0 .. N, last : Addr \union {NULL}, next : Addr \union {NULL},
         iFlags : SUBSET Flag, lDescriptor : Nat]

(* Type correctness of the list and of what programs keep.                 *)
TypeOK == /\ Cells \subseteq Addr
          /\ \A c \in Cells : heap[c] \in Cell
          /\ rootDevice \in Addr \union {NULL}
          /\ booChangeList \in BOOLEAN /\ loaded \in BOOLEAN
          /\ devicedata \in [Port -> Addr \union {NULL}]
          /\ held \in [Pid -> SUBSET Nat]
          /\ find \in [Pid -> Addr \union {NULL}]
          /\ seen \in [Pid -> SUBSET (0 .. N)]
          /\ ended \in [Pid -> BOOLEAN]

Used == {c \in Cells : "BUSY" \in heap[c].iFlags}

(* Additive and Disconnected keep one doubly linked list: wherever         *)
(* rootDevice points, no link leads to a freed cell, a walk visits every   *)
(* cell once, and last is the inverse of next.                             *)
ListWellFormed ==
    /\ IF Cells = {} THEN rootDevice = NULL ELSE rootDevice \in Cells
    /\ \A c \in Cells : {heap[c].last, heap[c].next} \subseteq Cells \union {NULL}
    /\ Cells # {} =>
        LET w == Walk
        IN  /\ Len(w) = Cardinality(Cells)
            /\ {w[k] : k \in DOMAIN w} = Cells
            /\ heap[w[1]].last = NULL /\ heap[w[Len(w)]].next = NULL
            /\ \A k \in 2 .. Len(w) : heap[w[k]].last = w[k - 1]

(* A number names one device: OPEN_UART cannot open the wrong one.         *)
NumbersDistinct == \A c, d \in Cells : heap[c].devnum = heap[d].devnum => c = d

(* What Additive returned is passed to Disconnected later: the cell is     *)
(* still there then, whatever programs opened and closed meanwhile.        *)
DevicedataAlive == \A o \in Port : loaded /\ devicedata[o] # NULL =>
    /\ devicedata[o] \in Cells
    /\ "PRESENCE" \in heap[devicedata[o]].iFlags

(* A handle stays good until its owner closes it, unplugged device or not, *)
(* and names the device it was given for: no two open handles are equal.   *)
HandlesGood == loaded =>
    /\ \A p \in Pid : \A h \in held[p] : SeekToDescriptor(h) \in Used
    /\ \A p, r \in Pid : p # r => held[p] \intersect held[r] = {}
    /\ Used = {SeekToDescriptor(h) : h \in UNION {held[p] : p \in Pid}}

(* An enumeration that ran to its end while no change was announced has    *)
(* reported every device.                                                  *)
EnumerationComplete == \A p \in Viewer :
    loaded /\ ended[p] /\ ~booChangeList =>
        seen[p] = {heap[c].devnum : c \in Cells}

(* Unloading the driver frees every cell.                                  *)
UnloadFreesAll == ~loaded => Cells = {}

(* The list as a whole, through every plugging and unplugging until the    *)
(* driver is unloaded.                                                     *)
ListSound == TypeOK /\ ListWellFormed /\ NumbersDistinct /\ UnloadFreesAll

(* What others keep of the list stays good: the addresses the USB stack    *)
(* has, and the handles programs have.                                     *)
PointersGood == DevicedataAlive /\ HandlesGood
=============================================================================
