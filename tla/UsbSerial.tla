------------------------------ MODULE UsbSerial ------------------------------
(***************************************************************************)
(* The usb-serial core (usb-serial.c): the life of the serial objects      *)
(* between the USB stack, which probes, suspends and disconnects them, the *)
(* programs, which install, open, use and close a tty on a port of theirs, *)
(* the reader of /proc, and the unloading of the driver's module.          *)
(*                                                                         *)
(* An object has a count of references (kref), a mutex (disc_mutex) and a  *)
(* flag disconnected that the mutex protects; table_lock protects the      *)
(* table of minors.  A step holds a lock for its own duration, or takes it *)
(* and leaves it to a later step where the code calls out or takes another *)
(* lock meanwhile.  The tty layer (tty_mutex, the lock and the count of a  *)
(* tty, tty_port_open, tty_port_close, tty_port_hangup), the urbs, the     *)
(* work queue and the module count are external: they do what the calls    *)
(* here need of them.                                                      *)
(***************************************************************************)
EXTENDS Integers, Sequences, FiniteSets

CONSTANTS Thread,        \* programs that open and use ttys, or read /proc
          MaxSerial,     \* bound: how often a device is plugged in
          MaxPorts,      \* bound: ports of a device
          MaxDying,      \* bound: ttys of a port that wait for serial_cleanup
          TtyMinors,     \* USB_SERIAL_TTY_MINORS
          NULL

Actor == Thread \union {"hub", "worker"}
Serial == 1 .. MaxSerial
Port == Serial \X (1 .. MaxPorts)
Minor == 0 .. MaxSerial * MaxPorts - 1

Tty == [port : Port, count : Nat \ {0}, lock : Thread \union {NULL}]

ASSUME SerialAssumption == /\ MaxSerial \in Nat \ {0} /\ MaxPorts \in Nat \ {0}
                           /\ MaxDying \in Nat /\ TtyMinors \in Nat /\ IsFiniteSet(Thread)
                           /\ {"hub", "worker"} \intersect Thread = {}
                           /\ NULL \notin Actor /\ NULL \notin Port /\ NULL \notin Tty

VARIABLES
    table_lock,
    serial,           \* the objects: reference count, mutex, flags
    serial_minors,    \* the table of minors: the port, or NULL
    ttys,             \* per minor: the tty, its count and who has its lock
    port,             \* tty_port and driver state of a port
    pc,               \* where each actor is, and its local variables
    module,           \* references to the driver's module, and its state
    unplugged,        \* the device that is bound has left the bus
    badAccess         \* a freed object, or code that is unloaded, was used

vars == <<table_lock, serial, serial_minors, ttys, port, pc, module, unplugged, badAccess>>

NoSerial == [mem |-> "none", kref |-> 0, disc_mutex |-> NULL, disconnected |-> FALSE,
             attached |-> FALSE, minors_reserved |-> FALSE, num_ports |-> 0,
             bound |-> FALSE, pm |-> 0, poisoned |-> FALSE]
NoPort == [count |-> 0, tty |-> FALSE, initialized |-> FALSE, open |-> FALSE,
           urb |-> FALSE, work |-> FALSE, dying |-> 0]
Idle == [at |-> "idle", s |-> 1, i |-> 1, m |-> 0, hung |-> FALSE, then |-> "idle"]

Init == /\ table_lock = NULL /\ serial = [s \in Serial |-> NoSerial]
        /\ serial_minors = [m \in Minor |-> NULL] /\ ttys = [m \in Minor |-> NULL]
        /\ port = [p \in Port |-> NoPort] /\ pc = [a \in Actor |-> Idle]
        /\ module = [refs |-> 0, state |-> "loaded"]
        /\ unplugged = FALSE /\ badAccess = FALSE

At(a, where) == ~badAccess /\ pc[a].at = where
Goto(a, where) == pc' = [pc EXCEPT ![a].at = where]
PortOf(a) == <<pc[a].s, pc[a].i>>
Unlocked(s) == serial[s].disc_mutex = NULL

(* What using the object s, or calling the driver, does when it is gone.   *)
Use(s) == badAccess' = (serial[s].mem # "alive")
UseDriver(s, calls) == badAccess' = (serial[s].mem # "alive" \/ (calls /\ module.state = "gone"))

-----------------------------------------------------------------------------
(* References.                                                             *)

(* usb_serial_put: the last one goes on to destroy_serial.                 *)
Put(a, s, next) ==
    /\ serial' = [serial EXCEPT ![s].kref = @ - 1]
    /\ pc' = [pc EXCEPT ![a].at = IF serial[s].kref = 1 THEN "destroy" ELSE next,
                        ![a].s = s, ![a].then = next]
    /\ Use(s)

(* destroy_serial gives the minors back, if they were reserved.            *)
ReleaseMinors(a) ==
    LET s == pc[a].s
    IN  /\ At(a, "destroy") /\ (serial[s].minors_reserved => table_lock = NULL)
        /\ serial_minors' = [m \in Minor |->
                                IF serial[s].minors_reserved /\ serial_minors[m] # NULL
                                   /\ serial_minors[m] \in {<<s, i>> : i \in 1 .. serial[s].num_ports}
                                THEN NULL ELSE serial_minors[m]]
        /\ serial' = [serial EXCEPT ![s].minors_reserved = FALSE]
        /\ Goto(a, "free")
        /\ UNCHANGED <<table_lock, ttys, port, module, unplugged, badAccess>>

(* Then it calls the driver's release, if attach succeeded, and frees.     *)
DestroySerial(a) ==
    LET s == pc[a].s
    IN  /\ At(a, "free")
        /\ serial' = [serial EXCEPT ![s].mem = "freed"]
        /\ UseDriver(s, serial[s].attached) /\ Goto(a, pc[a].then)
        /\ UNCHANGED <<table_lock, serial_minors, ttys, port, module, unplugged>>

(* module_put at the end of a path; the hub and the worker are done then.  *)
ModulePut(a) ==
    /\ At(a, "module_put")
    /\ module' = [module EXCEPT !.refs = @ - 1]
    /\ pc' = [pc EXCEPT ![a] = [Idle EXCEPT !.s = pc[a].s]]
    /\ UNCHANGED <<table_lock, serial, serial_minors, ttys, port, unplugged, badAccess>>

-----------------------------------------------------------------------------
(* Opening.                                                                *)

(* tty_open: a tty that exists is opened once more, else one is installed, *)
(* under tty_mutex; or the thread reads a line of /proc.                   *)
Installing(t) == pc[t].at \in {"find", "get", "install", "put", "unlock"} /\ pc[t].then = "install"

TtyOpen(t, m) ==
    /\ At(t, "idle") /\ m < TtyMinors /\ \A u \in Thread : ~Installing(u)
    /\ \/ /\ ttys[m] = NULL /\ \A p \in Port : port[p].dying < MaxDying
          /\ pc' = [pc EXCEPT ![t] = [Idle EXCEPT !.at = "find", !.m = m, !.then = "install"]]
          /\ UNCHANGED ttys
       \/ /\ ttys[m] # NULL /\ ttys[m].lock = NULL
          /\ ttys' = [ttys EXCEPT ![m].count = @ + 1, ![m].lock = t]
          /\ pc' = [pc EXCEPT ![t] = [Idle EXCEPT !.at = "port_open", !.m = m,
                                        !.s = ttys[m].port[1], !.i = ttys[m].port[2]]]
    /\ UNCHANGED <<table_lock, serial, serial_minors, port, module, unplugged, badAccess>>

ProcShow(t, m) ==
    /\ At(t, "idle") /\ m < TtyMinors
    /\ pc' = [pc EXCEPT ![t] = [Idle EXCEPT !.at = "find", !.m = m, !.then = "put"]]
    /\ UNCHANGED <<table_lock, serial, serial_minors, ttys, port, module, unplugged, badAccess>>

(* usb_serial_port_get_by_minor: table_lock is kept while disc_mutex is    *)
(* awaited; with disc_mutex goes a reference to the object.                *)
Find(t) ==
    /\ At(t, "find") /\ table_lock = NULL
    /\ IF serial_minors[pc[t].m] = NULL
       THEN pc' = [pc EXCEPT ![t] = Idle] /\ UNCHANGED table_lock
       ELSE /\ table_lock' = t
            /\ pc' = [pc EXCEPT ![t].at = "get", ![t].s = serial_minors[pc[t].m][1],
                                ![t].i = serial_minors[pc[t].m][2]]
    /\ UNCHANGED <<serial, serial_minors, ttys, port, module, unplugged, badAccess>>

(* A mistake: no reference is taken.                                       *)
GetByMinor_NoReference(t) ==
    LET s == pc[t].s
    IN  /\ At(t, "get") /\ Unlocked(s) /\ Use(s) /\ table_lock' = NULL
        /\ IF serial[s].disconnected
           THEN pc' = [pc EXCEPT ![t] = Idle] /\ UNCHANGED serial
           ELSE /\ serial' = [serial EXCEPT ![s].disc_mutex = t]
                /\ Goto(t, pc[t].then)
        /\ UNCHANGED <<serial_minors, ttys, port, module, unplugged>>

GetByMinor(t) ==
    LET s == pc[t].s
    IN  /\ At(t, "get") /\ Unlocked(s) /\ Use(s) /\ table_lock' = NULL
        /\ IF serial[s].disconnected
           THEN pc' = [pc EXCEPT ![t] = Idle] /\ UNCHANGED serial
           ELSE /\ serial' = [serial EXCEPT ![s].kref = @ + 1, ![s].disc_mutex = t]
                /\ Goto(t, pc[t].then)
        /\ UNCHANGED <<serial_minors, ttys, port, module, unplugged>>

(* serial_install, with disc_mutex held: the module, the awake interface,  *)
(* the tty.  Where one is refused, those before it and the reference are   *)
(* given back, and only then disc_mutex.                                   *)
Install(t) ==
    LET s == pc[t].s
    IN  /\ At(t, "install") /\ Use(s)
        /\ \/ /\ module.state = "loaded" /\ module' = [module EXCEPT !.refs = @ + 1]
              /\ serial' = [serial EXCEPT ![s].pm = @ + 1, ![s].poisoned = FALSE,
                                          ![s].disc_mutex = NULL]
              /\ ttys' = [ttys EXCEPT ![pc[t].m] = [port |-> PortOf(t), count |-> 1, lock |-> t]]
              /\ Goto(t, "port_open")
           \/ Goto(t, "put") /\ UNCHANGED <<module, serial, ttys>>
        /\ UNCHANGED <<table_lock, serial_minors, port, unplugged>>

PutLocked(t) ==
    /\ At(t, "put") /\ Put(t, pc[t].s, "unlock")
    /\ UNCHANGED <<table_lock, serial_minors, ttys, port, module, unplugged>>

UnlockDisc(t) ==
    /\ At(t, "unlock") /\ Use(pc[t].s)
    /\ serial' = [serial EXCEPT ![pc[t].s].disc_mutex = NULL]
    /\ pc' = [pc EXCEPT ![t] = Idle]
    /\ UNCHANGED <<table_lock, serial_minors, ttys, port, module, unplugged>>

(* serial_open: tty_port_open, which activates a port that is not yet      *)
(* initialised.  The lock of the tty is held until open has returned.      *)
PortOpen(t) ==
    LET p == PortOf(t)
    IN  /\ At(t, "port_open") /\ Use(pc[t].s)
        /\ port' = [port EXCEPT ![p].count = @ + 1, ![p].tty = TRUE]
        /\ IF port[p].initialized
           THEN /\ Goto(t, "running") /\ ttys' = [ttys EXCEPT ![pc[t].m].lock = NULL]
           ELSE Goto(t, "activate") /\ UNCHANGED ttys
        /\ UNCHANGED <<table_lock, serial, serial_minors, module, unplugged>>

(* A mistake: a port is opened without a look at disconnected.             *)
PortActivate_Unchecked(t) ==
    LET p == PortOf(t)  s == pc[t].s
    IN  /\ At(t, "activate") /\ Unlocked(s) /\ UseDriver(s, TRUE)
        /\ port' = [port EXCEPT ![p].initialized = TRUE, ![p].open = TRUE]
        /\ Goto(t, "running") /\ ttys' = [ttys EXCEPT ![pc[t].m].lock = NULL]
        /\ UNCHANGED <<table_lock, serial, serial_minors, module, unplugged>>

(* serial_port_activate: the driver's open, unless disconnected, under     *)
(* disc_mutex.  An open that fails goes on to close.                       *)
PortActivate(t) ==
    LET p == PortOf(t)  s == pc[t].s
    IN  /\ At(t, "activate") /\ Unlocked(s) /\ UseDriver(s, ~serial[s].disconnected)
        /\ \/ /\ ~serial[s].disconnected
              /\ port' = [port EXCEPT ![p].initialized = TRUE, ![p].open = TRUE]
              /\ Goto(t, "running")
           \/ Goto(t, "close") /\ UNCHANGED port
        /\ ttys' = [ttys EXCEPT ![pc[t].m].lock = NULL]
        /\ UNCHANGED <<table_lock, serial, serial_minors, module, unplugged>>

-----------------------------------------------------------------------------
(* Using.  The operations of a file that is hung up do not get here.       *)

(* serial_write: the driver submits a urb, which a poisoned one refuses.   *)
Write(t) ==
    LET p == PortOf(t)
    IN  /\ At(t, "running") /\ ~pc[t].hung
        /\ UseDriver(pc[t].s, ~unplugged)
        /\ ~unplugged /\ port[p].open /\ ~serial[pc[t].s].poisoned
        /\ port' = [port EXCEPT ![p].urb = TRUE]
        /\ UNCHANGED <<table_lock, serial, serial_minors, ttys, pc, module, unplugged>>

(* The urb is completed; usb_serial_port_softint schedules the work.       *)
PortSoftint(p) ==
    /\ ~badAccess /\ port[p].urb
    /\ port' = [port EXCEPT ![p].urb = FALSE, ![p].work = TRUE]
    /\ UNCHANGED <<table_lock, serial, serial_minors, ttys, pc, module, unplugged, badAccess>>

PortWork(p) ==
    /\ ~badAccess /\ port[p].work /\ Use(p[1])
    /\ port' = [port EXCEPT ![p].work = FALSE]
    /\ UNCHANGED <<table_lock, serial, serial_minors, ttys, pc, module, unplugged>>

(* serial_wait_until_sent waits with disc_mutex held, unless disconnected. *)
WaitUntilSent(t) ==
    LET s == pc[t].s
    IN  /\ At(t, "running") /\ ~pc[t].hung /\ Unlocked(s)
        /\ UseDriver(s, ~serial[s].disconnected) /\ ~serial[s].disconnected
        /\ serial' = [serial EXCEPT ![s].disc_mutex = t] /\ Goto(t, "drain")
        /\ UNCHANGED <<table_lock, serial_minors, ttys, port, module, unplugged>>

Drained(t) ==
    /\ At(t, "drain") /\ UseDriver(pc[t].s, TRUE)
    /\ serial' = [serial EXCEPT ![pc[t].s].disc_mutex = NULL] /\ Goto(t, "running")
    /\ UNCHANGED <<table_lock, serial_minors, ttys, port, module, unplugged>>

-----------------------------------------------------------------------------
(* Closing.                                                                *)

(* serial_port_shutdown, for a port that is initialised: the driver's      *)
(* close kills the urbs.                                                   *)
PortShutdown(q) == IF q.initialized
                   THEN [q EXCEPT !.initialized = FALSE, !.open = FALSE, !.urb = FALSE,
                                  !.work = @ \/ q.urb]
                   ELSE q

(* serial_close; with the last count the tty goes, and is cleaned up later.*)
Close(t) ==
    LET p == PortOf(t)  m == pc[t].m
        last == port[p].count = 1 /\ ~pc[t].hung
        closed == IF pc[t].hung THEN port[p]
                  ELSE IF last THEN [PortShutdown(port[p]) EXCEPT !.count = 0, !.tty = FALSE]
                  ELSE [port[p] EXCEPT !.count = @ - 1]
    IN  /\ At(t, "running") \/ At(t, "close")
        /\ ttys[m].lock = NULL /\ UseDriver(pc[t].s, last /\ port[p].initialized)
        /\ ttys' = [ttys EXCEPT ![m] = IF ttys[m].count = 1 THEN NULL
                                       ELSE [ttys[m] EXCEPT !.count = ttys[m].count - 1]]
        /\ port' = [port EXCEPT ![p] = IF ttys[m].count = 1
                                       THEN [closed EXCEPT !.dying = @ + 1] ELSE closed]
        /\ pc' = [pc EXCEPT ![t] = Idle]
        /\ UNCHANGED <<table_lock, serial, serial_minors, module, unplugged>>

(* serial_hangup: tty_port_hangup shuts the port down, and the files that  *)
(* are open on the tty are hung up.                                        *)
HangUp(p, m) ==
    /\ port' = [port EXCEPT ![p] = [PortShutdown(@) EXCEPT !.count = 0, !.tty = FALSE]]
    /\ UseDriver(p[1], port[p].initialized)

Files(m) == {t \in Thread : pc[t].m = m /\ pc[t].at \in {"running", "drain", "close"}}

Hangup(m) ==
    /\ ~badAccess /\ ttys[m] # NULL /\ ttys[m].lock = NULL
    /\ HangUp(ttys[m].port, m)
    /\ pc' = [a \in Actor |-> IF a \in Files(m) THEN [pc[a] EXCEPT !.hung = TRUE] ELSE pc[a]]
    /\ UNCHANGED <<table_lock, serial, serial_minors, ttys, module, unplugged>>

(* serial_cleanup, in a worker: the interface may sleep again, unless it   *)
(* is gone, then the reference and last the module are given back.         *)
Cleanup(p) ==
    LET s == p[1]
    IN  /\ At("worker", "idle") /\ port[p].dying > 0 /\ Unlocked(s) /\ Use(s)
        /\ port' = [port EXCEPT ![p].dying = @ - 1]
        /\ serial' = [serial EXCEPT ![s].pm = IF serial[s].disconnected THEN @ ELSE @ - 1]
        /\ pc' = [pc EXCEPT !["worker"] = [Idle EXCEPT !.at = "cleanup", !.s = s]]
        /\ UNCHANGED <<table_lock, serial_minors, ttys, module, unplugged>>

(* A mistake: the module is given back before the object.                  *)
CleanupPut_ModuleFirst ==
    /\ At("worker", "cleanup") /\ Put("worker", pc["worker"].s, "idle")
    /\ module' = [module EXCEPT !.refs = @ - 1]
    /\ UNCHANGED <<table_lock, serial_minors, ttys, port, unplugged>>

CleanupPut ==
    /\ At("worker", "cleanup") /\ Put("worker", pc["worker"].s, "module_put")
    /\ UNCHANGED <<table_lock, serial_minors, ttys, port, module, unplugged>>

-----------------------------------------------------------------------------
(* The USB stack.                                                          *)

Bound == {s \in Serial : serial[s].bound}

(* usb_serial_probe: the driver is found and its module taken, both under  *)
(* table_lock; then the object is created.                                 *)
Probe(s) ==
    /\ At("hub", "idle") /\ Bound = {} /\ serial[s].mem = "none"
    /\ \A r \in Serial : r < s => serial[r].mem # "none"
    /\ table_lock = NULL /\ module.state = "loaded"
    /\ module' = [module EXCEPT !.refs = @ + 1]
    /\ \/ /\ serial' = [serial EXCEPT ![s] = [NoSerial EXCEPT !.mem = "alive", !.kref = 1]]
          /\ pc' = [pc EXCEPT !["hub"].at = "attach", !["hub"].s = s]
       \/ Goto("hub", "module_put") /\ UNCHANGED serial
    /\ unplugged' = FALSE
    /\ UNCHANGED <<table_lock, serial_minors, ttys, port, badAccess>>

(* The ports and their urbs are allocated, and the driver attaches: it can *)
(* refuse, or accept without ports.  The flag disconnected keeps the ports *)
(* closed until all of them are registered.                                *)
Attach(n) ==
    LET s == pc["hub"].s
    IN  /\ At("hub", "attach")
        /\ serial' = [serial EXCEPT ![s].attached = TRUE, ![s].num_ports = n,
                                    ![s].disconnected = (n > 0), ![s].bound = (n = 0)]
        /\ Goto("hub", IF n = 0 THEN "module_put" ELSE "minors")
        /\ UNCHANGED <<table_lock, serial_minors, ttys, port, module, unplugged, badAccess>>

(* probe_error.                                                            *)
ProbeError ==
    /\ At("hub", "attach") \/ At("hub", "minors")
    /\ Put("hub", pc["hub"].s, "module_put")
    /\ UNCHANGED <<table_lock, serial_minors, ttys, port, module, unplugged>>

(* allocate_minors: each port takes the lowest number that is free,        *)
(* whatever USB_SERIAL_TTY_MINORS is.                                      *)
AllocateMinors ==
    LET s == pc["hub"].s
        n == serial[s].num_ports
        free == {m \in Minor : serial_minors[m] = NULL}
        Rank(m) == Cardinality({f \in free : f <= m})
    IN  /\ At("hub", "minors") /\ table_lock = NULL
        /\ serial_minors' = [m \in Minor |-> IF m \in free /\ Rank(m) <= n
                                             THEN <<s, Rank(m)>> ELSE serial_minors[m]]
        /\ serial' = [serial EXCEPT ![s].minors_reserved = TRUE]
        /\ Goto("hub", "register")
        /\ UNCHANGED <<table_lock, ttys, port, module, unplugged, badAccess>>

Register ==
    /\ At("hub", "register")
    /\ serial' = [serial EXCEPT ![pc["hub"].s].disconnected = FALSE, ![pc["hub"].s].bound = TRUE]
    /\ Goto("hub", "module_put")
    /\ UNCHANGED <<table_lock, serial_minors, ttys, port, module, unplugged, badAccess>>

(* usb_serial_suspend and usb_serial_resume of an interface nobody keeps   *)
(* awake.                                                                  *)
Suspend(s) ==
    /\ At("hub", "idle") /\ serial[s].bound /\ serial[s].pm = 0 /\ Unlocked(s)
    /\ ~serial[s].poisoned /\ serial[s].num_ports > 0
    /\ serial' = [serial EXCEPT ![s].poisoned = TRUE]
    /\ port' = [p \in Port |-> IF p[1] = s /\ port[p].urb
                               THEN [port[p] EXCEPT !.urb = FALSE, !.work = TRUE] ELSE port[p]]
    /\ UNCHANGED <<table_lock, serial_minors, ttys, pc, module, unplugged, badAccess>>

Resume(s) ==
    /\ At("hub", "idle") /\ serial[s].bound /\ serial[s].poisoned /\ Unlocked(s)
    /\ serial' = [serial EXCEPT ![s].poisoned = FALSE]
    /\ UNCHANGED <<table_lock, serial_minors, ttys, port, pc, module, unplugged, badAccess>>

(* The device leaves the bus; or its driver is unloaded, which nobody may  *)
(* be using: the driver leaves the list under table_lock.                  *)
Unplug ==
    /\ ~badAccess /\ Bound # {} /\ ~unplugged /\ unplugged' = TRUE
    /\ UNCHANGED <<table_lock, serial, serial_minors, ttys, port, pc, module, badAccess>>

Deregister ==
    /\ ~badAccess /\ module = [refs |-> 0, state |-> "loaded"] /\ table_lock = NULL
    /\ module' = [module EXCEPT !.state = "going"]
    /\ UNCHANGED <<table_lock, serial, serial_minors, ttys, port, pc, unplugged, badAccess>>

DeregisterEnd ==
    /\ At("hub", "idle") /\ Bound = {} /\ module.state = "going"
    /\ module' = [module EXCEPT !.state = "gone"]
    /\ UNCHANGED <<table_lock, serial, serial_minors, ttys, port, pc, unplugged, badAccess>>

(* A mistake: disc_mutex is held until the ports are down.                 *)
Disconnect_Locked(s) ==
    /\ At("hub", "idle") /\ serial[s].bound /\ (unplugged \/ module.state = "going")
    /\ Unlocked(s) /\ Use(s)
    /\ serial' = [serial EXCEPT ![s].disconnected = TRUE, ![s].disc_mutex = "hub"]
    /\ pc' = [pc EXCEPT !["hub"] = [Idle EXCEPT !.at = "hangup", !.s = s]]
    /\ UNCHANGED <<table_lock, serial_minors, ttys, port, module, unplugged>>

(* usb_serial_disconnect: the flag, under disc_mutex; then for each port   *)
(* the tty is hung up, the urbs are poisoned, the work is cancelled.       *)
Disconnect(s) ==
    /\ At("hub", "idle") /\ serial[s].bound /\ (unplugged \/ module.state = "going")
    /\ Unlocked(s) /\ Use(s)
    /\ serial' = [serial EXCEPT ![s].disconnected = TRUE]
    /\ pc' = [pc EXCEPT !["hub"] = [Idle EXCEPT !.at = "hangup", !.s = s]]
    /\ UNCHANGED <<table_lock, serial_minors, ttys, port, module, unplugged>>

MinorOf(p) == CHOOSE m \in Minor : serial_minors[m] = p

DisconnectHangup ==
    LET p == PortOf("hub")  s == p[1]  m == MinorOf(p)
        files == IF port[p].tty THEN Files(m) ELSE {}
    IN  /\ At("hub", "hangup") /\ p[2] <= serial[s].num_ports
        /\ IF port[p].tty
           THEN ttys[m].lock = NULL /\ HangUp(p, m)
           ELSE Use(s) /\ UNCHANGED port
        /\ pc' = [a \in Actor |-> IF a \in files THEN [pc[a] EXCEPT !.hung = TRUE]
                                  ELSE IF a = "hub" THEN [pc[a] EXCEPT !.at = "poison"]
                                  ELSE pc[a]]
        /\ UNCHANGED <<table_lock, serial, serial_minors, ttys, module, unplugged>>

DisconnectPoison ==
    LET p == PortOf("hub")
    IN  /\ At("hub", "poison") /\ Goto("hub", "cancel")
        /\ serial' = [serial EXCEPT ![p[1]].poisoned = TRUE]
        /\ port' = [port EXCEPT ![p].urb = FALSE, ![p].work = @ \/ port[p].urb]
        /\ UNCHANGED <<table_lock, serial_minors, ttys, module, unplugged, badAccess>>

DisconnectCancel ==
    /\ At("hub", "cancel")
    /\ port' = [port EXCEPT ![PortOf("hub")].work = FALSE]
    /\ pc' = [pc EXCEPT !["hub"].at = "hangup", !["hub"].i = @ + 1]
    /\ UNCHANGED <<table_lock, serial, serial_minors, ttys, module, unplugged, badAccess>>

DisconnectEnd ==
    LET s == pc["hub"].s
    IN  /\ At("hub", "hangup") /\ pc["hub"].i > serial[s].num_ports
        /\ UseDriver(s, TRUE)
        /\ serial' = [serial EXCEPT ![s].bound = FALSE, ![s].kref = @ - 1]
        /\ pc' = [pc EXCEPT !["hub"] = [Idle EXCEPT !.s = s,
                        !.at = IF serial[s].kref = 1 THEN "destroy" ELSE "idle"]]
        /\ UNCHANGED <<table_lock, serial_minors, ttys, port, module, unplugged>>

-----------------------------------------------------------------------------
ThreadStep(t) == \/ Find(t) \/ GetByMinor(t) \/ Install(t) \/ PutLocked(t) \/ UnlockDisc(t)
                 \/ PortOpen(t) \/ PortActivate(t) \/ Drained(t)
Destroy(a) == ReleaseMinors(a) \/ DestroySerial(a) \/ ModulePut(a)
DisconnectStep == \/ \E s \in Serial : Disconnect(s)
                  \/ DisconnectHangup \/ DisconnectPoison \/ DisconnectCancel \/ DisconnectEnd
ProbeStep == \/ \E n \in 0 .. MaxPorts : Attach(n)
             \/ ProbeError \/ AllocateMinors \/ Register

Next == \/ \E t \in Thread, m \in Minor : TtyOpen(t, m) \/ ProcShow(t, m)
        \/ \E t \in Thread : ThreadStep(t) \/ Write(t) \/ WaitUntilSent(t) \/ Close(t)
        \/ \E p \in Port : PortSoftint(p) \/ PortWork(p) \/ Cleanup(p)
        \/ \E m \in Minor : Hangup(m)
        \/ \E a \in Actor : Destroy(a)
        \/ CleanupPut \/ ProbeStep \/ DisconnectStep
        \/ Unplug \/ Deregister \/ DeregisterEnd
        \/ \E s \in Serial : Probe(s) \/ Suspend(s) \/ Resume(s)

Spec == Init /\ [][Next]_vars

(* A call that has begun goes on: whoever has a lock gives it back, the    *)
(* wait of wait_until_sent has a timeout, and a mutex is granted to each   *)
(* that waits.  Nobody has to open, write or close.                        *)
Fairness == /\ \A t \in Thread : SF_vars(ThreadStep(t))
            /\ \A a \in Actor : WF_vars(Destroy(a))
            /\ SF_vars(DisconnectStep) /\ WF_vars(ProbeStep) /\ WF_vars(CleanupPut)

FairSpec == Spec /\ Fairness

-----------------------------------------------------------------------------
Object == [mem : {"none", "alive", "freed"}, kref : Nat, disc_mutex : Actor \union {NULL},
           disconnected : BOOLEAN, attached : BOOLEAN, minors_reserved : BOOLEAN,
           num_ports : 0 .. MaxPorts, bound : BOOLEAN, pm : Nat, poisoned : BOOLEAN]
TtyPort == [count : Nat, tty : BOOLEAN, initialized : BOOLEAN, open : BOOLEAN,
            urb : BOOLEAN, work : BOOLEAN, dying : Nat]
FilePlaces == {"port_open", "activate", "running", "drain", "close"}
ThreadPlaces == {"idle", "find", "get", "install", "put", "unlock"} \union FilePlaces
HubPlaces == {"idle", "attach", "minors", "register", "module_put", "hangup", "poison",
              "cancel", "destroy", "free"}
WorkerPlaces == {"idle", "cleanup", "destroy", "free", "module_put"}
Where == ThreadPlaces \union HubPlaces \union WorkerPlaces
Place == [at : Where, s : Serial, i : Nat, m : Minor, hung : BOOLEAN, then : Where]

TypeOK ==
    /\ table_lock \in Thread \union {NULL}
    /\ serial \in [Serial -> Object] /\ serial_minors \in [Minor -> Port \union {NULL}]
    /\ ttys \in [Minor -> Tty \union {NULL}] /\ port \in [Port -> TtyPort]
    /\ pc \in [Actor -> Place]
    /\ module \in [refs : Nat, state : {"loaded", "going", "gone"}]
    /\ unplugged \in BOOLEAN /\ badAccess \in BOOLEAN

(* The ttys installed on the ports P: those open, and those that wait for *)
(* serial_cleanup.                                                         *)
PortsOf(s) == {p \in Port : p[1] = s}
TtysOn(P) == {m \in Minor : ttys[m] # NULL /\ ttys[m].port \in P}
DyingOn(P) == UNION {{p} \X (1 .. port[p].dying) : p \in P}
Installed(P) == Cardinality(TtysOn(P)) + Cardinality(DyingOn(P))

One(b) == IF b THEN 1 ELSE 0
LookupsOf(s) == {t \in Thread : pc[t].s = s /\ pc[t].at \in {"install", "put"}}
CleaningUp(s) == pc["worker"].at = "cleanup" /\ pc["worker"].s = s
Probing(s) == pc["hub"].at \in {"attach", "minors", "register"} /\ pc["hub"].s = s

(* "a reference is held": the count of an object is exactly the USB stack, *)
(* the ttys installed on it, the one the worker is cleaning up, and the    *)
(* lookups that have not put it back (kref in get_by_minor,                *)
(* serial_install, serial_cleanup, disconnect).                            *)
RefsExact ==
    \A s \in Serial : serial[s].mem = "alive" =>
        serial[s].kref = Installed(PortsOf(s)) + Cardinality(LookupsOf(s))
                         + One(CleaningUp(s)) + One(serial[s].bound \/ Probing(s))

(* The module is held once for each tty installed, by serial_cleanup and   *)
(* by usb_serial_probe, until the end of each.                             *)
ProbeHoldsModule == \/ pc["hub"].at \in {"attach", "minors", "register", "module_put"}
                    \/ pc["hub"].at \in {"destroy", "free"} /\ pc["hub"].then = "module_put"
ModuleRefsExact == module.refs = Installed(Port) + One(pc["worker"].at # "idle")
                                 + One(ProbeHoldsModule)

(* No step uses an object that is freed, not even to look at its mutex or  *)
(* to give it back, and no code of the driver runs after its module is     *)
(* gone: the put under disc_mutex is never the last, and serial_cleanup    *)
(* gives the module back after the object.                                 *)
NoStaleUse == ~badAccess

(* The number of a tty stays with its port for as long as the tty is       *)
(* installed, the disconnected device's too: destroy_serial gives numbers  *)
(* back, so that a new device cannot get the name of an open one.          *)
MinorsKept == \A m \in Minor : /\ ttys[m] # NULL => serial_minors[m] = ttys[m].port
                               /\ serial_minors[m] # NULL => serial[serial_minors[m][1]].mem = "alive"

(* A port is open in the driver, has a urb on its way or work queued only  *)
(* between the end of usb_serial_probe and that of usb_serial_disconnect.  *)
OpenOnlyWhileBound ==
    \A p \in Port : port[p].open \/ port[p].urb \/ port[p].work => serial[p[1]].bound

(* A port that is open on a device that is there has working urbs: each    *)
(* tty keeps the interface awake from serial_install to serial_cleanup.    *)
AwakeWhileOpen ==
    \A p \in Port : port[p].open /\ ~serial[p[1]].disconnected => ~serial[p[1]].poisoned

(* usb_serial_disconnect comes to its end whatever the programs do: it     *)
(* does not wait for a lock whose holder waits for disc_mutex.             *)
DisconnectReturns ==
    \A s \in Serial : (serial[s].bound /\ unplugged) ~> ~serial[s].bound

(* References, to objects and to the module, with the types they are       *)
(* counted by.                                                             *)
References == TypeOK /\ RefsExact /\ ModuleRefsExact

(* Nothing dangles: neither an object that is used, nor an entry of the    *)
(* table of minors.                                                        *)
NothingStale == NoStaleUse /\ MinorsKept

(* A port that is open in the driver is on a device that is bound and      *)
(* awake.                                                                  *)
OpenSound == OpenOnlyWhileBound /\ AwakeWhileOpen
=============================================================================
