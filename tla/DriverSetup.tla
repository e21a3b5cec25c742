----------------------------- MODULE DriverSetup -----------------------------
(***************************************************************************)
(* How usb-serial.c sets things up and takes them down: the registrations  *)
(* of the core (usb_serial_init) and of a driver module                    *)
(* (usb_serial_register_drivers), and what usb_serial_probe makes of the   *)
(* endpoints of an interface, one allocation after the other, any of which *)
(* can fail.  The drivers' own parts of a probe are those of ftdi_sio.c,   *)
(* pl2303.c, cp210x.c and usb-serial-simple.c.                             *)
(*                                                                         *)
(* UsbSerial has the object's life from here on; its references, locks and *)
(* minors are left out.                                                    *)
(***************************************************************************)
EXTENDS Integers, SequencesExt, FiniteSetsExt

CONSTANTS Device,       \* interfaces that can be probed
          MaxNumPorts,  \* MAX_NUM_PORTS
          NumUrbs,      \* ARRAY_SIZE(port->read_urbs), and of write_urbs
          FullSize      \* 0x40: the size of a packet where the descriptor has 0

Kind == {"bulk_in", "bulk_out", "int_in", "int_out"}
Endpoint == [kind : Kind, maxp : Nat]

ASSUME SetupAssumption == /\ MaxNumPorts \in Nat \ {0} /\ NumUrbs \in Nat \ {0}
                          /\ FullSize \in Nat \ {0, 1, 2}
                          /\ Device \subseteq
                                [id : STRING, eps : Seq(Endpoint), other : Seq(Endpoint), number : Nat,
                                 interfaces : Nat, version : Nat, jtag_board : BOOLEAN]

VARIABLES
    stage,        \* of the modules: "init" .. "out"
    registered,   \* what is registered
    probe,        \* of the interface: where its probe is, the device, its counts
    got           \* what is allocated for it

setup == <<stage, registered, probe, got>>

NoPlan == [k \in Kind \union {"ports", "pointers"} |-> 0]
NoProbe == [at |-> "none", dev |-> {}, num |-> NoPlan, attached |-> FALSE]

SetupInit == /\ stage = "init" /\ registered = {} /\ probe = NoProbe /\ got = {}

-----------------------------------------------------------------------------
(* Registrations.                                                          *)

Core == <<"bus", "tty", "usb", "generic">>
Drivers == <<"udriver", "driver1", "driver2">>

(* Where in seq the first is that is in S.                                 *)
IsFirst(i, seq, S) == /\ i \in DOMAIN seq /\ seq[i] \in S
                      /\ \A k \in DOMAIN seq : k < i => seq[k] \notin S

(* The next registration of seq, in the stage `from': when all are made    *)
(* the stage is `done', when one fails `failed'.                           *)
RegisterNext(seq, from, done, failed) ==
    LET missing == Range(seq) \ registered
    IN  /\ stage = from /\ UNCHANGED <<probe, got>>
        /\ \/ missing = {} /\ stage' = done /\ UNCHANGED registered
           \/ \E i \in DOMAIN seq : /\ IsFirst(i, seq, missing)
                                    /\ registered' = registered \union {seq[i]} /\ UNCHANGED stage
           \/ missing # {} /\ stage' = failed /\ UNCHANGED registered

(* A deregistration, in the order of seq.                                  *)
DeregisterNext(seq, from, done) ==
    LET present == Range(seq) \intersect registered
    IN  /\ stage = from /\ UNCHANGED <<probe, got>>
        /\ \/ present = {} /\ stage' = done /\ UNCHANGED registered
           \/ \E i \in DOMAIN seq : /\ IsFirst(i, seq, present)
                                    /\ registered' = registered \ {seq[i]} /\ UNCHANGED stage

usb_serial_init == RegisterNext(Core, "init", "core", "init_failed")
usb_serial_init_failed == DeregisterNext(Reverse(Core), "init_failed", "out")
usb_serial_exit == DeregisterNext(Reverse(Core), "exit", "out")

(* usb_register, then each driver; driver_attach is the stage "loaded".    *)
usb_serial_register_drivers == RegisterNext(Drivers, "load", "loaded", "load_failed")

register_failed == DeregisterNext(Reverse(Drivers), "load_failed", "core")

(* The drivers in the order of the array, then the usb_driver; an          *)
(* interface that is bound has been disconnected first.                    *)
usb_serial_deregister_drivers ==
    probe.at = "none" /\ DeregisterNext(Tail(Drivers) \o <<Head(Drivers)>>, "unload", "core")

(* The modules are loaded and unloaded.                                    *)
Modprobe(from, to) == /\ stage = from /\ stage' = to
                      /\ UNCHANGED <<registered, probe, got>>

-----------------------------------------------------------------------------
(* The drivers and the devices they know.  The entries of an id table fall *)
(* into classes, by the driver_info they have.                             *)

id_table_combined ==
    [ftdi |-> "none", olimex_ocd |-> "jtag", st_4232 |-> "stmclite", ftdi_2232c |-> "8u2232c",
     mtxorb_0153 |-> "mtxorb_hack", ndi |-> "NDI_device", uirt |-> "USB_UIRT", tira1 |-> "HE_TIRA1"]

(* prolific: the four devices usb_serial_probe has a "horrible hack" for.  *)
pl2303_id_table == {"prolific", "siemens_x65"}
cp210x_id_table == {"cp2102"}

(* Each driver of usb-serial-simple.c, with its number of ports: the nine  *)
(* that have one are one here.                                             *)
simple_drivers == [carelink |-> 1, novatel_gps |-> 3]

id_table == [t \in {"ftdi_sio", "pl2303", "cp210x", "generic"} \union DOMAIN simple_drivers |->
                CASE t = "ftdi_sio" -> DOMAIN id_table_combined [] t = "pl2303" -> pl2303_id_table
                  [] t = "cp210x" -> cp210x_id_table [] OTHER -> {t}]

(* The driver whose table has the device, if any: no two have the same id. *)
search_serial_device(d) == {t \in DOMAIN id_table : d.id \in id_table[t]}
Is(d, t) == t \in search_serial_device(d)
NumPorts(d) == IF d.id \in DOMAIN simple_drivers THEN simple_drivers[d.id] ELSE 1

-----------------------------------------------------------------------------
(* The probes of ftdi_sio.c: on adaptors for JTAG the first interface, or  *)
(* the first two, are left to others; the size of an endpoint is mended.   *)

ftdi_jtag_probe(d) == d.number # 0
ftdi_8u2232c_probe(d) == d.jtag_board => ftdi_jtag_probe(d)
ftdi_stmclite_probe(d) == d.number \notin {0, 1}

ftdi_sio_probe(d) == CASE id_table_combined[d.id] = "jtag" -> ftdi_jtag_probe(d)
                       [] id_table_combined[d.id] = "8u2232c" -> ftdi_8u2232c_probe(d)
                       [] id_table_combined[d.id] = "stmclite" -> ftdi_stmclite_probe(d)
                       [] OTHER -> TRUE

ftdi_mtxorb_hack_setup(d) ==
    [d EXCEPT !.eps = [i \in DOMAIN @ |-> IF @[i].kind = "bulk_in" /\ @[i].maxp = 0
                                          THEN [@[i] EXCEPT !.maxp = FullSize] ELSE @[i]]]
Mended(d) == IF d.id = "mtxorb_0153" THEN ftdi_mtxorb_hack_setup(d) ELSE d

-----------------------------------------------------------------------------
(* usb_serial_probe.                                                       *)

(* The endpoints of a kind, by their place in the interface; a Prolific    *)
(* whose interface is not the first takes the interrupt endpoints of the   *)
(* first one too.                                                          *)
Endpoints(d, kind) ==
    IF d.id = "prolific" /\ kind = "int_in" /\ d.number # 0 THEN d.eps \o d.other ELSE d.eps
Found(d, kind) == {i \in DOMAIN Endpoints(d, kind) : Endpoints(d, kind)[i].kind = kind}

Count(d, kind) == Min({Cardinality(Found(d, kind)), MaxNumPorts})

(* No driver knows the device, or its probe refuses it; a Prolific without *)
(* bulk endpoints waits for a later probe; a generic device has to have a  *)
(* bulk out endpoint.                                                      *)
Rejected(d) ==
    \/ search_serial_device(d) = {}
    \/ Is(d, "ftdi_sio") /\ ~ftdi_sio_probe(d)
    \/ d.id = "prolific" /\ (Count(d, "bulk_in") = 0 \/ Count(d, "bulk_out") = 0)
    \/ Is(d, "generic") /\ Count(d, "bulk_out") = 0

(* A mistake: there are as many port structures as endpoints.              *)
Plan_NoPorts(d) ==
    LET ports == IF Is(d, "generic") THEN Count(d, "bulk_out") ELSE NumPorts(d)
        num == [k \in Kind |-> Count(d, k)]
    IN  [k \in Kind \union {"ports", "pointers"} |->
            CASE k = "ports" -> Min({ports, MaxNumPorts})
              [] k = "pointers" -> Max({num[j] : j \in Kind})
              [] OTHER -> num[k]]

(* The counts, and the number of port structures: "as many as the max      *)
(* endpoints", or as ports.                                                *)
Plan(d) ==
    LET ports == IF Is(d, "generic") THEN Count(d, "bulk_out") ELSE NumPorts(d)
        num == [k \in Kind |-> Count(d, k)]
    IN  [k \in Kind \union {"ports", "pointers"} |->
            CASE k = "ports" -> Min({ports, MaxNumPorts})
              [] k = "pointers" -> Max({num[j] : j \in Kind} \union {Min({ports, MaxNumPorts})})
              [] OTHER -> num[k]]

Res(what, port) == [what |-> what, port |-> port, j |-> 0]

create_serial == {Res("serial", 0)}

(* The device is refused, or there is no memory for the object.            *)
usb_serial_probe(d) ==
    /\ stage = "loaded" /\ probe.at = "none"
    /\ UNCHANGED <<stage, registered>>
    /\ \/ probe' = [NoProbe EXCEPT !.at = "rejected", !.dev = {d}] /\ got' = {}
       \/ /\ ~Rejected(d)
          /\ probe' = [at |-> "alloc", dev |-> {Mended(d)}, num |-> Plan(d), attached |-> FALSE]
          /\ got' = create_serial

(* The allocations: a buffer goes with its urb; read_int_urb only where    *)
(* the driver has a read_int_callback.                                     *)
All(what, ports, js) == [what : {what}, port : 1 .. ports, j : js]
TheDevice == CHOOSE d \in probe.dev : TRUE

(* attach: what the drivers keep of a device; buf is for the time of it.   *)
pl2303_startup == {Res("spriv", 0), Res("buf", 0)}
cp210x_startup == {Res("spriv", 0)}
Attach == IF Is(TheDevice, "pl2303") THEN pl2303_startup
          ELSE IF Is(TheDevice, "cp210x") THEN cp210x_startup ELSE {}

Wanted ==
    LET num == probe.num
    IN  All("port", num["pointers"], {0}) \union All("read_urb", num["bulk_in"], 1 .. NumUrbs)
        \union All("write_fifo", num["bulk_out"], {0})
        \union All("write_urb", num["bulk_out"], 1 .. NumUrbs)
        \union (IF Is(TheDevice, "pl2303") THEN All("int_in_urb", num["int_in"], {0}) ELSE {})
        \union Attach

(* Their order: loop by loop, and in a loop port by port.                  *)
Loop == [port |-> 1, read_urb |-> 2, write_fifo |-> 3, write_urb |-> 3, int_in_urb |-> 4,
           spriv |-> 5, buf |-> 6]
Before(q, r) == \/ Loop[q.what] < Loop[r.what]
                \/ Loop[q.what] = Loop[r.what] /\ (q.port < r.port \/ (q.port = r.port /\ q.j < r.j))

(* port_probe of ftdi_sio.c and pl2303.c, which drive devices of one port, *)
(* allocates what they keep of it.                                         *)
port_probe == IF Is(TheDevice, "ftdi_sio") \/ Is(TheDevice, "pl2303") THEN {Res("priv", 1)} ELSE {}

(* The next allocation, which may fail.  An attach that fails has freed    *)
(* what it had; destroy_serial does the rest.  After attach there may be   *)
(* no minors; then the port is registered, and if its port_probe fails     *)
(* usb_serial_probe goes on.                                               *)
Allocate ==
    LET missing == Wanted \ got
    IN  /\ probe.at = "alloc" /\ UNCHANGED <<stage, registered>>
        /\ \/ /\ missing = {}
              /\ probe' = [probe EXCEPT !.at = "ready", !.attached = TRUE]
              /\ \E private \in {{}, port_probe} : got' = (got \ {Res("buf", 0)}) \union private
           \/ /\ missing = {}
              /\ probe' = [probe EXCEPT !.at = "free", !.attached = TRUE]
              /\ got' = got \ {Res("buf", 0)}
           \/ \E r \in missing : /\ \A q \in missing : q # r => Before(r, q)
                                 /\ got' = got \union {r} /\ UNCHANGED probe
           \/ /\ missing # {}
              /\ probe' = [probe EXCEPT !.at = "free"] /\ got' = got \ Attach

(* usb_serial_disconnect, whose device_del calls port_remove, or the end   *)
(* of a probe that was refused.                                            *)
Disconnect ==
    /\ probe.at \in {"ready", "rejected"} /\ UNCHANGED <<stage, registered>>
    /\ got' = got \ {Res("priv", 1)}
    /\ probe' = IF probe.at = "ready" THEN [probe EXCEPT !.at = "free"] ELSE NoProbe

(* A mistake: only the ports that have a tty are freed.                    *)
destroy_serial_NumPorts ==
    /\ probe.at = "free" /\ UNCHANGED <<stage, registered>>
    /\ got' = {r \in got : r.port > probe.num["ports"]}
    /\ probe' = NoProbe

(* destroy_serial: the driver's release, which frees spriv, of a device    *)
(* that was attached; usb_serial_port_release of each port structure; the  *)
(* object.                                                                 *)
destroy_serial ==
    /\ probe.at = "free" /\ UNCHANGED <<stage, registered>>
    /\ got' = {r \in got : \/ r.what \in {"buf", "priv"} \/ (r.what = "spriv" /\ ~probe.attached)
                           \/ r.port > probe.num["pointers"]
                           \/ r.port > 0 /\ Res("port", r.port) \notin got}
    /\ probe' = NoProbe

SetupNext ==
    \/ usb_serial_init \/ usb_serial_init_failed \/ usb_serial_exit
    \/ usb_serial_register_drivers \/ register_failed \/ usb_serial_deregister_drivers
    \/ Modprobe("core", "load") \/ Modprobe("core", "exit")
    \/ (probe.at = "none" /\ Modprobe("loaded", "unload"))
    \/ \E d \in Device : usb_serial_probe(d)
    \/ Allocate \/ Disconnect \/ destroy_serial

-----------------------------------------------------------------------------
(* Whatever calls another part is registered only while that part is:      *)
(* "udriver must be registered before any of the serial drivers", and the  *)
(* bus and the tty driver before anything that can probe; also while an    *)
(* initialisation that failed is undone.                                   *)
Needs(x) == CASE x = "generic" -> {"usb", "tty", "bus"} [] x = "usb" -> {"tty", "bus"}
              [] x \in {"driver1", "driver2"} -> {"udriver", "bus"}
              [] x = "udriver" -> {"tty", "bus"} [] OTHER -> {}
RegisteredInOrder == \A x \in registered : Needs(x) \subseteq registered

(* A port of a device that is ready has its structure, whatever endpoints  *)
(* the interface has (allocate_minors and device_add use it), and what was *)
(* allocated for endpoints is found from a structure that exists.          *)
PortsThere ==
    probe.at = "ready" =>
        /\ \A i \in 1 .. probe.num["ports"] : Res("port", i) \in got
        /\ \A r \in got : r.port > 0 => Res("port", r.port) \in got

(* A probe that fails, wherever it fails, and a disconnect leave nothing   *)
(* allocated (probe_error, destroy_serial, usb_serial_port_release).       *)
NothingLeft == probe.at = "none" => got = {}

(* Whatever fails is taken back, and in order.                             *)
TakenBack == RegisteredInOrder /\ NothingLeft
=============================================================================
