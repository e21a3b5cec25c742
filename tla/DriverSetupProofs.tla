-------------------------- MODULE DriverSetupProofs --------------------------
(***************************************************************************)
(* Theorems about DriverSetup and PortData, for all devices with any       *)
(* endpoints, every number of ports and of urbs, and a failure of any      *)
(* registration or allocation.  Of the setup, with the data of PortData:   *)
(* whatever fails is taken back in order, and each port of a device that   *)
(* is ready is there.  Of the data, for all packets, writes and sizes:     *)
(* what is received is told apart, and what is written arrives, whole and  *)
(* in order.                                                               *)
(*                                                                         *)
(* The setup comes first, with its theorems; then the operators that take  *)
(* urbs apart, the invariant of what is received, the frames of the SIO,   *)
(* the invariant of what is written, and the theorems about the data.      *)
(***************************************************************************)
EXTENDS PortData, FiniteSetTheorems, SequenceTheorems, WellFoundedInduction, TLAPS

SetupSpec == SetupInit /\ [][SetupNext]_setup

-----------------------------------------------------------------------------
(* The inductive invariant.                                                *)

(* Without a driver, or on the way in or out of one, only the core is      *)
(* registered; while a driver can be, all of it is.                        *)
WithDriver == {"load", "loaded", "load_failed", "unload"}
Stages == /\ stage \in {"init", "init_failed", "core", "exit", "out"} \union WithDriver
          /\ registered \subseteq Range(Core) \union Range(Drivers)
          /\ stage \notin WithDriver => registered \subseteq Range(Core)
          /\ stage \in WithDriver \union {"core"} => Range(Core) \subseteq registered

(* A plan has a structure for every port and every endpoint.               *)
Covers(num) == /\ num["pointers"] \in Nat /\ num["ports"] \in Nat
               /\ \A k \in Kind : num[k] \in Nat /\ num[k] <= num["pointers"]
               /\ num["ports"] <= num["pointers"]

Record == probe = [at |-> probe.at, dev |-> probe.dev, num |-> probe.num, attached |-> probe.attached]

(* What is allocated belongs to structures that are, and buf is there only *)
(* in attach.                                                              *)
Allocated ==
    /\ Record
    /\ probe.at \in {"none", "rejected", "alloc", "ready", "free"}
    /\ probe.at \in {"none", "rejected"} => got = {}
    /\ probe.at \in {"alloc", "ready", "free"} =>
          /\ Covers(probe.num)
          /\ got \subseteq create_serial \union Wanted \union (IF probe.at = "ready" THEN port_probe ELSE {})
          /\ port_probe # {} => probe.num["ports"] # 0
          /\ \A r \in got : r.port > 0 => Res("port", r.port) \in got
    /\ probe.at \in {"ready", "free"} =>
          \A r \in got : r.what # "buf" /\ (r.what = "spriv" => probe.attached)
    /\ probe.at = "ready" => All("port", probe.num["pointers"], {0}) \subseteq got

SetupInv == RegisteredInOrder /\ Stages /\ Allocated

-----------------------------------------------------------------------------
(* Registrations.                                                          *)

LEMMA CoreIs == /\ Range(Core) = {"bus", "tty", "usb", "generic"}
                /\ Range(Reverse(Core)) = {"bus", "tty", "usb", "generic"}
                /\ DOMAIN Core = 1 .. 4 /\ DOMAIN Reverse(Core) = 1 .. 4
                /\ Core[1] = "bus" /\ Core[2] = "tty" /\ Core[3] = "usb" /\ Core[4] = "generic"
                /\ Reverse(Core)[1] = "generic" /\ Reverse(Core)[2] = "usb"
                /\ Reverse(Core)[3] = "tty" /\ Reverse(Core)[4] = "bus"
  BY DEF Core, Range, Reverse

LEMMA DriversAre ==
  LET back == Tail(Drivers) \o <<Head(Drivers)>>
  IN  /\ Range(Drivers) = {"udriver", "driver1", "driver2"}
      /\ Range(Reverse(Drivers)) = Range(Drivers) /\ Range(back) = Range(Drivers)
      /\ DOMAIN Drivers = 1 .. 3 /\ DOMAIN Reverse(Drivers) = 1 .. 3 /\ DOMAIN back = 1 .. 3
      /\ Drivers[1] = "udriver" /\ Drivers[2] = "driver1" /\ Drivers[3] = "driver2"
      /\ Reverse(Drivers)[1] = "driver2" /\ Reverse(Drivers)[2] = "driver1"
      /\ Reverse(Drivers)[3] = "udriver"
      /\ back[1] = "driver1" /\ back[2] = "driver2" /\ back[3] = "udriver"
  BY DEF Drivers, Range, Reverse

LEMMA NeedsAre ==
  /\ Needs("bus") = {} /\ Needs("tty") = {} /\ Needs("usb") = {"tty", "bus"}
  /\ Needs("generic") = {"usb", "tty", "bus"} /\ Needs("udriver") = {"tty", "bus"}
  /\ Needs("driver1") = {"udriver", "bus"} /\ Needs("driver2") = {"udriver", "bus"}
  BY DEF Needs

LEMMA Adds ==
  ASSUME RegisteredInOrder, NEW x, Needs(x) \subseteq registered, registered' = registered \union {x}
  PROVE  RegisteredInOrder'
  BY DEF RegisteredInOrder

LEMMA Removes ==
  ASSUME RegisteredInOrder, NEW x, registered' = registered \ {x},
         \A y \in registered : x \notin Needs(y)
  PROVE  RegisteredInOrder'
  BY DEF RegisteredInOrder

LEMMA KeepsOrder ==
  ASSUME RegisteredInOrder, UNCHANGED registered
  PROVE  RegisteredInOrder'
  BY DEF RegisteredInOrder

LEMMA RegisterCore ==
  ASSUME RegisteredInOrder, Stages, usb_serial_init
  PROVE  RegisteredInOrder' /\ Stages'
<1>1. RegisterNext(Core, "init", "core", "init_failed")
  BY DEF usb_serial_init
<1>2. CASE UNCHANGED registered
  BY <1>1, <1>2, CoreIs, KeepsOrder DEF RegisterNext, Stages, WithDriver
<1>3. ASSUME NEW i \in DOMAIN Core, IsFirst(i, Core, Range(Core) \ registered),
             registered' = registered \union {Core[i]}, UNCHANGED stage
      PROVE  RegisteredInOrder' /\ Stages'
  <2>1. \A k \in DOMAIN Core : k < i => Core[k] \in registered
    BY <1>3, CoreIs DEF IsFirst
  <2>2. Needs(Core[i]) \subseteq registered
    BY <2>1, CoreIs, NeedsAre
  <2>3. RegisteredInOrder'
    BY <1>3, <2>2, Adds
  <2>4. Stages'
    BY <1>1, <1>3, CoreIs DEF RegisterNext, Stages, WithDriver
  <2> QED
    BY <2>3, <2>4
<1> QED
  BY <1>1, <1>2, <1>3 DEF RegisterNext

LEMMA DeregisterCore ==
  ASSUME RegisteredInOrder, Stages, usb_serial_init_failed \/ usb_serial_exit
  PROVE  RegisteredInOrder' /\ Stages'
<1>1. PICK from \in {"init_failed", "exit"} : DeregisterNext(Reverse(Core), from, "out")
  BY DEF usb_serial_init_failed, usb_serial_exit
<1>2. registered \subseteq Range(Core) /\ stage = from
  BY <1>1 DEF Stages, WithDriver, DeregisterNext
<1>3. CASE UNCHANGED registered
  BY <1>1, <1>2, <1>3, CoreIs, KeepsOrder DEF DeregisterNext, Stages, WithDriver
<1>4. ASSUME NEW i \in DOMAIN Reverse(Core), UNCHANGED stage,
             IsFirst(i, Reverse(Core), Range(Reverse(Core)) \intersect registered),
             registered' = registered \ {Reverse(Core)[i]}
      PROVE  RegisteredInOrder' /\ Stages'
  <2>1. \A k \in DOMAIN Reverse(Core) : k < i => Reverse(Core)[k] \notin registered
    BY <1>4, CoreIs DEF IsFirst
  <2>2. \A y \in registered : Reverse(Core)[i] \notin Needs(y)
    BY <1>2, <2>1, CoreIs, NeedsAre
  <2>3. RegisteredInOrder'
    BY <1>4, <2>2, Removes
  <2>4. Stages'
    BY <1>2, <1>4, CoreIs DEF Stages, WithDriver
  <2> QED
    BY <2>3, <2>4
<1> QED
  BY <1>1, <1>3, <1>4 DEF DeregisterNext

LEMMA RegisterDrivers ==
  ASSUME RegisteredInOrder, Stages, usb_serial_register_drivers
  PROVE  RegisteredInOrder' /\ Stages'
<1>1. RegisterNext(Drivers, "load", "loaded", "load_failed")
  BY DEF usb_serial_register_drivers
<1>2. Range(Core) \subseteq registered /\ stage = "load"
  BY <1>1 DEF Stages, WithDriver, RegisterNext
<1>3. CASE UNCHANGED registered
  BY <1>1, <1>2, <1>3, KeepsOrder DEF RegisterNext, Stages, WithDriver
<1>4. ASSUME NEW i \in DOMAIN Drivers, IsFirst(i, Drivers, Range(Drivers) \ registered),
             registered' = registered \union {Drivers[i]}, UNCHANGED stage
      PROVE  RegisteredInOrder' /\ Stages'
  <2>1. \A k \in DOMAIN Drivers : k < i => Drivers[k] \in registered
    BY <1>4, DriversAre DEF IsFirst
  <2>2. Needs(Drivers[i]) \subseteq registered
    BY <1>2, <2>1, CoreIs, DriversAre, NeedsAre
  <2>3. RegisteredInOrder'
    BY <1>4, <2>2, Adds
  <2>4. Stages'
    BY <1>2, <1>4, DriversAre DEF Stages, WithDriver
  <2> QED
    BY <2>3, <2>4
<1> QED
  BY <1>1, <1>3, <1>4 DEF RegisterNext

(* Both orders of taking the drivers back end with the usb_driver.         *)
LEMMA DeregisterDrivers ==
  ASSUME RegisteredInOrder, Stages, register_failed \/ usb_serial_deregister_drivers
  PROVE  RegisteredInOrder' /\ Stages'
<1>1. PICK from \in {"load_failed", "unload"},
           seq \in {Reverse(Drivers), Tail(Drivers) \o <<Head(Drivers)>>} :
              DeregisterNext(seq, from, "core")
  BY DEF register_failed, usb_serial_deregister_drivers
<1>2. /\ Range(Core) \subseteq registered /\ stage = from
      /\ registered \subseteq Range(Core) \union Range(Drivers)
  BY <1>1 DEF Stages, WithDriver, DeregisterNext
<1>3. /\ DOMAIN seq = 1 .. 3 /\ Range(seq) = Range(Drivers) /\ seq[3] = "udriver"
      /\ \/ seq[1] = "driver1" /\ seq[2] = "driver2"
         \/ seq[1] = "driver2" /\ seq[2] = "driver1"
  BY DriversAre
<1>4. CASE UNCHANGED registered
  BY <1>1, <1>2, <1>3, <1>4, KeepsOrder DEF DeregisterNext, Stages, WithDriver
<1>5. ASSUME NEW i \in DOMAIN seq, UNCHANGED stage, IsFirst(i, seq, Range(seq) \intersect registered),
             registered' = registered \ {seq[i]}
      PROVE  RegisteredInOrder' /\ Stages'
  <2>1. \A k \in DOMAIN seq : k < i => seq[k] \notin registered
    BY <1>3, <1>5, DriversAre DEF IsFirst
  <2>2. seq[i] \in {"driver1", "driver2", "udriver"} /\ (seq[i] = "udriver" => i = 3)
    <3>1. i = 1 \/ i = 2 \/ i = 3
      BY <1>3, <1>5
    <3> QED
      BY <1>3, <3>1
  <2>3. seq[i] = "udriver" => "driver1" \notin registered /\ "driver2" \notin registered
    <3>1. i = 3 => seq[1] \notin registered /\ seq[2] \notin registered
      BY <1>3, <2>1
    <3> QED
      BY <1>3, <2>2, <3>1
  <2>4. \A y \in registered : seq[i] \notin Needs(y)
    BY <1>2, <2>2, <2>3, CoreIs, DriversAre, NeedsAre
  <2>5. RegisteredInOrder'
    BY <1>5, <2>4, Removes
  <2>6. Stages'
    BY <1>2, <1>5, <2>2, CoreIs, DriversAre DEF Stages, WithDriver
  <2> QED
    BY <2>5, <2>6
<1> QED
  BY <1>1, <1>4, <1>5 DEF DeregisterNext

LEMMA StagesStep ==
  ASSUME RegisteredInOrder, Stages, SetupNext
  PROVE  RegisteredInOrder' /\ Stages'
<1>1. CASE usb_serial_init
  BY <1>1, RegisterCore
<1>2. CASE usb_serial_init_failed \/ usb_serial_exit
  BY <1>2, DeregisterCore
<1>3. CASE usb_serial_register_drivers
  BY <1>3, RegisterDrivers
<1>4. CASE register_failed \/ usb_serial_deregister_drivers
  BY <1>4, DeregisterDrivers
<1>5. CASE Modprobe("core", "load") \/ Modprobe("core", "exit") \/ Modprobe("loaded", "unload")
  BY <1>5, KeepsOrder DEF Modprobe, Stages, WithDriver
<1>6. CASE UNCHANGED <<stage, registered>>
  BY <1>6, KeepsOrder DEF Stages
<1>7. ASSUME NEW d \in Device, usb_serial_probe(d) PROVE UNCHANGED <<stage, registered>>
  BY <1>7 DEF usb_serial_probe
<1>8. ASSUME Allocate \/ Disconnect \/ destroy_serial PROVE UNCHANGED <<stage, registered>>
  BY <1>8 DEF Allocate, Disconnect, destroy_serial
<1> QED
  BY <1>1, <1>2, <1>3, <1>4, <1>5, <1>6, <1>7, <1>8 DEF SetupNext

-----------------------------------------------------------------------------
(* Allocations.                                                            *)

LEMMA MinOf ==
  ASSUME NEW a \in Nat, NEW b \in Nat
  PROVE  Min({a, b}) \in Nat
<1>1. \E x \in {a, b} : \A y \in {a, b} : x <= y
  OBVIOUS
<1> QED
  BY <1>1 DEF Min

LEMMA MaxOf ==
  ASSUME NEW S \in SUBSET Nat, NEW a \in Nat, NEW b \in Nat, NEW c \in Nat, NEW d \in Nat, NEW e \in Nat,
         S = {a, b, c, d, e}
  PROVE  Max(S) \in Nat /\ Max(S) \in S /\ \A x \in S : x <= Max(S)
<1>1. PICK x \in {a, b} : a <= x /\ b <= x
  OBVIOUS
<1>2. PICK y \in {x, c} : x <= y /\ c <= y
  BY <1>1
<1>3. PICK z \in {y, d} : y <= z /\ d <= z
  BY <1>1, <1>2
<1>4. PICK w \in {z, e} : z <= w /\ e <= w
  BY <1>1, <1>2, <1>3
<1>5. w \in S /\ \A v \in S : v <= w
  BY <1>1, <1>2, <1>3, <1>4
<1> QED
  BY <1>5 DEF Max

LEMMA CountNat ==
  ASSUME NEW d \in Device, NEW kind \in Kind
  PROVE  Count(d, kind) \in Nat
<1>1. Endpoints(d, kind) \in Seq(Endpoint)
  BY SetupAssumption DEF Endpoints
<1>2. DOMAIN Endpoints(d, kind) = 1 .. Len(Endpoints(d, kind)) /\ Len(Endpoints(d, kind)) \in Nat
  BY <1>1
<1>3. IsFiniteSet(DOMAIN Endpoints(d, kind))
  BY <1>2, FS_Interval
<1>4. Found(d, kind) \subseteq DOMAIN Endpoints(d, kind)
  BY DEF Found
<1>5. Cardinality(Found(d, kind)) \in Nat
  BY <1>3, <1>4, FS_Subset, FS_CardinalityType
<1> QED
  BY <1>5, MinOf, SetupAssumption DEF Count

LEMMA NumPortsNat ==
  ASSUME NEW d \in Device
  PROVE  NumPorts(d) \in Nat
  BY DEF NumPorts, simple_drivers

LEMMA PlanCovers ==
  ASSUME NEW d \in Device
  PROVE  Covers(Plan(d))
<1> DEFINE p == IF Is(d, "generic") THEN Count(d, "bulk_out") ELSE NumPorts(d)
           m == Min({p, MaxNumPorts})
           num == [k \in Kind |-> Count(d, k)]
           S == {num[j] : j \in Kind} \union {m}
<1>1. \A k \in Kind : num[k] \in Nat /\ num[k] = Count(d, k)
  BY CountNat
<1>2. p \in Nat
  BY CountNat, NumPortsNat DEF Kind
<1>3. m \in Nat
  BY <1>2, MinOf, SetupAssumption
<1>4. Plan(d) = [k \in Kind \union {"ports", "pointers"} |->
                    CASE k = "ports" -> m [] k = "pointers" -> Max(S) [] OTHER -> num[k]]
  BY DEF Plan
<1> HIDE DEF p, m
<1>5. S = {num["bulk_in"], num["bulk_out"], num["int_in"], num["int_out"], m}
  BY DEF Kind
<1>6. /\ num["bulk_in"] \in Nat /\ num["bulk_out"] \in Nat /\ num["int_in"] \in Nat
      /\ num["int_out"] \in Nat
  BY <1>1 DEF Kind
<1>7. S \in SUBSET Nat /\ m \in S /\ \A k \in Kind : num[k] \in S
  BY <1>1, <1>3
<1> HIDE DEF S, num
<1>8. Max(S) \in Nat /\ \A x \in S : x <= Max(S)
  BY <1>3, <1>5, <1>6, <1>7, MaxOf
<1>9. Plan(d)["ports"] = m /\ Plan(d)["pointers"] = Max(S) /\ \A k \in Kind : Plan(d)[k] = num[k]
  BY <1>4 DEF Kind
<1> QED
  BY <1>1, <1>3, <1>7, <1>8, <1>9 DEF Covers

(* What is to be allocated: every part has its port structure, which comes *)
(* before it.                                                              *)
LEMMA WantedIs ==
  ASSUME Covers(probe.num), NEW r \in Wanted
  PROVE  /\ r.what \in DOMAIN Loop /\ r.port \in Nat /\ r.port <= probe.num["pointers"]
         /\ r.what = "port" => r = Res("port", r.port)
         /\ r.port > 0 => Res("port", r.port) \in All("port", probe.num["pointers"], {0})
         /\ r.what # "port" => ~Before(r, Res("port", r.port))
         /\ r.what \in {"spriv", "buf"} => r \in Attach
         /\ r.what = "buf" => r = Res("buf", 0)
<1> DEFINE num == probe.num
<1>1. /\ num["pointers"] \in Nat
      /\ num["bulk_in"] \in Nat /\ num["bulk_in"] <= num["pointers"]
      /\ num["bulk_out"] \in Nat /\ num["bulk_out"] <= num["pointers"]
      /\ num["int_in"] \in Nat /\ num["int_in"] <= num["pointers"]
  BY DEF Covers, Kind
<1> HIDE DEF num
<1>2. \/ r \in All("port", num["pointers"], {0}) \/ r \in All("read_urb", num["bulk_in"], 1 .. NumUrbs)
      \/ r \in All("write_fifo", num["bulk_out"], {0})
      \/ r \in All("write_urb", num["bulk_out"], 1 .. NumUrbs)
      \/ r \in All("int_in_urb", num["int_in"], {0})
      \/ r \in {Res("spriv", 0), Res("buf", 0)} /\ r \in Attach
  BY DEF Wanted, Attach, pl2303_startup, cp210x_startup, num
<1>3. /\ r.what \in DOMAIN Loop /\ r.port \in Nat /\ r.port <= num["pointers"]
      /\ r.what = "port" => r.port > 0 /\ r.j = 0 /\ r = [what |-> "port", port |-> r.port, j |-> 0]
  BY <1>1, <1>2 DEF All, Res, Loop
<1>4. r.port > 0 => Res("port", r.port) \in All("port", num["pointers"], {0})
  BY <1>1, <1>3 DEF All, Res
<1>5. r.what # "port" => ~Before(r, Res("port", r.port))
  BY <1>3 DEF Before, Loop, Res
<1>6. /\ r.what \in {"spriv", "buf"} => r \in Attach
      /\ r.what = "buf" => r = Res("buf", 0)
  BY <1>2 DEF All, Res
<1> QED
  BY <1>3, <1>4, <1>5, <1>6 DEF Res, num

(* A device of ftdi_sio or pl2303 has a port, mended or not.               *)
LEMMA SameId ==
  ASSUME NEW d \in Device
  PROVE  Mended(d).id = d.id
<1>1. d \in [id : STRING, eps : Seq(Endpoint), other : Seq(Endpoint), number : Nat,
             interfaces : Nat, version : Nat, jtag_board : BOOLEAN]
  BY SetupAssumption
<1> QED
  BY <1>1 DEF Mended, ftdi_mtxorb_hack_setup

LEMMA OnePort ==
  ASSUME NEW d \in Device, Is(d, "ftdi_sio") \/ Is(d, "pl2303")
  PROVE  Plan(d)["ports"] # 0
<1>1. /\ "ftdi_sio" \in DOMAIN id_table /\ id_table["ftdi_sio"] = DOMAIN id_table_combined
      /\ "pl2303" \in DOMAIN id_table /\ id_table["pl2303"] = pl2303_id_table
      /\ id_table["generic"] = {"generic"}
  BY DEF id_table, simple_drivers
<1>2. d.id \in DOMAIN id_table_combined \union pl2303_id_table
  BY <1>1 DEF Is, search_serial_device
<1>3. DOMAIN id_table_combined = {"ftdi", "olimex_ocd", "st_4232", "ftdi_2232c", "mtxorb_0153",
                                  "ndi", "uirt", "tira1"}
  BY DEF id_table_combined
<1>4. ~Is(d, "generic") /\ d.id \notin DOMAIN simple_drivers
  BY <1>1, <1>2, <1>3 DEF Is, search_serial_device, simple_drivers, pl2303_id_table
<1>5. Plan(d)["ports"] = Min({1, MaxNumPorts})
  BY <1>4 DEF Plan, NumPorts
<1>6. Min({1, MaxNumPorts}) \in {1, MaxNumPorts}
  <2>1. \E x \in {1, MaxNumPorts} : \A y \in {1, MaxNumPorts} : x <= y
    BY SetupAssumption
  <2> QED
    BY <2>1 DEF Min
<1> QED
  BY <1>5, <1>6, SetupAssumption

LEMMA PrivateIs == /\ \A r \in port_probe : r = Res("priv", 1) /\ r.port = 1 /\ r.what = "priv"
                   /\ \A i : Res("priv", 1) # Res("port", i)
                   /\ Res("priv", 1) # Res("buf", 0) /\ Res("priv", 1) \notin create_serial
  BY DEF port_probe, create_serial, Res

(* The endpoints of a device do not tell what drives it.                   *)
LEMMA PrivateSame ==
  ASSUME probe'.dev = probe.dev
  PROVE  port_probe' = port_probe
  BY DEF port_probe, Is, search_serial_device, TheDevice

LEMMA AttachIs == \A r \in Attach : r.port = 0 /\ r.what \in {"spriv", "buf"}
  BY DEF Attach, pl2303_startup, cp210x_startup, Res

LEMMA Untouched ==
  ASSUME Allocated, UNCHANGED <<probe, got>>
  PROVE  Allocated'
<1>1. Wanted' = Wanted /\ port_probe' = port_probe
  BY PrivateSame DEF Wanted, Attach, TheDevice
<1> QED
  BY <1>1 DEF Allocated, Record, Covers

LEMMA AllocateKeeps ==
  ASSUME Allocated, Allocate
  PROVE  Allocated'
<1>1. /\ probe.at = "alloc" /\ Record /\ Covers(probe.num) /\ got \subseteq create_serial \union Wanted
      /\ \A r \in got : r.port > 0 => Res("port", r.port) \in got
      /\ port_probe # {} => probe.num["ports"] # 0
  BY DEF Allocated, Allocate
<1>2. All("port", probe.num["pointers"], {0}) \subseteq Wanted
  BY DEF Wanted
<1>3. \A r \in create_serial : r.what = "serial" /\ r.port = 0
  BY DEF create_serial, Res
<1>4. \A r \in got : r.port \in Nat
  BY <1>1, <1>3, WantedIs
<1>5. ASSUME Wanted \subseteq got, probe' = [probe EXCEPT !.at = "ready", !.attached = TRUE],
             NEW private \in {{}, port_probe}, got' = (got \ {Res("buf", 0)}) \union private
      PROVE  Allocated'
  <2>1. /\ probe'.at = "ready" /\ probe'.num = probe.num /\ probe'.dev = probe.dev /\ probe'.attached
        /\ Record'
    BY <1>1, <1>5 DEF Record
  <2>2. Wanted' = Wanted /\ Covers(probe.num)' /\ port_probe' = port_probe
    BY <1>1, <2>1, PrivateSame DEF Wanted, Attach, TheDevice, Covers
  <2>3. \A r \in got' : r.what # "buf"
    BY <1>1, <1>3, <1>5, WantedIs, PrivateIs
  <2>4. \A i : Res("port", i) # Res("buf", 0)
    BY DEF Res
  <2>6. All("port", probe.num["pointers"], {0}) \subseteq got'
    <3>1. Res("buf", 0) \notin All("port", probe.num["pointers"], {0})
      BY DEF Res, All
    <3> QED
      BY <1>2, <1>5, <3>1
  <2>8. port_probe # {} => Res("port", 1) \in got'
    <3>1. port_probe # {} => 1 \in 1 .. probe.num["pointers"]
      BY <1>1 DEF Covers
    <3>2. port_probe # {} => Res("port", 1) \in All("port", probe.num["pointers"], {0})
      BY <3>1 DEF All, Res
    <3> QED
      BY <2>6, <3>2
  <2>5. \A r \in got' : r.port > 0 => Res("port", r.port) \in got'
    <3>1. \A r \in got : r.port > 0 => Res("port", r.port) \in got'
      BY <1>1, <1>5, <2>4
    <3>2. \A r \in port_probe : Res("port", r.port) \in got'
      BY <2>8, PrivateIs
    <3> QED
      BY <1>5, <3>1, <3>2
  <2>7. got' \subseteq create_serial \union Wanted \union port_probe
    BY <1>1, <1>5
  <2>9. \A r \in got' : r.what # "buf" /\ (r.what = "spriv" => probe'.attached)
    BY <2>1, <2>3
  <2>10. (port_probe # {} => probe.num["ports"] # 0)'
    BY <1>1, <2>1, <2>2
  <2> QED
    BY <2>1, <2>2, <2>5, <2>6, <2>7, <2>9, <2>10 DEF Allocated
<1>8. CASE /\ probe' = [probe EXCEPT !.at = "free", !.attached = TRUE]
           /\ got' = got \ {Res("buf", 0)}
  <2>1. /\ probe'.at = "free" /\ probe'.num = probe.num /\ probe'.dev = probe.dev /\ probe'.attached
        /\ Record'
    BY <1>1, <1>8 DEF Record
  <2>2. Wanted' = Wanted /\ Covers(probe.num)' /\ port_probe' = port_probe
    BY <1>1, <2>1, PrivateSame DEF Wanted, Attach, TheDevice, Covers
  <2>3. \A r \in got' : r.what # "buf"
    BY <1>1, <1>3, <1>8, WantedIs
  <2>4. \A r \in got' : r.port > 0 => Res("port", r.port) \in got'
    <3>1. \A i : Res("port", i) # Res("buf", 0)
      BY DEF Res
    <3> QED
      BY <1>1, <1>8, <3>1
  <2> QED
    BY <1>1, <1>8, <2>1, <2>2, <2>3, <2>4 DEF Allocated
<1>6. ASSUME NEW r \in Wanted \ got, \A q \in Wanted \ got : q # r => Before(r, q),
             got' = got \union {r}, UNCHANGED probe
      PROVE  Allocated'
  <2>1. Wanted' = Wanted /\ (Record /\ Covers(probe.num))' /\ port_probe' = port_probe
    BY <1>1, <1>6, PrivateSame DEF Wanted, Attach, TheDevice, Covers, Record
  <2>2. r.port > 0 => Res("port", r.port) \in got'
    <3>1. CASE r.what = "port"
      BY <1>1, <1>6, <3>1, WantedIs
    <3>2. CASE r.what # "port"
      <4>1. r.port > 0 => Res("port", r.port) \in Wanted
        BY <1>1, <1>2, <1>6, WantedIs
      <4>2. ~Before(r, Res("port", r.port)) /\ Res("port", r.port) # r
        BY <1>1, <1>6, <3>2, WantedIs DEF Res
      <4> QED
        BY <1>6, <4>1, <4>2
    <3> QED
      BY <3>1, <3>2
  <2>3. \A q \in got' : q.port > 0 => Res("port", q.port) \in got'
    BY <1>1, <1>6, <2>2
  <2> QED
    BY <1>1, <1>6, <2>1, <2>3 DEF Allocated
<1>7. CASE probe' = [probe EXCEPT !.at = "free"] /\ got' = got \ Attach
  <2>1. /\ probe'.at = "free" /\ probe'.num = probe.num /\ probe'.dev = probe.dev
        /\ Record'
    BY <1>1, <1>7 DEF Record
  <2>2. Wanted' = Wanted /\ Covers(probe.num)' /\ port_probe' = port_probe
    BY <1>1, <2>1, PrivateSame DEF Wanted, Attach, TheDevice, Covers
  <2>3. \A r \in got' : r.what # "buf" /\ r.what # "spriv"
    BY <1>1, <1>3, <1>7, WantedIs
  <2>4. \A r \in got' : r.port > 0 => Res("port", r.port) \in got'
    <3>1. \A i : Res("port", i) \notin Attach
      BY AttachIs DEF Res
    <3> QED
      BY <1>1, <1>7, <3>1
  <2> QED
    BY <1>1, <1>7, <2>1, <2>2, <2>3, <2>4 DEF Allocated
<1> QED
  BY <1>5, <1>6, <1>7, <1>8 DEF Allocate

LEMMA ProbeKeeps ==
  ASSUME Allocated, NEW d \in Device, usb_serial_probe(d)
  PROVE  Allocated'
<1>1. CASE probe' = [NoProbe EXCEPT !.at = "rejected", !.dev = {d}] /\ got' = {}
  BY <1>1 DEF NoProbe, Allocated, Record
<1>2. CASE /\ probe' = [at |-> "alloc", dev |-> {Mended(d)}, num |-> Plan(d), attached |-> FALSE]
           /\ got' = create_serial
  <2>1. probe'.at = "alloc" /\ probe'.num = Plan(d) /\ Record'
    BY <1>2 DEF Record
  <2>2. Covers(probe.num)'
    BY <2>1, PlanCovers DEF Covers
  <2>3. \A r \in got' : ~(r.port > 0)
    BY <1>2 DEF create_serial, Res
  <2>4. port_probe' # {} => probe'.num["ports"] # 0
    <3>1. TheDevice' = Mended(d)
      BY <1>2 DEF TheDevice
    <3>2. Mended(d).id = d.id
      BY SameId
    <3> QED
      BY <2>1, <3>1, <3>2, OnePort DEF port_probe, Is, search_serial_device
  <2> QED
    BY <1>2, <2>1, <2>2, <2>3, <2>4 DEF Allocated
<1> QED
  BY <1>1, <1>2 DEF usb_serial_probe

LEMMA DisconnectKeeps ==
  ASSUME Allocated, Disconnect
  PROVE  Allocated'
<1>1. CASE probe.at = "ready"
  <2>1. /\ probe'.at = "free" /\ probe'.num = probe.num /\ probe'.dev = probe.dev
        /\ (probe'.attached <=> probe.attached) /\ Record' /\ got' = got \ {Res("priv", 1)}
    BY <1>1 DEF Disconnect, Allocated, Record
  <2>2. Wanted' = Wanted /\ (Covers(probe.num)' <=> Covers(probe.num)) /\ port_probe' = port_probe
    BY <2>1, PrivateSame DEF Wanted, Attach, TheDevice, Covers
  <2>3. /\ got \subseteq create_serial \union Wanted \union port_probe
        /\ Covers(probe.num) /\ (port_probe # {} => probe.num["ports"] # 0)
        /\ \A r \in got : r.port > 0 => Res("port", r.port) \in got
        /\ \A r \in got : r.what # "buf" /\ (r.what = "spriv" => probe.attached)
    BY <1>1 DEF Allocated
  <2>4. got' \subseteq create_serial \union Wanted
    BY <2>1, <2>3, PrivateIs
  <2>5. \A r \in got' : r.port > 0 => Res("port", r.port) \in got'
    BY <2>1, <2>3, PrivateIs
  <2>6. \A r \in got' : r.what # "buf" /\ (r.what = "spriv" => probe'.attached)
    BY <2>1, <2>3
  <2> QED
    BY <2>1, <2>2, <2>3, <2>4, <2>5, <2>6 DEF Allocated
<1>2. CASE probe.at = "rejected"
  BY <1>2 DEF Disconnect, Allocated, NoProbe, Record
<1> QED
  BY <1>1, <1>2 DEF Disconnect

(* destroy_serial finds everything there is to free.                       *)
LEMMA DestroyKeeps ==
  ASSUME Allocated, destroy_serial
  PROVE  Allocated'
<1>1. /\ Covers(probe.num) /\ got \subseteq create_serial \union Wanted
      /\ \A r \in got : r.port > 0 => Res("port", r.port) \in got
      /\ \A r \in got : r.what # "buf" /\ (r.what = "spriv" => probe.attached)
  BY DEF Allocated, destroy_serial
<1>2. \A r \in create_serial : r.what = "serial" /\ r.port = 0
  BY DEF create_serial, Res
<1>3. probe.num["pointers"] \in Nat
  BY <1>1 DEF Covers
<1>4. \A r \in got : r.port \in Nat /\ r.port <= probe.num["pointers"]
  BY <1>1, <1>2, <1>3, WantedIs
<1>5. \A r \in got : ~(r.port > probe.num["pointers"])
  BY <1>3, <1>4
<1>7. \A r \in got : r.what # "priv"
  BY <1>1, <1>2, WantedIs DEF Loop
<1>6. got' = {}
  BY <1>1, <1>5, <1>7 DEF destroy_serial
<1> QED
  BY <1>6 DEF Allocated, destroy_serial, NoProbe, Record

LEMMA AllocatedStep ==
  ASSUME Allocated, SetupNext
  PROVE  Allocated'
<1>1. ASSUME NEW d \in Device, usb_serial_probe(d) PROVE Allocated'
  BY <1>1, ProbeKeeps
<1>2. CASE Allocate
  BY <1>2, AllocateKeeps
<1>3. CASE Disconnect
  BY <1>3, DisconnectKeeps
<1>4. CASE destroy_serial
  BY <1>4, DestroyKeeps
<1>5. CASE UNCHANGED <<probe, got>>
  BY <1>5, Untouched
<1> QED
  BY <1>1, <1>2, <1>3, <1>4, <1>5 DEF SetupNext, usb_serial_init, usb_serial_init_failed,
     usb_serial_exit, usb_serial_register_drivers, register_failed, usb_serial_deregister_drivers,
     RegisterNext, DeregisterNext, Modprobe

-----------------------------------------------------------------------------
(* The theorems.                                                           *)

LEMMA SetupInitInv == SetupInit => SetupInv
<1> SUFFICES ASSUME SetupInit PROVE SetupInv
  OBVIOUS
<1>1. RegisteredInOrder /\ Stages
  BY DEF SetupInit, RegisteredInOrder, Stages, WithDriver
<1>2. Allocated
  BY DEF SetupInit, Allocated, NoProbe, Record
<1> QED
  BY <1>1, <1>2 DEF SetupInv

LEMMA SetupStepInv == SetupInv /\ [SetupNext]_setup => SetupInv'
<1>1. ASSUME SetupInv, SetupNext PROVE SetupInv'
  BY <1>1, StagesStep, AllocatedStep DEF SetupInv
<1>2. ASSUME SetupInv, UNCHANGED setup PROVE SetupInv'
  BY <1>2, KeepsOrder, Untouched DEF SetupInv, setup, Stages
<1> QED
  BY <1>1, <1>2

(* The data of a port leave alone how it was set up.                       *)
LEMMA DataKeepSetup == Spec => SetupSpec
<1>1. Init => SetupInit
  BY DEF Init
<1>2. [Next]_vars => [SetupNext]_setup
  BY DEF Next, vars, SetupStep, PortProbed, ftdi_process_read_urb, pl2303_read_int_callback,
     pl2303_process_read_urb, Write, ftdi_prepare_write_buffer, setup
<1> QED
  BY <1>1, <1>2, PTL DEF Spec, SetupSpec

(* The inductive invariant holds in every state, whatever the data do.     *)
THEOREM SetupInductive == Spec => []SetupInv
<1> QED
  BY SetupInitInv, SetupStepInv, DataKeepSetup, PTL DEF SetupSpec

(* Whatever is registered has what it calls registered, also while an      *)
(* initialisation that failed is undone; a probe that fails, wherever it   *)
(* fails, and a disconnect leave nothing allocated (usb_serial_init,       *)
(* usb_serial_register_drivers, probe_error, destroy_serial).              *)
THEOREM TakenBackHolds == Spec => []TakenBack
<1>1. SetupInv => TakenBack
  BY DEF SetupInv, TakenBack, NothingLeft, Allocated
<1> QED
  BY <1>1, SetupInductive, PTL

(* Each port of a device that is ready has its structure, and so has all   *)
(* that was allocated for an endpoint (usb_serial_probe).                  *)
THEOREM PortsThereHolds == Spec => []PortsThere
<1>1. ASSUME SetupInv, probe.at = "ready", NEW i \in 1 .. probe.num["ports"]
      PROVE  Res("port", i) \in got
  <2>1. Covers(probe.num) /\ All("port", probe.num["pointers"], {0}) \subseteq got
    BY <1>1 DEF SetupInv, Allocated
  <2>2. i \in 1 .. probe.num["pointers"]
    BY <1>1, <2>1 DEF Covers
  <2> QED
    BY <2>1, <2>2 DEF All, Res
<1>2. SetupInv => PortsThere
  BY <1>1 DEF SetupInv, Allocated, PortsThere
<1> QED
  BY <1>2, SetupInductive, PTL

-----------------------------------------------------------------------------
(* The operators that take an urb apart: folds, pieces and joined          *)
(* sequences, for an urb of one packet or two.                             *)

(* A fold over no packet, one and two.                                     *)
LEMMA FoldNone ==
  ASSUME NEW b, NEW s, DOMAIN s = {}
  PROVE  FoldLeft(ftdi_process_packet, b, s) = b
<1> DEFINE F(f, u) == IF u = {} THEN b ELSE ftdi_process_packet(f[u \ {Max(u)}], s[Max(u)])
           Eq(f) == f = [u \in SUBSET DOMAIN s |-> F(f, u)]
<1>1. FoldLeft(ftdi_process_packet, b, s) = (CHOOSE f : Eq(f))[DOMAIN s]
  BY DEF FoldLeft, MapThenFoldSet
<1>2. Eq([u \in {{}} |-> b])
  OBVIOUS
<1> HIDE DEF Eq
<1>3. Eq(CHOOSE f : Eq(f))
  BY <1>2
<1> QED
  BY <1>1, <1>3 DEF Eq

LEMMA FoldOne ==
  ASSUME NEW b, NEW s, DOMAIN s = {1}
  PROVE  FoldLeft(ftdi_process_packet, b, s) = ftdi_process_packet(b, s[1])
<1> DEFINE F(f, u) == IF u = {} THEN b ELSE ftdi_process_packet(f[u \ {Max(u)}], s[Max(u)])
           Eq(f) == f = [u \in SUBSET DOMAIN s |-> F(f, u)]
           w == [u \in {{}, {1}} |-> IF u = {} THEN b ELSE ftdi_process_packet(b, s[1])]
<1>1. FoldLeft(ftdi_process_packet, b, s) = (CHOOSE f : Eq(f))[DOMAIN s]
  BY DEF FoldLeft, MapThenFoldSet
<1>2. Max({1}) = 1
  BY DEF Max
<1>3. SUBSET DOMAIN s = {{}, {1}}
  OBVIOUS
<1>4. w[{}] = b /\ w[{1}] = ftdi_process_packet(b, s[1]) /\ {1} \ {1} = {}
  OBVIOUS
<1>5. \A u \in {{}, {1}} : w[u] = F(w, u)
  <2> TAKE u \in {{}, {1}}
  <2> HIDE DEF w
  <2>1. CASE u = {}
    BY <2>1, <1>4
  <2>2. CASE u = {1}
    BY <2>2, <1>2, <1>4
  <2> QED
    BY <2>1, <2>2
<1>6. Eq(w)
  BY <1>3, <1>5
<1> HIDE DEF Eq
<1>7. Eq(CHOOSE f : Eq(f))
  BY <1>6
<1>8. PICK f : Eq(f) /\ f = (CHOOSE g : Eq(g))
  BY <1>7
<1>9. f[{}] = F(f, {}) /\ f[{1}] = F(f, {1})
  <2> HIDE DEF F
  <2> QED
    BY <1>3, <1>8 DEF Eq
<1>10. f[{1}] = ftdi_process_packet(b, s[1])
  BY <1>2, <1>4, <1>9
<1> QED
  BY <1>1, <1>8, <1>10

LEMMA FoldTwo ==
  ASSUME NEW b, NEW s, DOMAIN s = {1, 2}
  PROVE  FoldLeft(ftdi_process_packet, b, s)
           = ftdi_process_packet(ftdi_process_packet(b, s[1]), s[2])
<1> DEFINE F(f, u) == IF u = {} THEN b ELSE ftdi_process_packet(f[u \ {Max(u)}], s[Max(u)])
           Eq(f) == f = [u \in SUBSET DOMAIN s |-> F(f, u)]
           a1 == ftdi_process_packet(b, s[1])
           a2 == ftdi_process_packet(b, s[2])
           a == ftdi_process_packet(a1, s[2])
           w == [u \in {{}, {1}, {2}, {1, 2}} |->
                    IF u = {} THEN b ELSE IF u = {1} THEN a1 ELSE IF u = {2} THEN a2 ELSE a]
<1>1. FoldLeft(ftdi_process_packet, b, s) = (CHOOSE f : Eq(f))[DOMAIN s]
  BY DEF FoldLeft, MapThenFoldSet
<1>2. Max({1}) = 1 /\ Max({2}) = 2 /\ Max({1, 2}) = 2
  BY DEF Max
<1>3. SUBSET DOMAIN s = {{}, {1}, {2}, {1, 2}}
  OBVIOUS
<1>4. {1} \ {1} = {} /\ {2} \ {2} = {} /\ {1, 2} \ {2} = {1}
  OBVIOUS
<1>5. w[{}] = b /\ w[{1}] = a1 /\ w[{2}] = a2 /\ w[{1, 2}] = a
  OBVIOUS
<1>6. \A u \in {{}, {1}, {2}, {1, 2}} : w[u] = F(w, u)
  <2> TAKE u \in {{}, {1}, {2}, {1, 2}}
  <2> HIDE DEF w
  <2>1. CASE u = {}
    BY <2>1, <1>5
  <2>2. CASE u = {1}
    BY <2>2, <1>2, <1>4, <1>5
  <2>3. CASE u = {2}
    BY <2>3, <1>2, <1>4, <1>5
  <2>4. CASE u = {1, 2}
    BY <2>4, <1>2, <1>4, <1>5
  <2> QED
    BY <2>1, <2>2, <2>3, <2>4
<1>7. Eq(w)
  <2>1. w = [u \in {{}, {1}, {2}, {1, 2}} |-> w[u]]
    OBVIOUS
  <2> HIDE DEF w, F
  <2> QED
    BY <1>3, <1>6, <2>1
<1> HIDE DEF Eq
<1>8. Eq(CHOOSE f : Eq(f))
  BY <1>7
<1>9. PICK f : Eq(f) /\ f = (CHOOSE g : Eq(g))
  BY <1>8
<1>10. f[{}] = F(f, {}) /\ f[{1}] = F(f, {1}) /\ f[{1, 2}] = F(f, {1, 2})
  <2> HIDE DEF F
  <2> QED
    BY <1>3, <1>9 DEF Eq
<1>11. f[{1}] = a1
  BY <1>2, <1>4, <1>10
<1>12. f[{1, 2}] = a
  BY <1>2, <1>4, <1>10, <1>11
<1> QED
  BY <1>1, <1>9, <1>12

(* One sequence joined, and two.                                           *)
LEMMA FlatOne ==
  ASSUME NEW S, NEW x \in Seq(S)
  PROVE  FlattenSeq(<<x>>) = x
<1> DEFINE s == <<x>>
           Eq(f) == f = [i \in 1 .. Len(s) |-> IF i = 1 THEN s[i] ELSE f[i - 1] \o s[i]]
<1>1. FlattenSeq(s) = (CHOOSE f : Eq(f))[Len(s)]
  BY DEF FlattenSeq
<1>2. Eq([i \in 1 .. 1 |-> x])
  OBVIOUS
<1> HIDE DEF Eq
<1>3. Eq(CHOOSE f : Eq(f))
  BY <1>2
<1> QED
  BY <1>1, <1>3 DEF Eq

LEMMA FlatTwo ==
  ASSUME NEW S, NEW x \in Seq(S), NEW y \in Seq(S)
  PROVE  FlattenSeq(<<x, y>>) = x \o y
<1> DEFINE s == <<x, y>>
           F(f, i) == IF i = 1 THEN s[i] ELSE f[i - 1] \o s[i]
           Eq(f) == f = [i \in 1 .. Len(s) |-> F(f, i)]
           w == [i \in 1 .. 2 |-> IF i = 1 THEN x ELSE x \o y]
<1>1. FlattenSeq(s) = (CHOOSE f : Eq(f))[Len(s)]
  BY DEF FlattenSeq
<1>2. w[1] = x /\ w[2] = x \o y /\ Len(s) = 2 /\ s[1] = x /\ s[2] = y /\ 2 - 1 = 1
  OBVIOUS
<1>3. w[1] = F(w, 1) /\ w[2] = F(w, 2)
  <2> HIDE DEF w, s
  <2> QED
    BY <1>2
<1>4. Eq(w)
  BY <1>2, <1>3
<1> HIDE DEF Eq, s
<1>5. Eq(CHOOSE f : Eq(f))
  BY <1>4
<1>6. PICK f : Eq(f) /\ f = (CHOOSE g : Eq(g))
  BY <1>5
<1>7. f[1] = F(f, 1) /\ f[2] = F(f, 2)
  <2> HIDE DEF F
  <2> QED
    BY <1>2, <1>6 DEF Eq
<1>8. f[2] = x \o y
  BY <1>2, <1>7
<1> QED
  BY <1>1, <1>2, <1>6, <1>8 DEF s

Bits == SUBSET STRING

(* The smaller of two.                                                     *)
LEMMA MinIs ==
  ASSUME NEW a \in Int, NEW b \in Int
  PROVE  Min({a, b}) = IF a <= b THEN a ELSE b
<1>1. CASE a <= b
  BY <1>1 DEF Min
<1>2. CASE ~(a <= b)
  BY <1>2 DEF Min
<1> QED
  BY <1>1, <1>2

(* How many pieces an urb has.                                             *)
LEMMA Quotient ==
  ASSUME NEW a \in Nat, NEW n \in Nat \ {0}
  PROVE  /\ a < n => a \div n = 0
         /\ n <= a /\ a < n + n => a \div n = 1
         /\ n + n <= a /\ a < n + n + n => a \div n = 2
<1> DEFINE k == a \div n
           r == a % n
<1>1. a = n * k + r /\ r \in 0 .. n - 1 /\ k \in Int
  OBVIOUS
<1> HIDE DEF k, r
<1>2. \A j \in Nat : n * j \in Nat
  OBVIOUS
<1>3. ~(k < 0)
  <2> SUFFICES ASSUME k < 0 PROVE FALSE
    OBVIOUS
  <2>1. 0 - k - 1 \in Nat
    BY <1>1
  <2>2. PICK j \in Nat : k = 0 - 1 - j
    BY <1>1, <2>1
  <2>3. n * k = 0 - n - n * j
    BY <2>2
  <2> QED
    BY <1>1, <1>2, <2>3
<1>4. k >= 3 => a >= n + n + n
  <2> SUFFICES ASSUME k >= 3 PROVE a >= n + n + n
    OBVIOUS
  <2>1. k - 3 \in Nat
    BY <1>1
  <2>2. PICK j \in Nat : k = j + 3
    BY <1>1, <2>1
  <2>3. n * k = n + n + n + n * j
    BY <2>2
  <2> QED
    BY <1>1, <1>2, <2>3
<1>5. \/ k = 0 /\ n * k = 0
      \/ k = 1 /\ n * k = n
      \/ k = 2 /\ n * k = n + n
      \/ k >= 3
  BY <1>1, <1>3
<1>6. /\ a < n => k = 0
      /\ n <= a /\ a < n + n => k = 1
      /\ n + n <= a /\ a < n + n + n => k = 2
  BY <1>1, <1>4, <1>5
<1> QED
  BY <1>6 DEF k

LEMMA Places ==
  ASSUME NEW n \in Nat
  PROVE  (1 - 1) * n + 1 = 1 /\ 1 * n = n /\ (2 - 1) * n + 1 = n + 1 /\ 2 * n = n + n
  OBVIOUS

(* A piece of an urb.                                                      *)
LEMMA PieceAt ==
  ASSUME NEW u, Len(u) \in Nat, NEW n \in Nat \ {0}
  PROVE  /\ (Len(u) + n - 1) \div n = 0 => DOMAIN Pieces(u, n) = {}
         /\ (Len(u) + n - 1) \div n = 1 => DOMAIN Pieces(u, n) = {1}
         /\ (Len(u) + n - 1) \div n = 2 => DOMAIN Pieces(u, n) = {1, 2}
         /\ 1 \in DOMAIN Pieces(u, n) => Pieces(u, n)[1] = SubSeq(u, 1, Min({n, Len(u)}))
         /\ 2 \in DOMAIN Pieces(u, n) => Pieces(u, n)[2] = SubSeq(u, n + 1, Min({n + n, Len(u)}))
<1>1. DOMAIN Pieces(u, n) = 1 .. (Len(u) + n - 1) \div n
  BY DEF Pieces
<1>2. ASSUME 1 \in DOMAIN Pieces(u, n)
      PROVE  Pieces(u, n)[1] = SubSeq(u, (1 - 1) * n + 1, Min({1 * n, Len(u)}))
  BY <1>2 DEF Pieces
<1>3. ASSUME 2 \in DOMAIN Pieces(u, n)
      PROVE  Pieces(u, n)[2] = SubSeq(u, (2 - 1) * n + 1, Min({2 * n, Len(u)}))
  BY <1>3 DEF Pieces
<1>4. 1 .. 0 = {} /\ 1 .. 1 = {1} /\ 1 .. 2 = {1, 2}
  OBVIOUS
<1>5. \A k : /\ k = 0 => 1 .. k = {}
             /\ k = 1 => 1 .. k = {1}
             /\ k = 2 => 1 .. k = {1, 2}
  BY <1>4
<1>6. /\ (Len(u) + n - 1) \div n = 0 => DOMAIN Pieces(u, n) = {}
      /\ (Len(u) + n - 1) \div n = 1 => DOMAIN Pieces(u, n) = {1}
      /\ (Len(u) + n - 1) \div n = 2 => DOMAIN Pieces(u, n) = {1, 2}
  BY ONLY <1>1, <1>5
<1>7. n \in Nat
  OBVIOUS
<1> QED
  BY <1>2, <1>3, <1>6, <1>7, Places

(* The pieces of one packet are that packet, of two those two when the     *)
(* first is full.                                                          *)
LEMMA PiecesOne ==
  ASSUME NEW S, NEW p \in Seq(S), NEW n \in Nat \ {0}, Len(p) <= n
  PROVE  \/ Len(p) = 0 /\ DOMAIN Pieces(p, n) = {}
         \/ DOMAIN Pieces(p, n) = {1} /\ Pieces(p, n)[1] = p
<1> Len(p) \in Nat
  OBVIOUS
<1>1. CASE Len(p) = 0
  <2>1. (Len(p) + n - 1) \div n = 0
    BY <1>1, Quotient
  <2> QED
    BY <1>1, <2>1, PieceAt
<1>2. CASE Len(p) > 0
  <2>1. (Len(p) + n - 1) \div n = 1
    BY <1>2, Quotient
  <2>2. DOMAIN Pieces(p, n) = {1}
    BY <2>1, PieceAt
  <2>3. Pieces(p, n)[1] = SubSeq(p, 1, Min({n, Len(p)}))
    BY <2>2, PieceAt
  <2>4. Min({n, Len(p)}) = Len(p)
    BY MinIs
  <2> QED
    BY <2>2, <2>3, <2>4
<1> QED
  BY <1>1, <1>2

LEMMA PiecesTwo ==
  ASSUME NEW S, NEW p \in Seq(S), NEW q \in Seq(S), NEW n \in Nat \ {0}, Len(p) = n, Len(q) <= n
  PROVE  LET pieces == Pieces(p \o q, n)
         IN  \/ Len(q) = 0 /\ DOMAIN pieces = {1} /\ pieces[1] = p
             \/ DOMAIN pieces = {1, 2} /\ pieces[1] = p /\ pieces[2] = q
<1> DEFINE u == p \o q
<1>1. u \in Seq(S) /\ Len(u) = n + Len(q) /\ Len(u) \in Nat
  OBVIOUS
<1>2. SubSeq(u, 1, n) = p
  BY <1>1
<1>3. SubSeq(u, n + 1, Len(u)) = q
  BY <1>1
<1>4. Min({n, Len(u)}) = n /\ Min({n + n, Len(u)}) = Len(u)
  BY <1>1, MinIs
<1> HIDE DEF u
<1>5. ASSUME Len(q) = 0 PROVE DOMAIN Pieces(u, n) = {1} /\ Pieces(u, n)[1] = p
  <2>1. (Len(u) + n - 1) \div n = 1
    BY <1>1, <1>5, Quotient
  <2>2. DOMAIN Pieces(u, n) = {1}
    BY <1>1, <2>1, PieceAt
  <2> QED
    BY <1>1, <1>2, <1>4, <2>2, PieceAt
<1>6. ASSUME Len(q) > 0
      PROVE  DOMAIN Pieces(u, n) = {1, 2} /\ Pieces(u, n)[1] = p /\ Pieces(u, n)[2] = q
  <2>1. (Len(u) + n - 1) \div n = 2
    <3>1. Len(u) + n - 1 \in Nat /\ n + n <= Len(u) + n - 1 /\ Len(u) + n - 1 < n + n + n
      BY <1>1, <1>6
    <3> QED
      BY <3>1, Quotient
  <2>2. DOMAIN Pieces(u, n) = {1, 2}
    BY <1>1, <2>1, PieceAt
  <2> QED
    BY <1>1, <1>2, <1>3, <1>4, <2>2, PieceAt
<1>7. Len(q) = 0 \/ Len(q) > 0
  OBVIOUS
<1> QED
  BY <1>5, <1>6, <1>7 DEF u

(* What the pieces of an urb are made into is what its packets are.        *)
LEMMA UrbOne ==
  ASSUME NEW p \in Seq(Bits), NEW n \in Nat \ {0}, Len(p) <= n, NEW b
  PROVE  FoldLeft(ftdi_process_packet, b, Pieces(FlattenSeq(<<p>>), n)) = ftdi_process_packet(b, p)
<1>1. FlattenSeq(<<p>>) = p
  BY FlatOne
<1>2. CASE Len(p) = 0 /\ DOMAIN Pieces(p, n) = {}
  <2>1. FoldLeft(ftdi_process_packet, b, Pieces(p, n)) = b
    BY <1>2, FoldNone
  <2>2. ftdi_process_packet(b, p) = b
    BY <1>2 DEF ftdi_process_packet
  <2> QED
    BY <1>1, <2>1, <2>2
<1>3. CASE DOMAIN Pieces(p, n) = {1} /\ Pieces(p, n)[1] = p
  <2>1. FoldLeft(ftdi_process_packet, b, Pieces(p, n)) = ftdi_process_packet(b, Pieces(p, n)[1])
    BY <1>3, FoldOne
  <2> QED
    BY <1>1, <1>3, <2>1
<1>4. \/ Len(p) = 0 /\ DOMAIN Pieces(p, n) = {}
      \/ DOMAIN Pieces(p, n) = {1} /\ Pieces(p, n)[1] = p
  BY PiecesOne
<1> QED
  BY ONLY <1>2, <1>3, <1>4

Processed(b, u, n) == FoldLeft(ftdi_process_packet, b, Pieces(u, n))

LEMMA UrbTwo ==
  \A p, q \in Seq(Bits), n \in Nat \ {0} : Len(p) = n /\ Len(q) <= n =>
    \A b : Processed(b, FlattenSeq(<<p, q>>), n) = ftdi_process_packet(ftdi_process_packet(b, p), q)
<1> SUFFICES ASSUME NEW p \in Seq(Bits), NEW q \in Seq(Bits), NEW n \in Nat \ {0},
                    Len(p) = n, Len(q) <= n, NEW b
             PROVE  FoldLeft(ftdi_process_packet, b, Pieces(FlattenSeq(<<p, q>>), n))
                      = ftdi_process_packet(ftdi_process_packet(b, p), q)
  BY DEF Processed
<1> DEFINE pieces == Pieces(p \o q, n)
<1>1. FlattenSeq(<<p, q>>) = p \o q
  BY FlatTwo
<1>2. CASE Len(q) = 0 /\ DOMAIN pieces = {1} /\ pieces[1] = p
  <2> HIDE DEF pieces
  <2>1. FoldLeft(ftdi_process_packet, b, pieces) = ftdi_process_packet(b, p)
    BY <1>2, FoldOne
  <2>2. \A c : ftdi_process_packet(c, q) = c
    BY <1>2 DEF ftdi_process_packet
  <2> QED
    BY <1>1, <2>1, <2>2 DEF pieces
<1>3. CASE DOMAIN pieces = {1, 2} /\ pieces[1] = p /\ pieces[2] = q
  <2> HIDE DEF pieces
  <2>1. FoldLeft(ftdi_process_packet, b, pieces)
           = ftdi_process_packet(ftdi_process_packet(b, p), q)
    BY <1>3, FoldTwo
  <2> QED
    BY <1>1, <2>1 DEF pieces
<1>4. \/ Len(q) = 0 /\ DOMAIN pieces = {1} /\ pieces[1] = p
      \/ DOMAIN pieces = {1, 2} /\ pieces[1] = p /\ pieces[2] = q
  BY PiecesTwo
<1> QED
  BY ONLY <1>2, <1>3, <1>4

-----------------------------------------------------------------------------
(* The types of the data, and what a packet does to them.                  *)

Flags == {"normal", "break", "parity", "frame", "overrun"}
Char == [byte : Bits, flag : Flags]
Counter == Modem \union {"brk", "parity", "frame", "overrun", "rx", "tx"}
Counts == [Counter -> Nat]
ChipName == {"none", "pl2303", "SIO", "FT8U232AM", "FT232BM", "FT232RL", "FT232H", "FTX",
             "FT2232C", "FT2232H", "FT4232H"}
Private == [chip : ChipName, max_packet_size : Nat, status : Bits, temt : BOOLEAN, int_urb : BOOLEAN]
State == [priv : Private, tty : Seq(Char), icount : Counts, count : Nat]
OnlyOverruns(chars, from) == \A i \in from + 1 .. Len(chars) : chars[i].flag = "overrun"

(* What a packet puts into the flip buffer, in types.                      *)
LEMMA CharactersAre ==
  ASSUME NEW line \in Bits, NEW bytes \in Seq(Bits)
  PROVE  /\ Characters(line, bytes) \in Seq(Char)
         /\ Len(bytes) = 0 => OnlyOverruns(Characters(line, bytes), 0)
<1> DEFINE before == IF "OE" \in line THEN <<[byte |-> {}, flag |-> "overrun"]>> ELSE <<>>
           after == [i \in DOMAIN bytes |-> [byte |-> bytes[i], flag |-> Flag(line)]]
<1>1. Flag(line) \in Flags
  BY DEF Flag, Flags
<1>2. before \in Seq(Char) /\ OnlyOverruns(before, 0)
  <2>1. [byte |-> {}, flag |-> "overrun"] \in Char
    BY DEF Char, Bits, Flags
  <2> QED
    BY <2>1 DEF OnlyOverruns
<1>3. after \in Seq(Char) /\ Len(after) = Len(bytes)
  <2>1. \A i \in 1 .. Len(bytes) : [byte |-> bytes[i], flag |-> Flag(line)] \in Char
    BY <1>1 DEF Char
  <2> QED
    BY <2>1
<1>4. Characters(line, bytes) = before \o after
  BY DEF Characters
<1> HIDE DEF before, after
<1>5. Len(bytes) = 0 => before \o after = before
  BY <1>2, <1>3
<1>6. before \o after \in Seq(Char)
  BY <1>2, <1>3
<1>7. Len(bytes) = 0 => OnlyOverruns(before \o after, 0)
  BY <1>2, <1>5
<1> QED
  BY <1>4, <1>6, <1>7

LEMMA MeantIs ==
  ASSUME NEW p \in Seq(Bits)
  PROVE  /\ Meant(p) \in Seq(Char)
         /\ Len(p) < 3 => OnlyOverruns(Meant(p), 0)
<1>1. CASE Len(p) < 2
  BY <1>1 DEF Meant, OnlyOverruns
<1>2. CASE Len(p) >= 2
  <2>1. /\ p[2] \in Bits /\ SubSeq(p, 3, Len(p)) \in Seq(Bits)
        /\ Len(p) < 3 => Len(SubSeq(p, 3, Len(p))) = 0
    BY <1>2
  <2>2. Meant(p) = Characters(p[2], SubSeq(p, 3, Len(p)))
    BY <1>2 DEF Meant
  <2> QED
    BY <2>1, <2>2, CharactersAre
<1> QED
  BY <1>1, <1>2

LEMMA CounterIs == /\ Modem \subseteq Counter /\ "rx" \in Counter \ Modem /\ "tx" \in Counter \ Modem
  BY DEF Counter, Modem

(* A counter is incremented for a name that is given, once.                *)
LEMMA IncrementedIs ==
  ASSUME NEW count \in Counts, NEW names
  PROVE  /\ Incremented(count, names) \in Counts
         /\ \A m \in Modem : Incremented(count, names)[m] = count[m] + (IF m \in names THEN 1 ELSE 0)
<1>1. DOMAIN count = Counter /\ \A c \in Counter : count[c] \in Nat
  BY DEF Counts
<1>2. Incremented(count, names) = [c \in Counter |-> count[c] + (IF c \in names THEN 1 ELSE 0)]
  BY <1>1 DEF Incremented
<1>3. \A c \in Counter : count[c] + (IF c \in names THEN 1 ELSE 0) \in Nat
  BY <1>1
<1> QED
  BY <1>2, <1>3, CounterIs DEF Counts

(* One packet.                                                             *)
LEMMA PacketStep ==
  ASSUME NEW st \in State, NEW p \in Seq(Bits)
  PROVE  LET new == ftdi_process_packet(st, p)
         IN  /\ new \in State
             /\ new.priv.chip = st.priv.chip /\ new.priv.max_packet_size = st.priv.max_packet_size
             /\ new.tty = st.tty \o Meant(p)
             /\ new.count >= st.count /\ (new.count = st.count => Len(p) < 3)
             /\ Len(p) < 2 => new = st
             /\ Len(p) >= 2 =>
                   /\ new.priv.status = p[1] \intersect Modem
                   /\ \A m \in Modem : new.icount[m] =
                         st.icount[m] + (IF m \in Changed(st.priv.status, p[1]) THEN 1 ELSE 0)
<1>1. CASE Len(p) < 2
  <2>1. ftdi_process_packet(st, p) = st /\ Meant(p) = <<>>
    BY <1>1 DEF ftdi_process_packet, Meant
  <2> QED
    BY <1>1, <2>1 DEF State
<1>2. CASE Len(p) >= 2
  <2> DEFINE bytes == SubSeq(p, 3, Len(p))
             bad == (IF Flag(p[2]) = "normal" THEN {} ELSE {CounterOf(Flag(p[2]))})
                    \union (IF "OE" \in p[2] THEN {"overrun"} ELSE {})
             names == Changed(st.priv.status, p[1]) \union bad
             count == Incremented(st.icount, names)
             priv2 == [st.priv EXCEPT !.status = p[1] \intersect Modem, !.temt = ("TEMT" \in p[2])]
             new == [priv |-> priv2,
                     tty |-> st.tty \o Characters(p[2], bytes),
                     icount |-> [count EXCEPT !.rx = @ + Len(bytes)],
                     count |-> st.count + Len(bytes)]
  <2>1. ftdi_process_packet(st, p) = new
    BY <1>2 DEF ftdi_process_packet
  <2>2. bytes \in Seq(Bits) /\ Len(bytes) \in Nat /\ (Len(bytes) = 0 => Len(p) < 3)
        /\ p[1] \in Bits /\ p[2] \in Bits
    BY <1>2
  <2>3. Characters(p[2], bytes) = Meant(p)
    BY <1>2 DEF Meant
  <2>4. \A m \in Modem : m \notin bad
    BY DEF Flag, CounterOf, Modem
  <2> HIDE DEF bytes, bad
  <2>5. /\ count \in Counts
        /\ \A m \in Modem : count[m] =
              st.icount[m] + (IF m \in Changed(st.priv.status, p[1]) THEN 1 ELSE 0)
    BY <2>4, IncrementedIs DEF State
  <2> HIDE DEF count, names
  <2>6. /\ [count EXCEPT !.rx = @ + Len(bytes)] \in Counts
        /\ \A m \in Modem : [count EXCEPT !.rx = @ + Len(bytes)][m] = count[m]
    <3>1. DOMAIN count = Counter /\ \A c \in Counter : count[c] \in Nat
      BY <2>5 DEF Counts
    <3> QED
      BY <2>2, <2>5, <3>1, CounterIs DEF Counts
  <2>7. /\ priv2 \in Private /\ priv2.status = p[1] \intersect Modem
        /\ priv2.chip = st.priv.chip /\ priv2.max_packet_size = st.priv.max_packet_size
    <3>1. ("TEMT" \in p[2]) \in BOOLEAN /\ p[1] \intersect Modem \in Bits
      BY <2>2 DEF Bits
    <3>2. st.priv \in Private
      BY DEF State
    <3>3. PICK t \in BOOLEAN : t = ("TEMT" \in p[2])
      BY <3>1
    <3>4. priv2 = [st.priv EXCEPT !.status = p[1] \intersect Modem, !.temt = t]
      BY <3>3
    <3> HIDE DEF priv2
    <3> QED
      BY <3>1, <3>2, <3>4 DEF Private
  <2>8. new \in State
    <3>1. new.tty \in Seq(Char) /\ new.icount \in Counts /\ new.count \in Nat
      BY <2>2, <2>3, <2>6, MeantIs DEF State
    <3> HIDE DEF priv2
    <3> QED
      BY <2>7, <3>1 DEF State
  <2> HIDE DEF priv2
  <2>9. /\ new.priv.chip = st.priv.chip /\ new.priv.max_packet_size = st.priv.max_packet_size
        /\ new.priv.status = p[1] \intersect Modem
    BY <2>7
  <2>10. new.count >= st.count /\ (new.count = st.count => Len(p) < 3)
    BY <2>2 DEF State
  <2>11. new.tty = st.tty \o Meant(p) /\ \A m \in Modem : new.icount[m] = count[m]
    BY <2>3, <2>6
  <2> HIDE DEF new
  <2> QED
    BY <1>2, <2>1, <2>5, <2>8, <2>9, <2>10, <2>11
<1> QED
  BY <1>1, <1>2

Line(l, p) == IF Len(p) < 2 THEN l ELSE p[1]
Turn(m, l, p) == IF Len(p) >= 2 /\ m \in Changed(l, p[1]) THEN 1 ELSE 0
Turned(t, l, p) == [m \in Modem |-> t[m] + Turn(m, l, p)]
Turns(m, whole) == Cardinality({i \in 2 .. Len(whole) : m \in Changed(whole[i - 1][1], whole[i][1])})

(* How often a modem line turned, as packets come.                         *)
LEMMA TurnsIs ==
  ASSUME NEW w, NEW m
  PROVE  /\ Len(w) = 1 => Turns(m, w) = 0
         /\ Len(w) = 2 => Turns(m, w) = (IF m \in Changed(w[1][1], w[2][1]) THEN 1 ELSE 0)
         /\ Len(w) = 3 => Turns(m, w) = (IF m \in Changed(w[1][1], w[2][1]) THEN 1 ELSE 0)
                                        + (IF m \in Changed(w[2][1], w[3][1]) THEN 1 ELSE 0)
<1> DEFINE T(n) == {i \in 2 .. n : m \in Changed(w[i - 1][1], w[i][1])}
           B(i) == m \in Changed(w[i - 1][1], w[i][1])
<1>1. 2 - 1 = 1 /\ 3 - 1 = 2
  OBVIOUS
<1>2. 2 .. 1 = {} /\ 2 .. 2 = {2} /\ 2 .. 3 = {2, 3}
  OBVIOUS
<1>3. Cardinality({}) = 0 /\ (\A x : Cardinality({x}) = 1) /\ Cardinality({2, 3}) = 2
  <2>1. Cardinality({2, 3}) = 2
    <3>2. IsFiniteSet({2}) /\ Cardinality({2}) = 1
      BY FS_Singleton
    <3>3. 3 \notin {2} /\ {2} \union {3} = {2, 3}
      OBVIOUS
    <3>1. IsFiniteSet({2}) /\ Cardinality({2}) = 1 /\ 3 \notin {2} /\ {2} \union {3} = {2, 3}
      BY ONLY <3>2, <3>3
    <3> QED
      BY <3>1, FS_AddElement
  <2> QED
    BY <2>1, FS_EmptySet, FS_Singleton
<1>4. T(1) = {}
  BY <1>2
<1>5. T(2) = IF B(2) THEN {2} ELSE {}
  <2> HIDE DEF B
  <2>1. T(2) = {i \in 2 .. 2 : B(i)}
    BY DEF B
  <2> QED
    BY <1>2, <2>1
<1>6. T(3) = IF B(2) THEN (IF B(3) THEN {2, 3} ELSE {2}) ELSE (IF B(3) THEN {3} ELSE {})
  <2> HIDE DEF B
  <2>1. T(3) = {i \in 2 .. 3 : B(i)}
    BY DEF B
  <2> HIDE DEF T
  <2> QED
    BY <1>2, <2>1
<1>7. Turns(m, w) = Cardinality(T(Len(w)))
  BY DEF Turns
<1>8. /\ B(2) <=> m \in Changed(w[1][1], w[2][1])
      /\ B(3) <=> m \in Changed(w[2][1], w[3][1])
  BY <1>1
<1> HIDE DEF T, B
<1>9. Len(w) = 1 => Turns(m, w) = 0
  BY <1>3, <1>4, <1>7
<1>10. Len(w) = 2 => Turns(m, w) = (IF m \in Changed(w[1][1], w[2][1]) THEN 1 ELSE 0)
  BY <1>3, <1>5, <1>7, <1>8
<1>11. Len(w) = 3 => Turns(m, w) = (IF m \in Changed(w[1][1], w[2][1]) THEN 1 ELSE 0)
                                   + (IF m \in Changed(w[2][1], w[3][1]) THEN 1 ELSE 0)
  BY <1>3, <1>6, <1>7, <1>8
<1> QED
  BY <1>9, <1>10, <1>11

(* A packet without its two bytes of status counts for nothing.            *)
LEMMA WholeIs ==
  ASSUME NEW p \in Seq(Bits)
  PROVE  Whole(p) \in Seq(Seq(Bits))
  BY DEF Whole

LEMMA WholeAre ==
  ASSUME NEW p \in Seq(Bits)
  PROVE  /\ Len(p) < 2 => Len(Whole(p)) = 0
         /\ Len(p) >= 2 => Len(Whole(p)) = 1 /\ Whole(p)[1] = p
  BY DEF Whole

(* The state before an urb, and the packets of it.                         *)
LEMMA Prefixed ==
  ASSUME NEW S, NEW a \in Seq(S), NEW b \in Seq(S), Len(a) = 1
  PROVE  LET w == a \o b
         IN  /\ w \in Seq(S) /\ Len(w) = 1 + Len(b) /\ w[1] = a[1]
             /\ Len(b) >= 1 => w[2] = b[1]
             /\ Len(b) >= 2 => w[3] = b[2]
<1> DEFINE w == a \o b
<1>1. /\ w \in Seq(S) /\ Len(w) = Len(a) + Len(b)
      /\ \A i \in 1 .. Len(a) + Len(b) : w[i] = IF i <= Len(a) THEN a[i] ELSE b[i - Len(a)]
  BY ConcatProperties
<1> HIDE DEF w
<1> Len(b) \in Nat
  OBVIOUS
<1>2. w[1] = a[1]
  BY <1>1
<1>3. Len(b) >= 1 => w[2] = b[1]
  BY <1>1
<1>4. Len(b) >= 2 => w[3] = b[2]
  BY <1>1
<1> QED
  BY <1>1, <1>2, <1>3, <1>4 DEF w

(* What an urb adds to the modem lines and to their counters.              *)
LEMMA WholeOne ==
  ASSUME NEW p \in Seq(Bits), NEW l \in Bits
  PROVE  LET w == <<<<l>>>> \o Whole(p)
         IN  Last(w)[1] = Line(l, p) /\ \A m : Turns(m, w) = Turn(m, l, p)
<1> DEFINE a == <<<<l>>>>
           u == Whole(p)
           w == a \o u
<1>1. a \in Seq(Seq(Bits)) /\ Len(a) = 1 /\ a[1] = <<l>> /\ <<l>>[1] = l
  OBVIOUS
<1>2. u \in Seq(Seq(Bits))
  BY WholeIs
<1> HIDE DEF a, u
<1>3. Len(w) = 1 + Len(u) /\ w[1] = <<l>> /\ (Len(u) >= 1 => w[2] = u[1])
  BY <1>1, <1>2, Prefixed
<1> HIDE DEF w
<1>4. CASE Len(p) < 2
  <2>1. Len(w) = 1 /\ Last(w)[1] = l
    BY <1>1, <1>2, <1>3, <1>4, WholeAre DEF Last, u
  <2>2. \A m : Turns(m, w) = 0
    BY <2>1, TurnsIs
  <2>3. Line(l, p) = l /\ \A m : Turn(m, l, p) = 0
    BY <1>4 DEF Line, Turn
  <2> QED
    BY <2>1, <2>2, <2>3 DEF w, a, u
<1>5. CASE Len(p) >= 2
  <2>1. Len(u) = 1 /\ u[1] = p
    BY <1>5, WholeAre DEF u
  <2>2. Len(w) = 2 /\ w[2] = p /\ w[1][1] = l
    BY <1>1, <1>3, <2>1
  <2>3. Last(w)[1] = p[1]
    BY <2>2 DEF Last
  <2>4. \A m : Turns(m, w) = IF m \in Changed(l, p[1]) THEN 1 ELSE 0
    BY <2>2, TurnsIs
  <2>5. Last(w)[1] = Line(l, p) /\ \A m : Turns(m, w) = Turn(m, l, p)
    BY <1>5, <2>3, <2>4 DEF Line, Turn
  <2> QED
    BY <2>5 DEF w, a, u
<1> QED
  BY <1>4, <1>5

LEMMA WholeTwo ==
  ASSUME NEW p \in Seq(Bits), NEW q \in Seq(Bits), NEW l \in Bits
  PROVE  LET w == <<<<l>>>> \o (Whole(p) \o Whole(q))
         IN  /\ Last(w)[1] = Line(Line(l, p), q)
             /\ \A m : Turns(m, w) = Turn(m, l, p) + Turn(m, Line(l, p), q)
<1>0. Whole(p) \in Seq(Seq(Bits)) /\ Whole(q) \in Seq(Seq(Bits))
  BY WholeIs
<1>1. CASE Len(p) < 2
  <2>1. Whole(p) \o Whole(q) = Whole(q) /\ Line(l, p) = l /\ \A m : Turn(m, l, p) = 0
    BY <1>1 DEF Whole, Line, Turn
  <2>2. \A m : Turn(m, l, q) \in Nat
    BY DEF Turn
  <2> QED
    BY <2>1, <2>2, WholeOne
<1>2. CASE Len(p) >= 2 /\ Len(q) < 2
  <2>1. Whole(p) \o Whole(q) = Whole(p) /\ \A c : Line(c, q) = c /\ \A m : Turn(m, c, q) = 0
    BY <1>2 DEF Whole, Line, Turn
  <2>2. \A m : Turn(m, l, p) \in Nat
    BY DEF Turn
  <2> QED
    BY <2>1, <2>2, WholeOne
<1>3. CASE Len(p) >= 2 /\ Len(q) >= 2
  <2> DEFINE a == <<<<l>>>>
             u == Whole(p)
             v == Whole(q)
             w == a \o (u \o v)
  <2>1. a \in Seq(Seq(Bits)) /\ Len(a) = 1 /\ a[1] = <<l>> /\ <<l>>[1] = l
    OBVIOUS
  <2>2. Len(u) = 1 /\ u[1] = p /\ Len(v) = 1 /\ v[1] = q
    BY <1>3, WholeAre
  <2> HIDE DEF a, u, v
  <2>3. u \o v \in Seq(Seq(Bits)) /\ Len(u \o v) = 2 /\ (u \o v)[1] = p /\ (u \o v)[2] = q
    <3>1. u \in Seq(Seq(Bits)) /\ v \in Seq(Seq(Bits))
      BY <1>0 DEF u, v
    <3> QED
      BY <2>2, <3>1, Prefixed
  <2>4. PICK x \in Seq(Seq(Bits)) : x = u \o v
    BY <2>3
  <2>5. w = a \o x /\ Len(x) = 2 /\ x[1] = p /\ x[2] = q
    BY <2>3, <2>4
  <2> HIDE DEF w
  <2>11. /\ Len(a \o x) = 1 + Len(x) /\ (a \o x)[1] = a[1]
         /\ Len(x) >= 1 => (a \o x)[2] = x[1]
         /\ Len(x) >= 2 => (a \o x)[3] = x[2]
    BY <2>1, Prefixed
  <2>6. Len(w) = 3 /\ w[1][1] = l /\ w[2] = p /\ w[3] = q
    <3>1. Len(w) = 1 + Len(x) /\ w[1] = a[1] /\ w[2] = x[1] /\ w[3] = x[2]
      BY <2>5, <2>11
    <3> QED
      BY <2>1, <2>5, <3>1
  <2>7. Last(w)[1] = q[1]
    BY <2>6 DEF Last
  <2>8. \A m : Turns(m, w) = (IF m \in Changed(l, p[1]) THEN 1 ELSE 0)
                             + (IF m \in Changed(p[1], q[1]) THEN 1 ELSE 0)
    BY <2>6, TurnsIs
  <2>9. /\ Last(w)[1] = Line(Line(l, p), q)
        /\ \A m : Turns(m, w) = Turn(m, l, p) + Turn(m, Line(l, p), q)
    BY <1>3, <2>7, <2>8 DEF Line, Turn
  <2> QED
    BY <2>9 DEF w, a, u, v
<1> QED
  BY <1>1, <1>2, <1>3

(* Characters that are not data may follow what was pushed.                *)
LEMMA OverrunsMore ==
  ASSUME NEW a \in Seq(Char), NEW b \in Seq(Char), NEW n \in 0 .. Len(a),
         OnlyOverruns(a, n), OnlyOverruns(b, 0)
  PROVE  OnlyOverruns(a \o b, n)
<1> SUFFICES ASSUME NEW i \in n + 1 .. Len(a \o b) PROVE (a \o b)[i].flag = "overrun"
  BY DEF OnlyOverruns
<1>1. CASE i <= Len(a)
  BY <1>1 DEF OnlyOverruns
<1>2. CASE i > Len(a)
  <2>1. (a \o b)[i] = b[i - Len(a)] /\ i - Len(a) \in 0 + 1 .. Len(b)
    BY <1>2
  <2> QED
    BY <2>1 DEF OnlyOverruns
<1> QED
  BY <1>1, <1>2

(* The driver's state and what the device sent, before and after a packet. *)
Agrees(st, s, l, t) ==
    /\ st \in State /\ l \in Bits /\ t \in [Modem -> Nat] /\ st.tty = s
    /\ st.priv.status \intersect Modem = l \intersect Modem
    /\ \A m \in Modem : st.icount[m] = t[m]

LEMMA AgreesStep ==
  ASSUME NEW st, NEW s, NEW l, NEW t, Agrees(st, s, l, t), NEW p \in Seq(Bits)
  PROVE  Agrees(ftdi_process_packet(st, p), s \o Meant(p), Line(l, p), Turned(t, l, p))
<1>1. st \in State /\ l \in Bits /\ t \in [Modem -> Nat]
  BY DEF Agrees
<1> DEFINE new == ftdi_process_packet(st, p)
<1>2. new \in State /\ new.tty = s \o Meant(p)
  BY <1>1, PacketStep DEF Agrees
<1>3. Turned(t, l, p) \in [Modem -> Nat]
  BY <1>1 DEF Turned, Turn
<1>4. CASE Len(p) < 2
  <2>1. new = st /\ Line(l, p) = l
    BY <1>1, <1>4, PacketStep DEF Line
  <2>2. \A m \in Modem : Turned(t, l, p)[m] = t[m]
    BY <1>1, <1>4 DEF Turned, Turn
  <2> HIDE DEF new
  <2> QED
    BY <1>1, <1>2, <1>3, <2>1, <2>2 DEF Agrees, new
<1>5. CASE Len(p) >= 2
  <2>1. /\ new.priv.status = p[1] \intersect Modem
        /\ \A m \in Modem : new.icount[m] =
              st.icount[m] + (IF m \in Changed(st.priv.status, p[1]) THEN 1 ELSE 0)
    BY <1>1, <1>5, PacketStep
  <2>2. Line(l, p) = p[1] /\ p[1] \in Bits
    BY <1>5 DEF Line
  <2>3. Changed(st.priv.status, p[1]) = Changed(l, p[1])
    BY DEF Agrees, Changed
  <2>4. \A m \in Modem : Turned(t, l, p)[m] = t[m] + (IF m \in Changed(l, p[1]) THEN 1 ELSE 0)
    BY <1>5 DEF Turned, Turn
  <2>5. \A m \in Modem : new.icount[m] = Turned(t, l, p)[m]
    BY <2>1, <2>3, <2>4 DEF Agrees
  <2>6. new.priv.status \intersect Modem = Line(l, p) \intersect Modem
    BY <2>1, <2>2
  <2> HIDE DEF new
  <2> QED
    BY <1>2, <1>3, <2>2, <2>5, <2>6 DEF Agrees, new
<1>6. Len(p) < 2 \/ Len(p) >= 2
  OBVIOUS
<1> QED
  BY <1>4, <1>5, <1>6

LEMMA RegroupedBits ==
  \A x, y, z \in Seq(Char) : (x \o y) \o z = x \o (y \o z)
<1> SUFFICES ASSUME NEW x \in Seq(Char), NEW y \in Seq(Char), NEW z \in Seq(Char)
             PROVE  (x \o y) \o z = x \o (y \o z)
  OBVIOUS
<1> QED
  BY ConcatAssociative, SMTT(30)

(* What the packets of an urb mean, joined.                                *)
LEMMA FlatMeant ==
  ASSUME NEW p \in Seq(Bits), NEW q \in Seq(Bits)
  PROVE  /\ FlattenSeq([i \in DOMAIN <<p>> |-> Meant(<<p>>[i])]) = Meant(p)
         /\ FlattenSeq([i \in DOMAIN <<p, q>> |-> Meant(<<p, q>>[i])]) = Meant(p) \o Meant(q)
<1>1. Meant(p) \in Seq(Char) /\ Meant(q) \in Seq(Char)
  BY MeantIs
<1>2. [i \in DOMAIN <<p>> |-> Meant(<<p>>[i])] = <<Meant(p)>>
  OBVIOUS
<1>3. [i \in DOMAIN <<p, q>> |-> Meant(<<p, q>>[i])] = <<Meant(p), Meant(q)>>
  OBVIOUS
<1> QED
  BY <1>1, <1>2, <1>3, FlatOne, FlatTwo

LEMMA FlatWhole ==
  ASSUME NEW p \in Seq(Bits), NEW q \in Seq(Bits)
  PROVE  /\ FlattenSeq([i \in DOMAIN <<p>> |-> Whole(<<p>>[i])]) = Whole(p)
         /\ FlattenSeq([i \in DOMAIN <<p, q>> |-> Whole(<<p, q>>[i])]) = Whole(p) \o Whole(q)
<1>1. Whole(p) \in Seq(Seq(Bits)) /\ Whole(q) \in Seq(Seq(Bits))
  BY WholeIs
<1>2. [i \in DOMAIN <<p>> |-> Whole(<<p>>[i])] = <<Whole(p)>>
  OBVIOUS
<1>3. [i \in DOMAIN <<p, q>> |-> Whole(<<p, q>>[i])] = <<Whole(p), Whole(q)>>
  OBVIOUS
<1> QED
  BY <1>1, <1>2, <1>3, FlatOne, FlatTwo

-----------------------------------------------------------------------------
(* The invariant of what is received.                                      *)

(* The invariant of the data.                                              *)
Received ==
    /\ priv \in Private /\ lines \in Bits /\ reported \in Bits
    /\ tty \in Seq(Char) /\ icount \in Counts /\ toggles \in [Modem -> Nat]
    /\ tty = sent /\ pushed \in 0 .. Len(tty) /\ OnlyOverruns(tty, pushed)
    /\ priv.status \intersect Modem = lines \intersect Modem
    /\ \A m \in Modem : icount[m] = toggles[m]
    /\ priv.chip = "none" => priv = NoPriv /\ reported = {}
    /\ priv.chip = "pl2303" => priv.status \intersect Transient = reported \intersect Transient

(* A driver has one device, and an FTDI driver knows the size of its       *)
(* packets.                                                                *)
Chips ==
    /\ probe.at \in {"alloc", "ready", "free"} => \E d \in Device : probe.dev = {Mended(d)}
    /\ priv.chip # "none" => probe.at \in {"ready", "free"}
    /\ priv.chip \notin {"none", "pl2303"} =>
          /\ Is(TheDevice, "ftdi_sio") /\ priv.max_packet_size = ftdi_set_max_packet_size(TheDevice)
          /\ priv.chip = ftdi_determine_type(TheDevice)

(* No plan has more structures than MAX_NUM_PORTS.                         *)
Bounded == probe.at \in {"alloc", "ready", "free"} => probe.num["pointers"] <= MaxNumPorts

(* After an urb, the invariant holds.                                      *)
LEMMA AfterUrb ==
  ASSUME Received, priv.chip \notin {"none", "pl2303"}, NEW st, NEW s, NEW l, NEW t, Agrees(st, s, l, t),
         st.priv.chip = priv.chip,
         st.count = 0 => pushed \in 0 .. Len(s) /\ OnlyOverruns(s, pushed),
         priv' = st.priv, tty' = st.tty, icount' = st.icount,
         pushed' = (IF st.count > 0 THEN Len(st.tty) ELSE pushed),
         sent' = s, lines' = l, toggles' = t, reported' = reported
  PROVE  Received'
<1>1. /\ st \in State /\ l \in Bits /\ t \in [Modem -> Nat] /\ st.tty = s
      /\ st.priv.status \intersect Modem = l \intersect Modem
      /\ \A m \in Modem : st.icount[m] = t[m]
  BY DEF Agrees
<1>2. st.priv \in Private /\ st.tty \in Seq(Char) /\ st.icount \in Counts /\ st.count \in Nat
  BY <1>1 DEF State
<1>3. Len(s) \in Nat
  BY <1>1, <1>2
<1>4. pushed' \in 0 .. Len(tty') /\ OnlyOverruns(tty', pushed')
  <2>1. CASE st.count > 0
    BY <1>1, <1>3, <2>1 DEF OnlyOverruns
  <2>2. CASE st.count = 0
    BY <1>1, <1>2, <2>2
  <2> QED
    BY <1>2, <2>1, <2>2
<1>5. priv'.chip \notin {"none", "pl2303"}
  OBVIOUS
<1> QED
  BY <1>1, <1>2, <1>4, <1>5 DEF Received, OnlyOverruns

LEMMA StartAgrees ==
  ASSUME Received
  PROVE  Agrees([priv |-> priv, tty |-> tty, icount |-> icount, count |-> 0], sent, lines, toggles)
  BY DEF Received, Agrees, State

(* ftdi_process_read_urb.                                                  *)
LEMMA UrbReceived ==
  ASSUME Received, NEW packets \in Batches, ftdi_process_read_urb(packets),
         DataAssumption, DeviceSize \in Nat \ {0}, priv.max_packet_size = DeviceSize
  PROVE  Received' /\ priv'.chip = priv.chip /\ priv'.max_packet_size = priv.max_packet_size
<1> DEFINE n == priv.max_packet_size
           b == [priv |-> priv, tty |-> tty, icount |-> icount, count |-> 0]
           st == FoldLeft(ftdi_process_packet, b, Pieces(FlattenSeq(packets), n))
           whole == <<<<lines>>>> \o FlattenSeq([i \in DOMAIN packets |-> Whole(packets[i])])
           t == [m \in Modem |-> toggles[m] + Turns(m, whole)]
<1>1. /\ priv' = st.priv /\ tty' = st.tty /\ icount' = st.icount
      /\ pushed' = (IF st.count > 0 THEN Len(st.tty) ELSE pushed)
      /\ sent' = sent \o FlattenSeq([i \in DOMAIN packets |-> Meant(packets[i])])
      /\ lines' = Last(whole)[1] /\ toggles' = t /\ reported' = reported
      /\ priv.chip \notin {"none", "pl2303"}
  BY DEF ftdi_process_read_urb, Turns, Ftdi, Working
<1>2. Packet \subseteq Seq(Bits)
  BY DEF DataAssumption, Bits
<1>3. Agrees(b, sent, lines, toggles) /\ b.count = 0 /\ b.tty = sent
  BY StartAgrees DEF Received
<1>4. b \in State /\ lines \in Bits /\ tty = sent /\ sent \in Seq(Char)
  BY <1>3 DEF Agrees, Received
<1> b.priv = priv
  OBVIOUS
<1> HIDE DEF b
<1>5. ASSUME NEW p \in Packet, Len(p) <= DeviceSize, packets = <<p>>
      PROVE  Received' /\ priv'.chip = priv.chip /\ priv'.max_packet_size = n
  <2>1. p \in Seq(Bits)
    BY <1>2
  <2>2. st = ftdi_process_packet(b, p)
    BY <1>5, <2>1, UrbOne
  <2>3. sent' = sent \o Meant(p) /\ whole = <<<<lines>>>> \o Whole(p)
    BY <1>1, <1>5, <2>1, FlatMeant, FlatWhole
  <2>4. lines' = Line(lines, p) /\ toggles' = Turned(toggles, lines, p)
    BY <1>1, <1>4, <2>1, <2>3, WholeOne DEF Turned
  <2> HIDE DEF st, whole, t
  <2>5. Agrees(st, sent', lines', toggles')
    BY <1>3, <2>1, <2>2, <2>3, <2>4, AgreesStep
  <2>6. /\ st.priv.chip = priv.chip /\ st.priv.max_packet_size = n
        /\ st.count = 0 => Len(p) < 3
    BY <1>3, <1>4, <2>1, <2>2, PacketStep
  <2>7. st.count = 0 => pushed \in 0 .. Len(sent') /\ OnlyOverruns(sent', pushed)
    <3>1. Meant(p) \in Seq(Char) /\ (Len(p) < 3 => OnlyOverruns(Meant(p), 0))
      BY <2>1, MeantIs
    <3>2. pushed \in 0 .. Len(sent) /\ OnlyOverruns(sent, pushed)
      BY DEF Received
    <3>3. pushed \in 0 .. Len(sent \o Meant(p))
      BY <1>4, <3>1, <3>2
    <3> QED
      BY <1>4, <2>3, <2>6, <3>1, <3>2, <3>3, OverrunsMore
  <2>8. Received'
    BY <1>1, <2>5, <2>6, <2>7, AfterUrb
  <2> QED
    BY <1>1, <2>6, <2>8
<1>6. ASSUME NEW p \in Packet, NEW q \in Packet, Len(p) = DeviceSize, Len(q) <= DeviceSize,
             packets = <<p, q>>
      PROVE  Received' /\ priv'.chip = priv.chip /\ priv'.max_packet_size = n
  <2>1. p \in Seq(Bits) /\ q \in Seq(Bits)
    BY <1>2
  <2> DEFINE st1 == ftdi_process_packet(b, p)
             l1 == Line(lines, p)
             t1 == Turned(toggles, lines, p)
  <2>2. st = ftdi_process_packet(st1, q)
    <3>1. n \in Nat \ {0} /\ Len(p) = n /\ Len(q) <= n
      BY <1>6
    <3>2. FoldLeft(ftdi_process_packet, b, Pieces(FlattenSeq(<<p, q>>), n)) = ftdi_process_packet(st1, q)
      <4>1. p \in Seq(Bits) /\ q \in Seq(Bits) /\ n \in Nat \ {0} /\ Len(p) = n /\ Len(q) <= n
        BY <2>1, <3>1
      <4> HIDE DEF n
      <4> QED
        BY ONLY <4>1, UrbTwo, ZenonT(60) DEF Processed
    <3> QED
      BY <1>6, <3>2
  <2>3. Agrees(st1, sent \o Meant(p), l1, t1)
    BY <1>3, <2>1, AgreesStep
  <2>4. st1 \in State /\ st1.priv.chip = priv.chip /\ st1.priv.max_packet_size = n
        /\ st1.count \in Nat /\ (st1.count = 0 => Len(p) < 3) /\ l1 \in Bits /\ t1 \in [Modem -> Nat]
    <3>1. st1 \in State /\ l1 \in Bits /\ t1 \in [Modem -> Nat]
      BY <2>3 DEF Agrees
    <3>2. /\ st1.priv.chip = priv.chip /\ st1.priv.max_packet_size = n
          /\ (st1.count = 0 => Len(p) < 3)
      BY <1>3, <1>4, <2>1, PacketStep
    <3> HIDE DEF st1
    <3> QED
      BY <3>1, <3>2 DEF State
  <2>5. Meant(p) \in Seq(Char) /\ Meant(q) \in Seq(Char)
    BY <2>1, MeantIs
  <2>6. sent' = (sent \o Meant(p)) \o Meant(q)
    <3>1. sent' = sent \o (Meant(p) \o Meant(q))
      BY <1>1, <1>6, <2>1, FlatMeant
    <3>2. sent \in Seq(Char)
      BY <1>4
    <3>3. (sent \o Meant(p)) \o Meant(q) = sent \o (Meant(p) \o Meant(q))
      BY ONLY <2>5, <3>2, RegroupedBits
    <3> QED
      BY <3>1, <3>3
  <2>7. whole = <<<<lines>>>> \o (Whole(p) \o Whole(q))
    BY <1>6, <2>1, FlatWhole
  <2>8. /\ Last(whole)[1] = Line(l1, q)
        /\ \A m : Turns(m, whole) = Turn(m, lines, p) + Turn(m, l1, q)
    <3>1. lines \in Bits
      BY <1>4
    <3> HIDE DEF whole
    <3> QED
      BY <2>1, <2>7, <3>1, WholeTwo
  <2>9. lines' = Line(l1, q) /\ toggles' = Turned(t1, l1, q)
    <3>1. \A m \in Modem : toggles[m] \in Nat /\ Turn(m, lines, p) \in Nat /\ Turn(m, l1, q) \in Nat
      BY DEF Received, Turn
    <3> HIDE DEF whole, l1
    <3>2. toggles' = [m \in Modem |-> toggles[m] + Turns(m, whole)]
      BY <1>1
    <3>3. \A m \in Modem : t1[m] = toggles[m] + Turn(m, lines, p)
      BY DEF Turned
    <3>4. \A m \in Modem : toggles[m] + Turns(m, whole) = t1[m] + Turn(m, l1, q)
      BY <2>8, <3>1, <3>3
    <3> HIDE DEF t1
    <3> QED
      BY <1>1, <2>8, <3>2, <3>4 DEF Turned
  <2> HIDE DEF st, whole, t, st1, l1, t1
  <2>10. Agrees(st, sent', lines', toggles')
    BY <2>1, <2>2, <2>3, <2>6, <2>9, AgreesStep
  <2>11. /\ st.priv.chip = priv.chip /\ st.priv.max_packet_size = n
         /\ st.count >= st1.count /\ (st.count = st1.count => Len(q) < 3)
    BY <2>1, <2>2, <2>4, PacketStep
  <2>12. st.count \in Nat
    BY <2>10 DEF Agrees, State
  <2>13. st.count = 0 => pushed \in 0 .. Len(sent') /\ OnlyOverruns(sent', pushed)
    <3>1. SUFFICES ASSUME st.count = 0
                   PROVE  pushed \in 0 .. Len(sent') /\ OnlyOverruns(sent', pushed)
      OBVIOUS
    <3>2. Len(p) < 3 /\ Len(q) < 3
      BY <2>4, <2>11, <3>1
    <3>3. OnlyOverruns(Meant(p), 0) /\ OnlyOverruns(Meant(q), 0)
      BY <2>1, <3>2, MeantIs
    <3>4. pushed \in 0 .. Len(sent) /\ OnlyOverruns(sent, pushed)
      BY DEF Received
    <3>5. /\ sent \o Meant(p) \in Seq(Char) /\ pushed \in 0 .. Len(sent \o Meant(p))
          /\ pushed \in 0 .. Len((sent \o Meant(p)) \o Meant(q))
      BY <1>4, <2>5, <3>4
    <3>6. OnlyOverruns(sent \o Meant(p), pushed)
      BY <1>4, <2>5, <3>3, <3>4, OverrunsMore
    <3>7. OnlyOverruns((sent \o Meant(p)) \o Meant(q), pushed)
      BY <2>5, <3>3, <3>5, <3>6, OverrunsMore
    <3> QED
      BY <2>6, <3>5, <3>7
  <2>14. Received'
    BY <1>1, <2>10, <2>11, <2>13, AfterUrb
  <2> QED
    BY <1>1, <2>11, <2>14
<1>7. \/ \E p \in Packet : Len(p) <= DeviceSize /\ packets = <<p>>
      \/ \E p, q \in Packet : Len(p) = DeviceSize /\ Len(q) <= DeviceSize /\ packets = <<p, q>>
  BY DEF Batches, Sendable, Full
<1> QED
  BY <1>5, <1>6, <1>7

(* A set of numbers that is not empty has a least one.                     *)
LEMMA Least ==
  ASSUME NEW S \in SUBSET Nat, NEW n \in S
  PROVE  \E m \in S : \A k \in S : m <= k
<1> DEFINE T == {0 .. k : k \in S}
<1>1. T \subseteq FiniteSubsetsOf(Nat) /\ T # {}
  <2>1. \A k \in S : IsFiniteSet(0 .. k)
    BY FS_Interval
  <2> QED
    BY <2>1 DEF FiniteSubsetsOf
<1>2. PICK x \in T : \A y \in T : ~(<<y, x>> \in StrictSubsetOrdering(Nat))
  BY <1>1, WFMin, FS_StrictSubsetOrderingWellFounded
<1>3. PICK m \in S : x = 0 .. m
  OBVIOUS
<1>4. ASSUME NEW k \in S PROVE m <= k
  <2>1. SUFFICES ASSUME k < m PROVE FALSE
    OBVIOUS
  <2>2. 0 .. k \in T /\ 0 .. k \subseteq 0 .. m /\ m \notin 0 .. k /\ m \in 0 .. m
    BY <2>1
  <2>3. <<0 .. k, 0 .. m>> \in (SUBSET Nat) \X (SUBSET Nat)
    OBVIOUS
  <2>4. <<0 .. k, 0 .. m>> \in StrictSubsetOrdering(Nat)
    BY <2>2, <2>3 DEF StrictSubsetOrdering
  <2> QED
    BY <1>2, <1>3, <2>2, <2>4
<1> QED
  BY <1>4

Size(maxp) == IF maxp = 0 THEN FullSize ELSE maxp

(* What the probe mends.                                                   *)
LEMMA MendedIs ==
  ASSUME NEW d \in Device
  PROVE  LET t == Mended(d)
         IN  /\ t.id = d.id /\ DOMAIN t.eps = DOMAIN d.eps /\ Len(t.eps) = Len(d.eps)
             /\ \A i \in DOMAIN d.eps : /\ t.eps[i].kind = d.eps[i].kind
                                        /\ Size(t.eps[i].maxp) = Size(d.eps[i].maxp)
                                        /\ t.eps[i].maxp \in Nat
<1>1. /\ d \in [id : STRING, eps : Seq(Endpoint), other : Seq(Endpoint), number : Nat,
                interfaces : Nat, version : Nat, jtag_board : BOOLEAN]
      /\ FullSize \in Nat \ {0}
  BY SetupAssumption
<1>2. d.eps \in Seq(Endpoint)
  BY <1>1
<1>3. \A i \in DOMAIN d.eps : d.eps[i] \in [kind : Kind, maxp : Nat]
  <2>1. \A i \in DOMAIN d.eps : d.eps[i] \in Endpoint
    BY <1>2
  <2> QED
    BY <2>1 DEF Endpoint
<1>4. CASE d.id = "mtxorb_0153"
  <2> DEFINE mend(e) == IF e.kind = "bulk_in" /\ e.maxp = 0 THEN [e EXCEPT !.maxp = FullSize] ELSE e
             eps == [i \in DOMAIN d.eps |-> mend(d.eps[i])]
  <2>1. Mended(d) = [d EXCEPT !.eps = eps]
    BY <1>4 DEF Mended, ftdi_mtxorb_hack_setup
  <2>2. \A e \in [kind : Kind, maxp : Nat] :
           mend(e).kind = e.kind /\ Size(mend(e).maxp) = Size(e.maxp) /\ mend(e).maxp \in Nat
    BY <1>1 DEF Size
  <2> HIDE DEF mend
  <2>3. /\ DOMAIN eps = DOMAIN d.eps /\ Len(eps) = Len(d.eps)
        /\ \A i \in DOMAIN d.eps : eps[i] = mend(d.eps[i])
    BY <1>2
  <2> HIDE DEF eps
  <2>4. Mended(d).eps = eps /\ Mended(d).id = d.id
    BY <1>1, <2>1
  <2> QED
    BY <1>3, <2>2, <2>3, <2>4
<1>5. CASE d.id # "mtxorb_0153"
  BY <1>3, <1>5 DEF Mended
<1> QED
  BY <1>4, <1>5

(* The size that ftdi_set_max_packet_size takes is the size the device     *)
(* uses.                                                                   *)
LEMMA SizeRight ==
  ASSUME OneSize, NEW d \in Device, TheDevice = Mended(d), Is(TheDevice, "ftdi_sio")
  PROVE  DeviceSize \in Nat \ {0} /\ ftdi_set_max_packet_size(TheDevice) = DeviceSize
<1> DEFINE t == TheDevice
           F == Found(t, "bulk_in")
<1>1. /\ t.id = d.id /\ DOMAIN t.eps = DOMAIN d.eps /\ Len(t.eps) = Len(d.eps)
      /\ \A i \in DOMAIN d.eps : t.eps[i].kind = d.eps[i].kind /\ t.eps[i].maxp \in Nat
                                 /\ Size(t.eps[i].maxp) = Size(d.eps[i].maxp)
  BY MendedIs
<1>2. Is(d, "ftdi_sio")
  BY <1>1 DEF Is, search_serial_device
<1>3. /\ Found(d, "bulk_in") # {}
      /\ \A i, j \in DOMAIN d.eps : d.eps[i].maxp = d.eps[j].maxp
  BY <1>2 DEF OneSize
<1>4. F = {i \in DOMAIN d.eps : d.eps[i].kind = "bulk_in"} /\ F = Found(d, "bulk_in")
  BY <1>1 DEF Found, Endpoints
<1>5. d.eps \in Seq(Endpoint) /\ FullSize \in Nat \ {0}
  BY SetupAssumption
<1>6. DOMAIN d.eps = 1 .. Len(d.eps) /\ Len(d.eps) \in Nat
  BY <1>5
<1> HIDE DEF t, F
<1>7. F \in SUBSET Nat /\ F # {}
  BY <1>3, <1>4, <1>6
<1>8. Min(F) \in F
  <2>1. \E m \in F : \A k \in F : m <= k
    BY <1>7, Least
  <2> QED
    BY <2>1 DEF Min
<1>9. Min(F) \in DOMAIN d.eps /\ Len(t.eps) \in DOMAIN d.eps
  BY <1>1, <1>4, <1>6, <1>8
<1>10. Size(t.eps[Len(t.eps)].maxp) = Size(t.eps[Min(F)].maxp) /\ t.eps[Min(F)].maxp \in Nat
  BY <1>1, <1>3, <1>9
<1>11. Size(t.eps[Min(F)].maxp) \in Nat \ {0}
  BY <1>5, <1>10 DEF Size
<1>12. DeviceSize = Size(t.eps[Min(F)].maxp)
  BY DEF DeviceSize, Size, t, F
<1>13. ftdi_set_max_packet_size(t) = Size(t.eps[Len(t.eps)].maxp)
  BY DEF ftdi_set_max_packet_size, Size
<1> QED
  BY <1>10, <1>11, <1>12, <1>13 DEF t

-----------------------------------------------------------------------------
(* The steps of what is received.                                          *)

(* The values that a new port starts with.                                 *)
LEMMA Fresh ==
  /\ NoPriv \in Private /\ NoPriv.status = {} /\ NoPriv.chip = "none"
  /\ NoCount \in Counts /\ \A m \in Modem : NoCount[m] = 0
  /\ {} \in Bits /\ <<>> \in Seq(Char) /\ Len(<<>>) = 0
  /\ [m \in Modem |-> 0] \in [Modem -> Nat] /\ OnlyOverruns(<<>>, 0)
<1>1. NoPriv \in Private /\ NoPriv.status = {} /\ NoPriv.chip = "none"
  BY DEF NoPriv, Private, Bits, ChipName
<1>2. NoCount \in Counts /\ \A m \in Modem : NoCount[m] = 0
  BY DEF NoCount, Counts, Counter
<1>3. OnlyOverruns(<<>>, 0)
  BY DEF OnlyOverruns
<1> QED
  BY <1>1, <1>2, <1>3 DEF Bits

(* A port that is freed, and the next one.                                 *)
LEMMA FreshReceived ==
  ASSUME DataReset
  PROVE  Received' /\ priv'.chip = "none"
<1>1. /\ priv' = NoPriv /\ tty' = <<>> /\ pushed' = 0 /\ icount' = NoCount
      /\ sent' = <<>> /\ lines' = {} /\ toggles' = [m \in Modem |-> 0] /\ reported' = {}
  BY DEF DataReset
<1> QED
  BY <1>1, Fresh DEF Received

LEMMA TypeSame ==
  ASSUME TheDevice' = TheDevice
  PROVE  ftdi_determine_type(TheDevice)' = ftdi_determine_type(TheDevice)
<1> DEFINE v == TheDevice.version
           double == CASE v = 2048 -> "FT4232H" [] v = 1792 -> "FT2232H" [] OTHER -> "FT2232C"
           single == CASE v < 512 -> "SIO" [] v \in 512 .. 1023 -> "FT8U232AM"
                       [] v \in 1024 .. 1535 -> "FT232BM" [] v \in 1536 .. 2303 -> "FT232RL"
                       [] v \in 2304 .. 4095 -> "FT232H" [] OTHER -> "FTX"
<1>1. ftdi_determine_type(TheDevice) = IF TheDevice.interfaces > 1 THEN double ELSE single
  BY DEF ftdi_determine_type
<1>2. ftdi_determine_type(TheDevice)' = (IF TheDevice.interfaces > 1 THEN double ELSE single)'
  BY DEF ftdi_determine_type
<1>3. v' = v
  OBVIOUS
<1> HIDE DEF v
<1>4. double' = double
  BY ONLY <1>3
<1>5. single' = single
  BY ONLY <1>3
<1>6. TheDevice.interfaces' = TheDevice.interfaces
  OBVIOUS
<1> HIDE DEF double, single
<1> QED
  BY ONLY <1>1, <1>2, <1>4, <1>5, <1>6

(* The rest of port_probe.                                                 *)
LEMMA ProbeKept ==
  ASSUME OneSize, Received, Chips, SetupInv, PortProbed
  PROVE  Received' /\ Chips'
<1>1. /\ priv.chip = "none" /\ UNCHANGED <<tty, pushed, icount, sent, lines, toggles, reported>>
      /\ probe.at = "ready" /\ UNCHANGED probe
  BY DEF PortProbed, setup
<1>2. priv = NoPriv /\ reported = {} /\ NoPriv.status = {}
  BY <1>1 DEF Received, NoPriv
<1>3. PICK d \in Device : probe.dev = {Mended(d)}
  BY <1>1 DEF Chips
<1>4. TheDevice = Mended(d) /\ TheDevice' = TheDevice
  BY <1>1, <1>3 DEF TheDevice
<1>5. CASE priv' = [NoPriv EXCEPT !.chip = "pl2303", !.int_urb = TRUE]
  <2>1. priv' \in Private /\ priv'.chip = "pl2303" /\ priv'.status = {}
    BY <1>5 DEF NoPriv, Private, ChipName, Bits
  <2> QED
    BY <1>1, <1>2, <2>1 DEF Received, Chips
<1>6. CASE /\ Is(TheDevice, "ftdi_sio")
           /\ priv' = [NoPriv EXCEPT !.chip = ftdi_determine_type(TheDevice),
                                     !.max_packet_size = ftdi_set_max_packet_size(TheDevice)]
  <2>1. /\ ftdi_determine_type(TheDevice) \in ChipName \ {"none", "pl2303"}
    <3> DEFINE S == ChipName \ {"none", "pl2303"}
    <3>1. /\ "SIO" \in S /\ "FT8U232AM" \in S /\ "FT232BM" \in S /\ "FT232RL" \in S
          /\ "FT232H" \in S /\ "FTX" \in S /\ "FT2232C" \in S /\ "FT2232H" \in S
          /\ "FT4232H" \in S
      BY ONLY DEF ChipName
    <3> HIDE DEF S
    <3> DEFINE v == TheDevice.version
               double == CASE v = 2048 -> "FT4232H" [] v = 1792 -> "FT2232H" [] OTHER -> "FT2232C"
               single == CASE v < 512 -> "SIO" [] v \in 512 .. 1023 -> "FT8U232AM"
                           [] v \in 1024 .. 1535 -> "FT232BM" [] v \in 1536 .. 2303 -> "FT232RL"
                           [] v \in 2304 .. 4095 -> "FT232H" [] OTHER -> "FTX"
    <3>2. ftdi_determine_type(TheDevice) = IF TheDevice.interfaces > 1 THEN double ELSE single
      BY ONLY DEF ftdi_determine_type
    <3> HIDE DEF v
    <3>3. double \in S
      BY ONLY <3>1
    <3>4. single \in S
      BY ONLY <3>1
    <3> HIDE DEF double, single
    <3>5. ftdi_determine_type(TheDevice) \in S
      BY ONLY <3>2, <3>3, <3>4
    <3> QED
      BY ONLY <3>5 DEF S
  <2>2. ftdi_set_max_packet_size(TheDevice) \in Nat
    BY <1>4, <1>6, SizeRight
  <2>3. /\ priv' \in Private /\ priv'.chip \notin {"none", "pl2303"} /\ priv'.status = {}
        /\ priv'.max_packet_size = ftdi_set_max_packet_size(TheDevice)
        /\ priv'.chip = ftdi_determine_type(TheDevice)
    BY <1>6, <2>1, <2>2 DEF NoPriv, Private, Bits
  <2>4. Received'
    BY <1>1, <1>2, <2>3 DEF Received
  <2>5. /\ Is(TheDevice, "ftdi_sio")'
        /\ priv'.max_packet_size = ftdi_set_max_packet_size(TheDevice)'
        /\ priv'.chip = ftdi_determine_type(TheDevice)'
    <3>1. /\ Is(TheDevice, "ftdi_sio")'
          /\ priv'.max_packet_size = ftdi_set_max_packet_size(TheDevice)'
      BY <1>1, <1>4, <1>6, <2>3 DEF Is, search_serial_device, ftdi_set_max_packet_size
    <3> QED
      BY ONLY <1>4, <2>3, <3>1, TypeSame
  <2> QED
    BY <1>1, <2>3, <2>4, <2>5 DEF Chips
<1>7. \/ priv' = [NoPriv EXCEPT !.chip = "pl2303", !.int_urb = TRUE]
      \/ /\ Is(TheDevice, "ftdi_sio")
         /\ priv' = [NoPriv EXCEPT !.chip = ftdi_determine_type(TheDevice),
                                   !.max_packet_size = ftdi_set_max_packet_size(TheDevice)]
  <2>1. Res("priv", 1) \in create_serial \union Wanted \union port_probe /\ Covers(probe.num)
    BY <1>1 DEF PortProbed, SetupInv, Allocated
  <2>2. Res("priv", 1) \notin Wanted
    BY <2>1, WantedIs DEF Res, Loop
  <2>3. Is(TheDevice, "ftdi_sio") \/ Is(TheDevice, "pl2303")
    BY <2>1, <2>2, PrivateIs DEF port_probe
  <2> QED
    BY <2>3 DEF PortProbed
<1> QED
  BY <1>5, <1>6, <1>7

(* pl2303_read_int_callback.                                               *)
LEMMA IntKept ==
  ASSUME Received, DataAssumption, NEW line \in Status, NEW short \in BOOLEAN, NEW again \in BOOLEAN,
         pl2303_read_int_callback(line, short, again)
  PROVE  Received' /\ priv'.chip = priv.chip /\ priv'.max_packet_size = priv.max_packet_size
<1>1. /\ priv.chip = "pl2303" /\ line \in Bits /\ UNCHANGED <<tty, pushed, sent>>
      /\ priv' = [priv EXCEPT !.status = IF short THEN @ ELSE line, !.int_urb = again]
  BY DEF pl2303_read_int_callback, Ftdi, DataAssumption, Bits
<1>2. priv \in Private
  BY DEF Received
<1>3. /\ priv' \in Private /\ priv'.chip = priv.chip /\ priv'.max_packet_size = priv.max_packet_size
      /\ priv'.status = IF short THEN priv.status ELSE line
  BY <1>1, <1>2 DEF Private
<1>4. CASE short
  <2>1. UNCHANGED <<icount, lines, toggles, reported>>
    BY <1>4 DEF pl2303_read_int_callback
  <2> QED
    BY <1>1, <1>3, <1>4, <2>1 DEF Received
<1>5. CASE ~short
  <2>1. /\ icount' = Incremented(icount, Changed(priv.status, line)) /\ lines' = line
        /\ toggles' = Incremented(toggles, Changed(lines, line)) /\ reported' = line
    BY <1>5 DEF pl2303_read_int_callback
  <2>2. Changed(priv.status, line) = Changed(lines, line)
    BY DEF Received, Changed
  <2>3. /\ icount' \in Counts
        /\ \A m \in Modem : icount'[m] = icount[m] + (IF m \in Changed(lines, line) THEN 1 ELSE 0)
    BY <2>1, <2>2, IncrementedIs DEF Received
  <2>4. toggles \in [Modem -> Nat] /\ \A m \in Modem : icount[m] = toggles[m]
    BY DEF Received
  <2>5. /\ toggles' = [m \in Modem |-> toggles[m] + (IF m \in Changed(lines, line) THEN 1 ELSE 0)]
    BY <2>1, <2>4 DEF Incremented
  <2>6. toggles' \in [Modem -> Nat] /\ \A m \in Modem : icount'[m] = toggles'[m]
    BY <2>3, <2>4, <2>5
  <2> QED
    BY <1>1, <1>3, <1>5, <2>1, <2>3, <2>6 DEF Received
<1> QED
  BY <1>4, <1>5

(* pl2303_process_read_urb.                                                *)
LEMMA BulkKept ==
  ASSUME Received, NEW bytes \in {<<>>, <<{}>>}, pl2303_process_read_urb(bytes)
  PROVE  Received' /\ priv'.chip = priv.chip /\ priv'.max_packet_size = priv.max_packet_size
<1>1. /\ priv.chip = "pl2303" /\ UNCHANGED <<icount, lines, toggles>> /\ reported' = {}
      /\ priv' = [priv EXCEPT !.status = @ \ Transient]
  BY DEF pl2303_process_read_urb, Ftdi
<1>2. priv \in Private /\ reported \in Bits /\ tty = sent /\ tty \in Seq(Char)
  BY DEF Received
<1>3. /\ priv' \in Private /\ priv'.chip = priv.chip /\ priv'.max_packet_size = priv.max_packet_size
      /\ priv'.status = priv.status \ Transient
  BY <1>1, <1>2 DEF Private, Bits
<1>4. priv'.status \intersect Modem = lines' \intersect Modem /\ priv'.status \intersect Transient = {}
  BY <1>1, <1>3 DEF Received, Modem, Transient
<1>5. bytes \in Seq(Bits)
  <2>1. {} \in Bits
    BY DEF Bits
  <2>2. \A x \in Bits : <<x>> \in Seq(Bits)
    OBVIOUS
  <2>3. <<>> \in Seq(Bits) /\ <<{}>> \in Seq(Bits)
    BY <2>1, <2>2
  <2> QED
    BY <2>3
<1>6. Characters(priv.status, bytes) = Characters(reported, bytes)
  <2>1. \A x \in Transient : x \in priv.status <=> x \in reported
    BY <1>1 DEF Received
  <2>2. ("OE" \in priv.status <=> "OE" \in reported) /\ Flag(priv.status) = Flag(reported)
    BY <2>1 DEF Transient, Flag
  <2> QED
    BY <2>2 DEF Characters
<1>7. /\ tty' = sent' /\ tty' \in Seq(Char)
      /\ pushed' \in 0 .. Len(tty') /\ OnlyOverruns(tty', pushed')
  <2>1. CASE bytes = <<>>
    BY <1>2, <2>1 DEF pl2303_process_read_urb, Received
  <2>2. CASE bytes # <<>>
    <3>1. tty' = tty \o Characters(priv.status, bytes) /\ pushed' = Len(tty') /\ sent' = tty'
      BY <1>2, <1>6, <2>2 DEF pl2303_process_read_urb
    <3>2. tty' \in Seq(Char)
      BY <1>2, <1>5, <1>6, <3>1, CharactersAre
    <3> QED
      BY <3>1, <3>2 DEF OnlyOverruns
  <2> QED
    BY <2>1, <2>2
<1>8. {} \in Bits /\ priv'.chip = "pl2303"
  BY <1>1, <1>3 DEF Bits
<1> QED
  BY <1>1, <1>3, <1>4, <1>7, <1>8 DEF Received

-----------------------------------------------------------------------------
(* FlattenSeq and FoldLeft, for sequences of any length: there is a        *)
(* function that satisfies the recursion, by the least length that has     *)
(* none.                                                                   *)

Flattens(f, ss) == f = [i \in 1 .. Len(ss) |-> IF i = 1 THEN ss[i] ELSE f[i - 1] \o ss[i]]
FlattensTo(f, ss, n) == \A i \in 1 .. n : f[i] = IF i = 1 THEN ss[i] ELSE f[i - 1] \o ss[i]

LEMMA FlattensThere ==
  ASSUME NEW ss, NEW n \in Nat
  PROVE  \E f : DOMAIN f = 1 .. n /\ FlattensTo(f, ss, n)
<1> DEFINE Good(k) == \E f : DOMAIN f = 1 .. k /\ FlattensTo(f, ss, k)
           Bad == {k \in Nat : ~Good(k)}
<1>1. SUFFICES ASSUME n \in Bad PROVE FALSE
  OBVIOUS
<1>2. PICK m \in Bad : \A k \in Bad : m <= k
  BY <1>1, Least
<1>3. m # 0
  <2>1. DOMAIN [i \in 1 .. 0 |-> 0] = 1 .. 0 /\ FlattensTo([i \in 1 .. 0 |-> 0], ss, 0)
    BY DEF FlattensTo
  <2> QED
    BY <2>1
<1>4. m - 1 \in Nat /\ Good(m - 1)
  BY <1>2, <1>3
<1>5. PICK f : DOMAIN f = 1 .. m - 1 /\ FlattensTo(f, ss, m - 1)
  BY <1>4
<1> DEFINE g == [i \in 1 .. m |-> IF i < m THEN f[i] ELSE IF m = 1 THEN ss[m] ELSE f[m - 1] \o ss[m]]
<1>6. DOMAIN g = 1 .. m /\ FlattensTo(g, ss, m)
  <2>1. ASSUME NEW i \in 1 .. m PROVE g[i] = IF i = 1 THEN ss[i] ELSE g[i - 1] \o ss[i]
    <3>1. CASE i < m
      <4>1. f[i] = IF i = 1 THEN ss[i] ELSE f[i - 1] \o ss[i]
        <5>1. i \in 1 .. m - 1
          BY <1>4, <3>1
        <5> QED
          BY <1>5, <5>1 DEF FlattensTo
      <4>2. g[i] = f[i] /\ (i # 1 => g[i - 1] = f[i - 1])
        BY <1>4, <3>1
      <4> HIDE DEF g
      <4> QED
        BY <4>1, <4>2
    <3>2. CASE i = m
      <4>1. g[i] = IF m = 1 THEN ss[m] ELSE f[m - 1] \o ss[m]
        BY <3>2
      <4>2. m # 1 => g[m - 1] = f[m - 1]
        BY <1>4
      <4> HIDE DEF g
      <4> QED
        BY <3>2, <4>1, <4>2
    <3> QED
      BY <3>1, <3>2, <1>4
  <2> HIDE DEF g
  <2>2. FlattensTo(g, ss, m)
    BY <2>1 DEF FlattensTo
  <2> QED
    BY <2>2 DEF g
<1> QED
  BY <1>2, <1>6

(* FlattenSeq satisfies its recursion.                                     *)
LEMMA FlattenIs ==
  ASSUME NEW S, NEW ss \in Seq(Seq(S)), Len(ss) > 0
  PROVE  \E f : /\ FlattensTo(f, ss, Len(ss)) /\ FlattenSeq(ss) = f[Len(ss)]
                /\ \A i \in 1 .. Len(ss) : f[i] \in Seq(S)
<1> DEFINE n == Len(ss)
<1> n \in Nat
  OBVIOUS
<1> HIDE DEF n
<1>1. PICK g : DOMAIN g = 1 .. n /\ FlattensTo(g, ss, n)
  BY FlattensThere
<1>2. FlattenSeq(ss) = (CHOOSE f : Flattens(f, ss))[n]
  BY DEF FlattenSeq, Flattens, n
<1> DEFINE h == [i \in 1 .. n |-> g[i]]
<1>3. Flattens(h, ss)
  <2>1. ASSUME NEW i \in 1 .. n PROVE h[i] = IF i = 1 THEN ss[i] ELSE h[i - 1] \o ss[i]
    <3>1. h[i] = g[i] /\ (i # 1 => h[i - 1] = g[i - 1])
      OBVIOUS
    <3> HIDE DEF h
    <3> QED
      BY <1>1, <3>1 DEF FlattensTo
  <2>2. h = [i \in 1 .. n |-> h[i]]
    OBVIOUS
  <2> HIDE DEF h
  <2> QED
    BY <2>1, <2>2 DEF Flattens, n
<1>4. PICK f : Flattens(f, ss) /\ f = (CHOOSE x : Flattens(x, ss))
  BY <1>3
<1>5. FlattensTo(f, ss, n)
  BY <1>4 DEF Flattens, FlattensTo, n
<1>6. \A i \in 1 .. n : f[i] \in Seq(S)
  <2> DEFINE Bad == {i \in 1 .. n : f[i] \notin Seq(S)}
  <2>1. SUFFICES ASSUME NEW i \in Bad PROVE FALSE
    OBVIOUS
  <2> Bad \in SUBSET Nat
    OBVIOUS
  <2> HIDE DEF Bad
  <2>2. PICK m \in Bad : \A k \in Bad : m <= k
    BY <2>1, Least
  <2> USE DEF Bad
  <2>3. f[m] = IF m = 1 THEN ss[m] ELSE f[m - 1] \o ss[m]
    BY <1>5 DEF FlattensTo
  <2>4. m # 1 => m - 1 \in 1 .. n /\ m - 1 \notin Bad
    BY <2>2
  <2>5. ss[m] \in Seq(S) /\ (m # 1 => f[m - 1] \in Seq(S))
    BY <2>4 DEF n
  <2>6. f[m] \notin Seq(S)
    OBVIOUS
  <2> QED
    BY <2>3, <2>5, <2>6
<1> QED
  BY <1>2, <1>4, <1>5, <1>6 DEF n

(* Joining nothing, and one more.                                          *)
LEMMA FlattenNone == FlattenSeq(<<>>) = <<>>
  BY DEF FlattenSeq

LEMMA FlattenAppend ==
  ASSUME NEW S, NEW ss \in Seq(Seq(S)), NEW x \in Seq(S)
  PROVE  FlattenSeq(ss) \in Seq(S) /\ FlattenSeq(Append(ss, x)) = FlattenSeq(ss) \o x
<1> DEFINE tt == Append(ss, x)
           n == Len(ss)
<1>1. /\ tt \in Seq(Seq(S)) /\ Len(tt) = n + 1 /\ tt[n + 1] = x /\ n \in Nat
      /\ \A i \in 1 .. n : tt[i] = ss[i]
  OBVIOUS
<1> HIDE DEF tt
<1>2. PICK g : FlattensTo(g, tt, n + 1) /\ FlattenSeq(tt) = g[n + 1]
  BY <1>1, FlattenIs
<1>3. CASE n = 0
  <2>1. ss = <<>>
    BY <1>3
  <2>2. g[1] = x
    BY <1>1, <1>2, <1>3 DEF FlattensTo
  <2>3. FlattenSeq(ss) = <<>> /\ <<>> \o x = x /\ <<>> \in Seq(S)
    BY <2>1, FlattenNone
  <2>4. FlattenSeq(tt) = x
    BY <1>2, <1>3, <2>2
  <2> QED
    BY <2>3, <2>4 DEF tt
<1>4. CASE n > 0
  <2>1. PICK f : /\ FlattensTo(f, ss, n) /\ FlattenSeq(ss) = f[n]
                 /\ \A i \in 1 .. n : f[i] \in Seq(S)
    BY <1>4, FlattenIs
  <2>2. f[n] = g[n]
    <3> DEFINE Bad == {i \in 1 .. n : f[i] # g[i]}
    <3>1. SUFFICES ASSUME n \in Bad PROVE FALSE
      BY <1>1, <1>4
    <3> Bad \in SUBSET Nat
      BY <1>1
    <3> HIDE DEF Bad
    <3>2. PICK m \in Bad : \A k \in Bad : m <= k
      BY <3>1, Least
    <3> USE DEF Bad
    <3>3. f[m] = IF m = 1 THEN ss[m] ELSE f[m - 1] \o ss[m]
      BY <2>1 DEF FlattensTo
    <3>4. g[m] = IF m = 1 THEN tt[m] ELSE g[m - 1] \o tt[m]
      BY <1>1, <1>2 DEF FlattensTo
    <3>5. m # 1 => m - 1 \in 1 .. n /\ m - 1 \notin Bad
      BY <1>1, <3>2
    <3> QED
      BY <1>1, <3>3, <3>4, <3>5
  <2>3. g[n + 1] = g[n] \o x
    <3>1. n + 1 \in 1 .. n + 1 /\ n + 1 # 1 /\ (n + 1) - 1 = n
      BY <1>1, <1>4
    <3> QED
      BY <1>1, <1>2, <3>1 DEF FlattensTo
  <2> QED
    BY <1>1, <1>2, <1>4, <2>1, <2>2, <2>3 DEF tt
<1> QED
  BY <1>1, <1>3, <1>4

(* The same for the loop over the frames of a buffer.                      *)
FrameOf(f, u, b, s) == IF u = {} THEN b ELSE Frame(f[u \ {Max(u)}], s[Max(u)])
FramesTo(f, b, s, n) == \A u \in SUBSET (1 .. n) : f[u] = FrameOf(f, u, b, s)

LEMMA FramesThere ==
  ASSUME NEW b, NEW s, NEW n \in Nat
  PROVE  \E f : DOMAIN f = SUBSET (1 .. n) /\ FramesTo(f, b, s, n)
<1> DEFINE Good(k) == \E f : DOMAIN f = SUBSET (1 .. k) /\ FramesTo(f, b, s, k)
           Bad == {k \in Nat : ~Good(k)}
<1>1. SUFFICES ASSUME n \in Bad PROVE FALSE
  OBVIOUS
<1>2. PICK m \in Bad : \A k \in Bad : m <= k
  BY <1>1, Least
<1>3. m # 0
  <2>1. \A u \in SUBSET (1 .. 0) : u = {}
    OBVIOUS
  <2>2. /\ DOMAIN [u \in SUBSET (1 .. 0) |-> b] = SUBSET (1 .. 0)
        /\ FramesTo([u \in SUBSET (1 .. 0) |-> b], b, s, 0)
    BY <2>1 DEF FramesTo, FrameOf
  <2> QED
    BY <2>2
<1>4. m - 1 \in Nat /\ Good(m - 1)
  <2> HIDE DEF Good
  <2>1. m - 1 \in Nat /\ m - 1 \notin Bad
    BY <1>2, <1>3
  <2> QED
    BY <2>1
<1>5. PICK f : DOMAIN f = SUBSET (1 .. m - 1) /\ FramesTo(f, b, s, m - 1)
  BY <1>4
<1> DEFINE g == [u \in SUBSET (1 .. m) |-> IF m \in u THEN Frame(f[u \ {m}], s[m]) ELSE f[u]]
<1>6. ASSUME NEW u \in SUBSET (1 .. m) PROVE g[u] = FrameOf(g, u, b, s)
  <2>1. \A v \in SUBSET (1 .. m) : m \notin v => g[v] = f[v] /\ v \in SUBSET (1 .. m - 1)
    BY <1>4
  <2>2. CASE m \notin u
    <3>1. u \in SUBSET (1 .. m - 1) /\ g[u] = f[u] /\ g[u \ {Max(u)}] = f[u \ {Max(u)}]
      BY <2>1, <2>2
    <3>2. f[u] = FrameOf(f, u, b, s)
      BY <1>5, <3>1 DEF FramesTo
    <3> HIDE DEF g
    <3> QED
      BY <3>1, <3>2 DEF FrameOf
  <2>3. CASE m \in u
    <3>1. Max(u) = m
      <4>1. m \in u /\ m \in Nat /\ \A k \in u : k \in Nat /\ m >= k
        BY <2>3
      <4>2. \A k \in u : k >= m => k = m
        BY <4>1
      <4> QED
        BY <4>1, <4>2 DEF Max
    <3>2. g[u] = Frame(f[u \ {m}], s[m]) /\ g[u \ {m}] = f[u \ {m}]
      BY <2>1, <2>3
    <3> HIDE DEF g
    <3> QED
      BY <2>3, <3>1, <3>2 DEF FrameOf
  <2> QED
    BY <2>2, <2>3
<1>7. DOMAIN g = SUBSET (1 .. m) /\ FramesTo(g, b, s, m)
  <2>1. DOMAIN g = SUBSET (1 .. m)
    OBVIOUS
  <2> HIDE DEF g
  <2> QED
    BY <1>6, <2>1 DEF FramesTo
<1> QED
  BY <1>2, <1>7

(* The states of the loop over the frames, one after the other.            *)
Folded(b, s) == FoldLeft(Frame, b, s)
FramesFrom(g, b, s, n) == /\ g[0] = b /\ Folded(b, s) = g[n]
                          /\ \A k \in 1 .. n : g[k] = Frame(g[k - 1], s[k])

LEMMA FramesAre ==
  ASSUME NEW b, NEW s, NEW n \in Nat, DOMAIN s = 1 .. n
  PROVE  \E g : FramesFrom(g, b, s, n)
<1> DEFINE F(f, u) == IF u = {} THEN b ELSE Frame(f[u \ {Max(u)}], s[Max(u)])
           Eq(f) == f = [u \in SUBSET DOMAIN s |-> F(f, u)]
<1>1. Folded(b, s) = (CHOOSE f : Eq(f))[DOMAIN s]
  BY DEF Folded, FoldLeft, MapThenFoldSet
<1>2. PICK f0 : DOMAIN f0 = SUBSET (1 .. n) /\ FramesTo(f0, b, s, n)
  BY FramesThere
<1> DEFINE h == [u \in SUBSET (1 .. n) |-> f0[u]]
<1>3. Eq(h)
  <2>1. ASSUME NEW u \in SUBSET (1 .. n) PROVE h[u] = F(h, u)
    <3>1. h[u] = f0[u] /\ h[u \ {Max(u)}] = f0[u \ {Max(u)}]
      OBVIOUS
    <3>2. f0[u] = FrameOf(f0, u, b, s)
      BY <1>2 DEF FramesTo
    <3> HIDE DEF h
    <3> QED
      BY <3>1, <3>2 DEF FrameOf
  <2>2. h = [u \in SUBSET (1 .. n) |-> h[u]]
    OBVIOUS
  <2> HIDE DEF h, F
  <2> QED
    BY <2>1, <2>2
<1> HIDE DEF Eq
<1>4. PICK f : Eq(f) /\ f = (CHOOSE x : Eq(x))
  BY <1>3
<1>5. \A u \in SUBSET (1 .. n) : f[u] = F(f, u)
  <2> HIDE DEF F
  <2> QED
    BY <1>4 DEF Eq
<1> DEFINE g == [k \in 0 .. n |-> f[1 .. k]]
<1>6. g[0] = b
  <2>1. 1 .. 0 = {} /\ {} \in SUBSET (1 .. n) /\ g[0] = f[1 .. 0]
    OBVIOUS
  <2>2. f[{}] = b
    BY <1>5, <2>1
  <2> HIDE DEF g
  <2> QED
    BY <2>1, <2>2
<1>7. ASSUME NEW k \in 1 .. n PROVE g[k] = Frame(g[k - 1], s[k])
  <2>1. 1 .. k \in SUBSET (1 .. n) /\ 1 .. k # {} /\ k - 1 \in 0 .. n
    <3>1. 1 .. k \subseteq 1 .. n /\ k \in 1 .. k /\ k - 1 \in 0 .. n
      OBVIOUS
    <3> QED
      BY <3>1
  <2>4. (1 .. k) \ {k} = 1 .. k - 1
    OBVIOUS
  <2>2. Max(1 .. k) = k
    <3>1. k \in 1 .. k /\ \A j \in 1 .. k : k >= j
      OBVIOUS
    <3> QED
      BY <3>1 DEF Max
  <2>3. f[1 .. k] = Frame(f[1 .. k - 1], s[k])
    BY <1>5, <2>1, <2>2, <2>4
  <2> QED
    BY <2>1, <2>3
<1>8. Folded(b, s) = g[n]
  BY <1>1, <1>4
<1> HIDE DEF g
<1> QED
  BY <1>6, <1>7, <1>8 DEF FramesFrom

-----------------------------------------------------------------------------
(* The frames of the SIO.                                                  *)

(* A quotient is the number it has to be.                                  *)
LEMMA QuotientIs ==
  ASSUME NEW a \in Int, NEW n \in Nat \ {0}, NEW k \in Int, NEW r \in 0 .. n - 1, a = k * n + r
  PROVE  a \div n = k
<1> DEFINE q == a \div n
           s == a % n
<1>1. a = n * q + s /\ s \in 0 .. n - 1 /\ q \in Int
  OBVIOUS
<1> HIDE DEF q, s
<1>2. \A j \in Nat : n * j \in Nat
  OBVIOUS
<1>3. ~(q > k)
  <2>1. SUFFICES ASSUME q > k PROVE FALSE
    OBVIOUS
  <2>2. PICK j \in Nat : q = k + 1 + j
    <3>1. q - k - 1 \in Nat
      BY <1>1, <2>1
    <3>2. q = k + 1 + (q - k - 1)
      BY <1>1
    <3> QED
      BY <3>1, <3>2
  <2>3. n * q = k * n + n + n * j
    BY <2>2
  <2> QED
    BY <1>1, <1>2, <2>3
<1>4. ~(q < k)
  <2>1. SUFFICES ASSUME q < k PROVE FALSE
    OBVIOUS
  <2>2. PICK j \in Nat : k = q + 1 + j
    <3>1. k - q - 1 \in Nat
      BY <1>1, <2>1
    <3>2. k = q + 1 + (k - q - 1)
      BY <1>1
    <3> QED
      BY <3>1, <3>2
  <2>3. k * n = n * q + n + n * j
    BY <1>1, <2>2
  <2> QED
    BY <1>1, <1>2, <2>3
<1> QED
  BY <1>1, <1>3, <1>4 DEF q

(* A product grows with its factor.                                        *)
LEMMA Monotone ==
  ASSUME NEW i \in Int, NEW j \in Int, i <= j, NEW n \in Nat
  PROVE  i * n <= j * n
<1>1. \A x, y \in Nat : x * y \in Nat
  OBVIOUS
<1>2. (j - i) * n \in Nat
  BY <1>1
<1>3. (j - i) * n = j * n - i * n
  OBVIOUS
<1> QED
  BY <1>2, <1>3

(* A buffer of full pieces, and one piece more.                            *)
LEMMA PiecesFull ==
  ASSUME NEW S, NEW b \in Seq(S), NEW k \in Nat, NEW n \in Nat \ {0}, Len(b) = k * n
  PROVE  /\ DOMAIN Pieces(b, n) = 1 .. k
         /\ \A j \in 1 .. k : /\ Pieces(b, n)[j] = SubSeq(b, (j - 1) * n + 1, j * n)
                              /\ (j - 1) * n + 1 \in 1 .. Len(b) /\ j * n \in 1 .. Len(b)
<1>1. Len(b) \in Nat
  OBVIOUS
<1>2. (Len(b) + n - 1) \div n = k
  <2>1. Len(b) + n - 1 = k * n + (n - 1) /\ n - 1 \in 0 .. n - 1 /\ Len(b) + n - 1 \in Int
    BY <1>1
  <2> QED
    BY <2>1, QuotientIs
<1>3. DOMAIN Pieces(b, n) = 1 .. (Len(b) + n - 1) \div n
  BY DEF Pieces
<1>4. DOMAIN Pieces(b, n) = 1 .. k
  BY ONLY <1>2, <1>3
<1>5. ASSUME NEW j \in 1 .. k
      PROVE  /\ Pieces(b, n)[j] = SubSeq(b, (j - 1) * n + 1, j * n)
             /\ (j - 1) * n + 1 \in 1 .. Len(b) /\ j * n \in 1 .. Len(b)
  <2>1. Pieces(b, n)[j] = SubSeq(b, (j - 1) * n + 1, Min({j * n, Len(b)}))
    <3>1. j \in 1 .. (Len(b) + n - 1) \div n
      BY <1>2
    <3> QED
      BY <3>1 DEF Pieces
  <2>2. j * n <= k * n /\ 0 * n <= (j - 1) * n /\ j * n \in Int /\ (j - 1) * n \in Int
    BY Monotone
  <2>3. (j - 1) * n = j * n - n /\ 0 * n = 0
    OBVIOUS
  <2>4. Min({j * n, Len(b)}) = j * n
    BY <1>1, <2>2, MinIs
  <2>5. (j - 1) * n + 1 \in 1 .. Len(b) /\ j * n \in 1 .. Len(b)
    BY <1>1, <2>2, <2>3
  <2> QED
    BY <2>1, <2>4, <2>5
<1> QED
  BY <1>4, <1>5

(* A buffer of full pieces with one piece more has that piece last.        *)
LEMMA PiecesMore ==
  ASSUME NEW S, NEW b \in Seq(S), NEW f \in Seq(S), NEW k \in Nat, NEW n \in Nat \ {0},
         Len(b) = k * n, Len(f) \in 1 .. n
  PROVE  /\ DOMAIN Pieces(b \o f, n) = 1 .. k + 1
         /\ \A j \in 1 .. k : Pieces(b \o f, n)[j] = Pieces(b, n)[j]
         /\ Pieces(b \o f, n)[k + 1] = f
<1> DEFINE u == b \o f
<1>1. u \in Seq(S) /\ Len(u) = k * n + Len(f) /\ Len(u) \in Nat
  OBVIOUS
<1>2. (Len(u) + n - 1) \div n = k + 1
  <2>1. (k + 1) * n = k * n + n /\ k * n \in Int
    OBVIOUS
  <2>2. PICK a \in Int, k1 \in Int, r \in 0 .. n - 1 :
           a = Len(u) + n - 1 /\ k1 = k + 1 /\ r = Len(f) - 1
    <3>1. Len(u) + n - 1 \in Int
      <4> HIDE DEF u
      <4> QED
        BY <1>1
    <3>2. k + 1 \in Int /\ Len(f) - 1 \in 0 .. n - 1
      OBVIOUS
    <3> HIDE DEF u
    <3> QED
      BY ONLY <3>1, <3>2
  <2>3. a = k1 * n + r
    BY <1>1, <2>1, <2>2
  <2>4. a \div n = k1
    BY <2>3, QuotientIs
  <2> QED
    BY <2>2, <2>4
<1>3. DOMAIN Pieces(u, n) = 1 .. (Len(u) + n - 1) \div n
  BY DEF Pieces
<1>4. DOMAIN Pieces(u, n) = 1 .. k + 1
  BY ONLY <1>2, <1>3
<1>5. ASSUME NEW j \in 1 .. k + 1
      PROVE  Pieces(u, n)[j] = SubSeq(u, (j - 1) * n + 1, Min({j * n, Len(u)}))
  <2>1. j \in 1 .. (Len(u) + n - 1) \div n
    BY <1>2
  <2> QED
    BY <2>1 DEF Pieces
<1>6. ASSUME NEW j \in 1 .. k PROVE Pieces(u, n)[j] = Pieces(b, n)[j]
  <2>1. /\ Pieces(b, n)[j] = SubSeq(b, (j - 1) * n + 1, j * n)
        /\ (j - 1) * n + 1 \in 1 .. Len(b) /\ j * n \in 1 .. Len(b)
    BY PiecesFull
  <2>2. SubSeq(u, (j - 1) * n + 1, j * n) = SubSeq(b, (j - 1) * n + 1, j * n)
    BY <2>1, SubSeqOfConcat1
  <2>3. Min({j * n, Len(u)}) = j * n
    <3>1. Len(b) <= Len(u)
      <4>1. Len(b) \in Nat /\ Len(f) \in Nat
        OBVIOUS
      <4> HIDE DEF u
      <4> QED
        BY <1>1, <4>1
    <3>2. PICK y \in 1 .. Len(b) : y = j * n
      BY <2>1
    <3>3. y <= Len(u) /\ y \in Int
      <4>1. Len(b) \in Nat
        OBVIOUS
      <4> HIDE DEF u
      <4> QED
        BY <1>1, <3>1, <4>1
    <3>4. Min({y, Len(u)}) = y
      <4> HIDE DEF u
      <4> QED
        BY <1>1, <3>3, MinIs
    <3> QED
      BY <3>2, <3>4
  <2>4. j \in 1 .. k + 1
    OBVIOUS
  <2> QED
    BY <1>5, <2>1, <2>2, <2>3, <2>4
<1>7. Pieces(u, n)[k + 1] = f
  <2>1. k + 1 \in 1 .. k + 1 /\ (k + 1) - 1 = k /\ (k + 1) * n = k * n + n
    OBVIOUS
  <2>2. Min({(k + 1) * n, Len(u)}) = Len(u)
    BY <1>1, <2>1, MinIs
  <2>3. Pieces(u, n)[k + 1] = SubSeq(u, k * n + 1, Len(u))
    BY <1>5, <2>1, <2>2
  <2>4. SubSeq(u, Len(b) + 1, Len(b) + Len(f)) = SubSeq(f, 1, Len(f))
    <3>1. /\ Len(b) + 1 \in Len(b) + 1 .. Len(b) + Len(f)
          /\ Len(b) + Len(f) \in Len(b) + 1 .. Len(b) + Len(f)
          /\ (Len(b) + 1) - Len(b) = 1 /\ (Len(b) + Len(f)) - Len(b) = Len(f)
      OBVIOUS
    <3> QED
      BY <3>1, SubSeqOfConcat2
  <2>5. SubSeq(f, 1, Len(f)) = f
    OBVIOUS
  <2> QED
    BY <1>1, <2>3, <2>4, <2>5
<1> QED
  BY <1>4, <1>6, <1>7

(* What a transfer of the SIO stands for.                                  *)
Coded(p) == IF p[1] = 4 * (Len(p) - 1) + 1 THEN Tail(p) ELSE <<0>>
Plain(b, n) == FlattenSeq([j \in DOMAIN Pieces(b, n) |-> Coded(Pieces(b, n)[j])])

(* An empty transfer stands for nothing, and a frame more for the bytes in *)
(* it.                                                                     *)
LEMMA PlainNone ==
  ASSUME NEW n \in Nat \ {0}
  PROVE  Plain(<<>>, n) = <<>>
<1>1. <<>> \in Seq(Nat) /\ Len(<<>>) = 0 * n /\ 1 .. 0 = {}
  OBVIOUS
<1>2. DOMAIN Pieces(<<>>, n) = {}
  BY <1>1, PiecesFull
<1>3. [j \in DOMAIN Pieces(<<>>, n) |-> Coded(Pieces(<<>>, n)[j])] = <<>>
  BY <1>2
<1> QED
  BY <1>3, FlattenNone DEF Plain

LEMMA PlainMore ==
  ASSUME NEW b \in Seq(Nat), NEW f \in Seq(Nat), NEW k \in Nat, NEW n \in Nat \ {0},
         Len(b) = k * n, Len(f) \in 1 .. n, f[1] = 4 * (Len(f) - 1) + 1
  PROVE  Plain(b, n) \in Seq(Nat) /\ Plain(b \o f, n) = Plain(b, n) \o Tail(f)
<1> DEFINE ss == [j \in DOMAIN Pieces(b, n) |-> Coded(Pieces(b, n)[j])]
           tt == [j \in DOMAIN Pieces(b \o f, n) |-> Coded(Pieces(b \o f, n)[j])]
<1>1. DOMAIN Pieces(b, n) = 1 .. k
  BY PiecesFull
<1>2. ASSUME NEW j \in 1 .. k PROVE Coded(Pieces(b, n)[j]) \in Seq(Nat)
  <2> DEFINE p == Pieces(b, n)[j]
  <2>1. /\ p = SubSeq(b, (j - 1) * n + 1, j * n)
        /\ (j - 1) * n + 1 \in 1 .. Len(b) /\ j * n \in 1 .. Len(b)
    BY PiecesFull
  <2>2. PICK x \in 1 .. Len(b), y \in 1 .. Len(b) : x = (j - 1) * n + 1 /\ y = j * n
    BY <2>1
  <2>3. p \in Seq(Nat) /\ p # <<>>
    <3>1. x <= y
      <4>1. (j - 1) * n = j * n - n
        OBVIOUS
      <4> QED
        BY <2>2, <4>1
    <3>2. p = SubSeq(b, x, y)
      BY <2>1, <2>2
    <3> HIDE DEF p
    <3>3. SubSeq(b, x, y) \in Seq(Nat)
      OBVIOUS
    <3>4. Len(SubSeq(b, x, y)) = y - x + 1
      BY <3>1, SubSeqProperties
    <3>5. y - x + 1 # 0 /\ Len(<<>>) = 0
      BY <3>1
    <3> QED
      BY ONLY <3>2, <3>3, <3>4, <3>5
  <2> HIDE DEF p
  <2>4. Tail(p) \in Seq(Nat) /\ <<0>> \in Seq(Nat)
    BY <2>3
  <2> QED
    BY <2>4 DEF Coded, p
<1>3. ss \in Seq(Seq(Nat)) /\ Len(ss) = k
  BY <1>1, <1>2
<1>4. Coded(f) = Tail(f) /\ Tail(f) \in Seq(Nat)
  BY DEF Coded
<1>5. tt = Append(ss, Tail(f))
  <2>1. /\ DOMAIN Pieces(b \o f, n) = 1 .. k + 1 /\ Pieces(b \o f, n)[k + 1] = f
        /\ \A j \in 1 .. k : Pieces(b \o f, n)[j] = Pieces(b, n)[j]
    BY PiecesMore
  <2>2. ASSUME NEW j \in 1 .. k PROVE tt[j] = ss[j]
    <3>1. j \in 1 .. k + 1
      OBVIOUS
    <3> QED
      BY <1>1, <2>1, <3>1
  <2>3. tt[k + 1] = Tail(f)
    <3>1. k + 1 \in 1 .. k + 1
      OBVIOUS
    <3> QED
      BY <1>4, <2>1, <3>1
  <2>4. \A j \in 1 .. k + 1 : tt[j] = IF j = k + 1 THEN Tail(f) ELSE ss[j]
    <3> HIDE DEF tt, ss
    <3>1. \A j \in 1 .. k + 1 : j = k + 1 \/ j \in 1 .. k
      OBVIOUS
    <3> QED
      BY ONLY <2>2, <2>3, <3>1
  <2>5. tt = [j \in 1 .. k + 1 |-> tt[j]]
    BY ONLY <2>1
  <2>6. \A j \in 1 .. k : ss[j] \in Seq(Nat)
    BY <1>3
  <2> HIDE DEF tt, ss
  <2>7. \A j \in 1 .. k + 1 : tt[j] \in Seq(Nat)
    <3>1. \A j \in 1 .. k + 1 : j = k + 1 \/ j \in 1 .. k
      OBVIOUS
    <3> QED
      BY ONLY <1>4, <2>4, <2>6, <3>1
  <2>8. tt \in Seq(Seq(Nat)) /\ Len(tt) = k + 1
    <3>1. PICK N \in Nat : N = k + 1
      OBVIOUS
    <3>2. DOMAIN tt = 1 .. N /\ tt = [j \in 1 .. N |-> tt[j]] /\ \A j \in 1 .. N : tt[j] \in Seq(Nat)
      BY ONLY <2>5, <2>7, <3>1
    <3>3. tt \in [1 .. N -> Seq(Nat)]
      BY ONLY <3>2
    <3>4. tt \in Seq(Seq(Nat)) /\ Len(tt) = N
      BY <3>1, <3>3
    <3> QED
      BY <3>1, <3>4
  <2>9. /\ Append(ss, Tail(f)) \in Seq(Seq(Nat)) /\ Len(Append(ss, Tail(f))) = k + 1
        /\ \A j \in 1 .. k + 1 : Append(ss, Tail(f))[j] = IF j = k + 1 THEN Tail(f) ELSE ss[j]
    BY <1>3, <1>4
  <2> QED
    <3>1. \A j \in 1 .. k + 1 : tt[j] = Append(ss, Tail(f))[j]
      BY ONLY <2>4, <2>9
    <3>2. \A j \in 1 .. Len(tt) : tt[j] = Append(ss, Tail(f))[j]
      BY ONLY <2>8, <3>1
    <3>3. Len(tt) = Len(Append(ss, Tail(f)))
      BY ONLY <2>8, <2>9
    <3> QED
      BY <2>8, <2>9, <3>2, <3>3, SeqEqual
<1>6. Plain(b, n) = FlattenSeq(ss) /\ Plain(b \o f, n) = FlattenSeq(tt)
  BY DEF Plain
<1> HIDE DEF ss, tt
<1> QED
  BY <1>3, <1>4, <1>5, <1>6, FlattenAppend

(* A sequence, cut in two.                                                 *)
LEMMA Cut ==
  ASSUME NEW S, NEW f \in Seq(S), NEW c \in 0 .. Len(f)
  PROVE  /\ SubSeq(f, 1, c) \in Seq(S) /\ SubSeq(f, c + 1, Len(f)) \in Seq(S)
         /\ Len(SubSeq(f, 1, c)) = c /\ Len(SubSeq(f, c + 1, Len(f))) = Len(f) - c
         /\ SubSeq(f, 1, c) \o SubSeq(f, c + 1, Len(f)) = f
<1>1. PICK L \in Nat : L = Len(f) /\ c \in 0 .. L
  OBVIOUS
<1>2. c \in Int /\ c + 1 \in Int /\ L \in Int /\ 1 \in Int
  BY <1>1
<1>3. (\A i \in 1 .. c : f[i] \in S) /\ (\A i \in c + 1 .. L : f[i] \in S)
  BY <1>1
<1>4. SubSeq(f, 1, c) \in Seq(S) /\ Len(SubSeq(f, 1, c)) = IF 1 <= c THEN c - 1 + 1 ELSE 0
  BY <1>2, <1>3, SubSeqProperties
<1>5. /\ SubSeq(f, c + 1, L) \in Seq(S)
      /\ Len(SubSeq(f, c + 1, L)) = IF c + 1 <= L THEN L - (c + 1) + 1 ELSE 0
  BY <1>2, <1>3, SubSeqProperties
<1>6. SubSeq(f, 1, c) \o SubSeq(f, c + 1, L) = SubSeq(f, 1, L)
  <2>1. 1 \in 1 .. Len(f) + 1 /\ c \in 1 - 1 .. Len(f) /\ L \in c .. Len(f)
    BY <1>1
  <2> QED
    BY <2>1, ConcatAdjacentSubSeq
<1>7. SubSeq(f, 1, L) = f
  BY <1>1, SubSeqFull
<1>8. (IF 1 <= c THEN c - 1 + 1 ELSE 0) = c /\ (IF c + 1 <= L THEN L - (c + 1) + 1 ELSE 0) = L - c
  BY <1>1
<1>9. Len(SubSeq(f, 1, c)) = c /\ Len(SubSeq(f, c + 1, L)) = L - c
  BY ONLY <1>4, <1>5, <1>8
<1>10. SubSeq(f, 1, c) \o SubSeq(f, c + 1, L) = f
  BY ONLY <1>6, <1>7
<1>11. SubSeq(f, 1, c) \in Seq(S) /\ SubSeq(f, c + 1, L) \in Seq(S)
  BY ONLY <1>4, <1>5
<1>12. L = Len(f)
  BY ONLY <1>1
<1> QED
  BY ONLY <1>9, <1>10, <1>11, <1>12

(* Facts of the sequences of bytes, in the form the next proof uses.       *)
LEMMA Regrouped ==
  \A x, y, z \in Seq(Nat) : (x \o y) \o z = x \o (y \o z)
<1> SUFFICES ASSUME NEW x \in Seq(Nat), NEW y \in Seq(Nat), NEW z \in Seq(Nat)
             PROVE  (x \o y) \o z = x \o (y \o z)
  OBVIOUS
<1> QED
  BY ConcatAssociative, SMTT(30)

LEMMA SameSeq ==
  \A s, t \in Seq(Nat) : Len(s) = Len(t) /\ (\A i \in 1 .. Len(s) : s[i] = t[i]) => s = t
<1> SUFFICES ASSUME NEW s \in Seq(Nat), NEW t \in Seq(Nat), Len(s) = Len(t),
                    \A i \in 1 .. Len(s) : s[i] = t[i]
             PROVE  s = t
  OBVIOUS
<1> QED
  BY SeqEqual

Multiple(x, n) == \E k \in Nat : x = k * n

LEMMA PlainMoreAll ==
  \A b, f \in Seq(Nat), n \in Nat \ {0} :
     Multiple(Len(b), n) /\ Len(f) \in 1 .. n /\ f[1] = 4 * (Len(f) - 1) + 1
     => Plain(b, n) \in Seq(Nat) /\ Plain(b \o f, n) = Plain(b, n) \o Tail(f)
<1>1. SUFFICES ASSUME NEW b \in Seq(Nat), NEW f \in Seq(Nat), NEW n \in Nat \ {0},
                      Multiple(Len(b), n), Len(f) \in 1 .. n, f[1] = 4 * (Len(f) - 1) + 1
               PROVE  Plain(b, n) \in Seq(Nat) /\ Plain(b \o f, n) = Plain(b, n) \o Tail(f)
  OBVIOUS
<1>2. PICK k \in Nat : Len(b) = k * n
  BY <1>1 DEF Multiple
<1> QED
  BY <1>1, <1>2, PlainMore

(* The loop of the SIO after some frames: the buffer stands for what has   *)
(* left the fifo, and as long as there is more it is full of frames.       *)
Framed(st, k, w) ==
    /\ st.fifo \in Seq(Nat) /\ st.buffer \in Seq(Nat) /\ st.count = Len(st.buffer)
    /\ Plain(st.buffer, priv.max_packet_size) \in Seq(Nat)
    /\ Plain(st.buffer, priv.max_packet_size) \o st.fifo = w
    /\ st.fifo # <<>> /\ priv.max_packet_size > 1 => Len(st.buffer) = k * priv.max_packet_size

(* A frame of the loop moves bytes from the fifo to the buffer and loses   *)
(* none.                                                                   *)
LEMMA FrameTaken ==
  ASSUME NEW st, NEW k \in Nat, NEW w, Framed(st, k, w), DataAssumption,
         priv.max_packet_size \in Nat \ {0}, priv.max_packet_size <= 64,
         k * priv.max_packet_size <= BulkOutSize - 2
  PROVE  LET nx == Frame(st, k * priv.max_packet_size)
         IN  /\ nx.fifo \in Seq(Nat) /\ nx.buffer \in Seq(Nat) /\ nx.count = Len(nx.buffer)
             /\ Plain(nx.buffer, priv.max_packet_size) \in Seq(Nat)
             /\ Plain(nx.buffer, priv.max_packet_size) \o nx.fifo = w
             /\ (k + 1) * priv.max_packet_size <= BulkOutSize - 2 => Framed(nx, k + 1, w)
<1>1. PICK n \in Nat \ {0}, B \in Nat : n = priv.max_packet_size /\ B = BulkOutSize
  <2>1. priv.max_packet_size \in Nat \ {0} /\ BulkOutSize \in Nat
    BY DataAssumption
  <2> QED
    BY ONLY <2>1
<1>2. PICK i \in Nat : i = k * n
  <2>1. \A x, y \in Nat : x * y \in Nat
    OBVIOUS
  <2> QED
    BY <1>1, <2>1
<1>3. (k + 1) * n = i + n /\ i <= B - 2
  <2>1. (k + 1) * n = k * n + n
    BY ONLY k \in Nat, n \in Nat \ {0}
  <2>2. i <= B - 2
    BY ONLY <1>1, <1>2, k * priv.max_packet_size <= BulkOutSize - 2
  <2> QED
    BY ONLY <1>2, <2>1, <2>2
<1>4. PICK f \in Seq(Nat), b \in Seq(Nat) : f = st.fifo /\ b = st.buffer
  BY DEF Framed
<1>5. /\ st.count = Len(b) /\ Plain(b, n) \in Seq(Nat) /\ Plain(b, n) \o f = w
      /\ (f # <<>> /\ n > 1 => Len(b) = i)
  BY <1>1, <1>2, <1>4 DEF Framed
<1>6. PICK L \in Nat : L = Len(f)
  BY <1>4
<1>7. Min({B - i, n}) = IF B - i <= n THEN B - i ELSE n
  <2>1. B - i \in Int /\ n \in Int
    BY <1>1, <1>2
  <2> QED
    BY <2>1, MinIs
<1>8. PICK c \in Nat : /\ c = Min({L, Min({B - i, n}) - 1})
                       /\ c <= L /\ c <= n - 1 /\ (L > 0 /\ n > 1 => c > 0)
                       /\ (c < L /\ i + n <= B - 2 => c = n - 1)
  <2>1. PICK z \in Nat : z = Min({B - i, n}) - 1 /\ z <= n - 1 /\ (n > 1 => z > 0) /\ (i + n <= B - 2 => z = n - 1)
    BY <1>3, <1>7
  <2>2. Min({L, z}) = IF L <= z THEN L ELSE z
    <3>1. L \in Int /\ z \in Int
      OBVIOUS
    <3> QED
      BY ONLY <3>1, MinIs
  <2> QED
    BY <2>1, <2>2
<1>13. (4 * c + 1) % 256 = 4 * c + 1
  <2>1. c <= 63
    BY <1>1, <1>8
  <2>2. 4 * c + 1 \in 0 .. 255
    BY <2>1
  <2>3. PICK e \in 0 .. 255 : e = 4 * c + 1
    BY <2>2
  <2>4. e % 256 = e
    BY ONLY e \in 0 .. 255
  <2> QED
    BY ONLY <2>3, <2>4
<1> DEFINE nx == Frame(st, i)
<1>9. nx = [fifo |-> SubSeq(f, c + 1, L),
            buffer |-> IF c = 0 THEN b ELSE b \o <<4 * c + 1>> \o SubSeq(f, 1, c),
            count |-> IF c = 0 THEN Len(b) ELSE Len(b) + c + 1]
  BY <1>1, <1>4, <1>5, <1>6, <1>8, <1>13 DEF Frame
<1> HIDE DEF nx
<1>10. /\ nx.fifo = SubSeq(f, c + 1, L)
       /\ nx.buffer = IF c = 0 THEN b ELSE b \o <<4 * c + 1>> \o SubSeq(f, 1, c)
       /\ nx.count = IF c = 0 THEN Len(b) ELSE Len(b) + c + 1
  BY <1>9
<1> SUFFICES /\ nx.fifo \in Seq(Nat) /\ nx.buffer \in Seq(Nat) /\ nx.count = Len(nx.buffer)
             /\ Plain(nx.buffer, n) \in Seq(Nat)
             /\ Plain(nx.buffer, n) \o nx.fifo = w
             /\ (i + n <= B - 2 /\ nx.fifo # <<>> /\ n > 1 => Len(nx.buffer) = i + n)
  BY <1>1, <1>2, <1>3 DEF Framed, nx
<1>11. CASE c = 0
  <2>1. nx.fifo = f
    <3>1. SubSeq(f, 1, Len(f)) = f /\ c + 1 = 1
      BY <1>11
    <3> QED
      BY <1>6, <1>10, <3>1
  <2>2. nx.buffer = b /\ nx.count = Len(b)
    BY <1>10, <1>11
  <2>3. ~(f # <<>> /\ n > 1)
    <3>1. f # <<>> => L > 0
      BY <1>6
    <3> QED
      BY <1>8, <1>11, <3>1
  <2> QED
    BY <1>5, <2>1, <2>2, <2>3
<1>12. CASE c # 0
  <2>1. n > 1 /\ f # <<>> /\ L > 0 /\ Len(b) = i
    <3>1. n > 1 /\ L > 0
      BY <1>8, <1>12
    <3>2. f # <<>>
      BY <1>6, <3>1
    <3> QED
      BY <1>5, <3>1, <3>2
  <2>2. PICK p \in Seq(Nat), q \in Seq(Nat) :
           /\ p = SubSeq(f, 1, c) /\ q = SubSeq(f, c + 1, L) /\ p \o q = f /\ Len(p) = c /\ Len(q) = L - c
    <3>1. c \in 0 .. Len(f)
      BY <1>6, <1>8
    <3>2. /\ SubSeq(f, 1, c) \in Seq(Nat) /\ SubSeq(f, c + 1, Len(f)) \in Seq(Nat)
          /\ Len(SubSeq(f, 1, c)) = c /\ Len(SubSeq(f, c + 1, Len(f))) = Len(f) - c
          /\ SubSeq(f, 1, c) \o SubSeq(f, c + 1, Len(f)) = f
      BY ONLY f \in Seq(Nat), <3>1, Cut
    <3>3. /\ SubSeq(f, 1, c) \in Seq(Nat) /\ SubSeq(f, c + 1, L) \in Seq(Nat)
          /\ Len(SubSeq(f, 1, c)) = c /\ Len(SubSeq(f, c + 1, L)) = L - c
          /\ SubSeq(f, 1, c) \o SubSeq(f, c + 1, L) = f
      BY ONLY <1>6, <3>2
    <3> QED
      BY ONLY <3>3
  <2>3. PICK h \in Seq(Nat) : h = <<4 * c + 1>> \o p
    <3>1. <<4 * c + 1>> \in Seq(Nat)
      BY <1>8
    <3>2. <<4 * c + 1>> \o p \in Seq(Nat)
      BY ONLY <2>2, <3>1, ConcatProperties
    <3> QED
      BY <3>2
  <2>4. Len(h) = c + 1 /\ h[1] = 4 * c + 1 /\ Tail(h) = p
    <3>1. 4 * c + 1 \in Nat
      BY <1>8
    <3>6. PICK e \in Nat : e = 4 * c + 1
      BY <3>1
    <3>7. h = <<e>> \o p
      BY <2>3, <3>6
    <3>8. Len(h) = c + 1 /\ h[1] = e /\ \A j \in 1 .. c : h[j + 1] = p[j]
      BY <2>2, <3>7
    <3>9. h # <<>>
      BY <3>8
    <3>10. /\ Tail(h) \in Seq(Nat) /\ Len(Tail(h)) = Len(h) - 1
           /\ \A j \in 1 .. Len(Tail(h)) : Tail(h)[j] = h[j + 1]
      BY <3>9, HeadTailProperties
    <3>2. Len(h) = c + 1 /\ h[1] = 4 * c + 1 /\ Len(Tail(h)) = c /\ Tail(h) \in Seq(Nat)
      BY <3>6, <3>8, <3>10
    <3>3. \A j \in 1 .. c : Tail(h)[j] = p[j]
      BY <3>2, <3>8, <3>10
    <3> QED
      <4>1. Tail(h) \in Seq(Nat) /\ p \in Seq(Nat) /\ Len(Tail(h)) = c /\ Len(p) = c
        BY <2>2, <3>2
      <4>2. PICK t \in Seq(Nat) : t = Tail(h)
        BY <4>1
      <4>3. Len(t) = Len(p) /\ \A j \in 1 .. Len(t) : t[j] = p[j]
        BY ONLY <3>3, <4>1, <4>2
      <4>4. t = p
        BY ONLY <4>1, <4>3, SameSeq, t \in Seq(Nat)
      <4> QED
        BY ONLY <3>2, <4>2, <4>4
  <2>5. nx.buffer = b \o h /\ nx.count = Len(b) + c + 1 /\ nx.fifo = q
    <3>1. <<4 * c + 1>> \in Seq(Nat)
      BY <1>8
    <3>2. (b \o <<4 * c + 1>>) \o p = b \o (<<4 * c + 1>> \o p)
      <4>1. PICK r \in Seq(Nat) : r = <<4 * c + 1>>
        BY ONLY <3>1
      <4>2. b \in Seq(Nat) /\ p \in Seq(Nat) /\ r \in Seq(Nat)
        OBVIOUS
      <4>3. (b \o r) \o p = b \o (r \o p)
        BY ONLY <4>2, Regrouped, ZenonT(60)
      <4> QED
        BY ONLY <4>1, <4>3
    <3> QED
      BY <1>10, <1>12, <2>2, <2>3, <3>2
  <2>6. Plain(b, n) \in Seq(Nat) /\ Plain(b \o h, n) = Plain(b, n) \o p
    <3>1. Len(h) \in 1 .. n /\ h[1] = 4 * (Len(h) - 1) + 1
      <4>1. c + 1 \in 1 .. n /\ (c + 1) - 1 = c
        BY <1>8
      <4> QED
        BY <2>4, <4>1
    <3>2. Multiple(Len(b), n)
      BY <1>2, <2>1 DEF Multiple
    <3>3. b \in Seq(Nat) /\ h \in Seq(Nat) /\ k \in Nat /\ n \in Nat \ {0}
      OBVIOUS
    <3> QED
      <4>1. Plain(b, n) \in Seq(Nat) /\ Plain(b \o h, n) = Plain(b, n) \o Tail(h)
        BY ONLY <3>1, <3>2, <3>3, PlainMoreAll
      <4> QED
        BY ONLY <2>4, <4>1
  <2>7. (Plain(b, n) \o p) \o q = Plain(b, n) \o f
    <3>1. p \in Seq(Nat) /\ q \in Seq(Nat) /\ Plain(b, n) \in Seq(Nat) /\ p \o q = f
      BY ONLY <2>2, <2>6, p \in Seq(Nat), q \in Seq(Nat)
    <3>3. PICK y \in Seq(Nat) : y = Plain(b, n)
      BY <3>1
    <3>4. (y \o p) \o q = y \o (p \o q)
      <4>1. p \in Seq(Nat) /\ q \in Seq(Nat) /\ y \in Seq(Nat)
        BY ONLY <3>1, y \in Seq(Nat)
      <4> QED
        BY ONLY <4>1, Regrouped, ZenonT(60)
    <3>2. (Plain(b, n) \o p) \o q = Plain(b, n) \o (p \o q)
      BY ONLY <3>3, <3>4
    <3> QED
      BY ONLY <3>1, <3>2
  <2>8. b \o h \in Seq(Nat) /\ Len(b \o h) = i + c + 1
    <3>1. b \o h \in Seq(Nat) /\ Len(b \o h) = Len(b) + Len(h)
      BY ONLY b \in Seq(Nat), h \in Seq(Nat), ConcatProperties
    <3> QED
      BY <1>8, <2>1, <2>4, <3>1
  <2>9. i + n <= B - 2 /\ q # <<>> => c = n - 1
    <3>1. q # <<>> => c < L
      <4>1. q # <<>> => Len(q) > 0
        BY <2>2
      <4> QED
        BY <1>8, <2>2, <4>1
    <3> QED
      BY <1>8, <3>1
  <2>10. Plain(nx.buffer, n) = Plain(b, n) \o p /\ Plain(nx.buffer, n) \in Seq(Nat)
    <3>1. Plain(b, n) \o p \in Seq(Nat)
      BY ONLY <2>2, <2>6, ConcatProperties
    <3> QED
      BY ONLY <2>5, <2>6, <3>1
  <2>11. Plain(nx.buffer, n) \o nx.fifo = w
    BY ONLY <1>5, <2>5, <2>7, <2>10
  <2>12. nx.fifo \in Seq(Nat) /\ nx.buffer \in Seq(Nat) /\ nx.count = Len(nx.buffer)
    BY <2>1, <2>2, <2>5, <2>8
  <2>13. i + n <= B - 2 /\ nx.fifo # <<>> => Len(nx.buffer) = i + n
    BY <2>5, <2>8, <2>9
  <2> QED
    BY ONLY <2>10, <2>11, <2>12, <2>13
<1> QED
  BY <1>11, <1>12

(* The same, without where the buffer ends.                                *)
FramedUp(st, w) ==
    /\ st.fifo \in Seq(Nat) /\ st.buffer \in Seq(Nat) /\ st.count = Len(st.buffer)
    /\ Plain(st.buffer, priv.max_packet_size) \in Seq(Nat)
    /\ Plain(st.buffer, priv.max_packet_size) \o st.fifo = w

(* All the frames of a buffer.                                             *)
LEMMA FoldFramed ==
  ASSUME DataAssumption, priv.max_packet_size \in Nat \ {0}, priv.max_packet_size <= 64, NEW w \in Seq(Nat)
  PROVE  FramedUp(Folded([fifo |-> w, buffer |-> <<>>, count |-> 0], Starts), w)
<1> DEFINE M == priv.max_packet_size
           b == [fifo |-> w, buffer |-> <<>>, count |-> 0]
<1>1. PICK n \in Nat \ {0}, B \in Nat \ {0} : n = M /\ B = BulkOutSize
  BY DataAssumption
<1>2. PICK q \in Int : q = (B - 2) \div n /\ q + 1 \in Nat /\ q * n <= B - 2
  <2>1. B - 2 \in Int /\ -1 <= B - 2
    OBVIOUS
  <2>2. PICK a \in Int : a = B - 2 /\ -1 <= a
    BY <2>1
  <2>3. PICK q \in Int, s \in 0 .. n - 1 : q = a \div n /\ a = q * n + s
    <3>1. a = n * (a \div n) + (a % n) /\ a % n \in 0 .. n - 1 /\ a \div n \in Int
      OBVIOUS
    <3> QED
      BY <3>1
  <2>4. q * n <= a
    <3>1. q * n \in Int
      OBVIOUS
    <3> QED
      BY <2>3, <3>1
  <2>5. q + 1 >= 0
    <3>1. SUFFICES ASSUME q <= -2 PROVE FALSE
      OBVIOUS
    <3>2. q * n <= (-2) * n
      BY <3>1, Monotone
    <3> QED
      BY <2>2, <2>3, <3>2
  <2>6. q + 1 \in Nat
    BY ONLY <2>5, q \in Int
  <2> QED
    BY ONLY <2>2, <2>3, <2>4, <2>6, q \in Int
<1> DEFINE N == q + 1
<1>3. /\ DOMAIN Starts = 1 .. N /\ N \in Nat
      /\ \A k \in 1 .. N : Starts[k] = (k - 1) * n
  BY <1>1, <1>2 DEF Starts
<1>4. \A k \in 1 .. N : (k - 1) * n <= B - 2
  <2>1. SUFFICES ASSUME NEW k \in 1 .. N PROVE (k - 1) * n <= B - 2
    OBVIOUS
  <2>2. k - 1 \in Int /\ k - 1 <= q
    BY <1>2
  <2>3. PICK x \in Int : x = (k - 1) * n
    OBVIOUS
  <2>4. PICK y \in Int : y = q * n
    OBVIOUS
  <2>5. x <= y
    BY <2>2, <2>3, <2>4, Monotone
  <2> QED
    BY <1>2, <2>3, <2>4, <2>5
<1> HIDE DEF N
<1>5. PICK g : /\ g[0] = b /\ Folded(b, Starts) = g[N]
               /\ \A k \in 1 .. N : g[k] = Frame(g[k - 1], Starts[k])
  <2>1. PICK s : s = Starts
    OBVIOUS
  <2>2. PICK c : c = b
    OBVIOUS
  <2>3. PICK m \in Nat : m = N
    BY <1>3
  <2>4. DOMAIN s = 1 .. m
    BY <1>3, <2>1, <2>3
  <2>5. PICK g : FramesFrom(g, c, s, m)
    BY <2>4, FramesAre
  <2> HIDE DEF b
  <2>6. /\ g[0] = b /\ Folded(b, Starts) = g[N]
        /\ \A k \in 1 .. N : g[k] = Frame(g[k - 1], Starts[k])
    BY ONLY <2>1, <2>2, <2>3, <2>5 DEF FramesFrom
  <2> QED
    BY ONLY <2>6
<1>6. FramedUp(b, w) /\ Framed(b, 0, w)
  <2>1. Plain(<<>>, n) = <<>>
    BY PlainNone
  <2>2. 0 * n = 0 /\ <<>> \o w = w /\ Len(<<>>) = 0 /\ <<>> \in Seq(Nat)
    OBVIOUS
  <2> QED
    BY <1>1, <2>1, <2>2 DEF FramedUp, Framed
<1> HIDE DEF b
<1> DEFINE Bad == {k \in 0 .. N : ~(FramedUp(g[k], w) /\ (k < N => Framed(g[k], k, w)))}
<1>7. Bad = {}
  <2>1. SUFFICES ASSUME NEW k0 \in Bad PROVE FALSE
    OBVIOUS
  <2> Bad \in SUBSET Nat
    BY <1>3
  <2> HIDE DEF Bad
  <2>2. PICK k \in Bad : \A j \in Bad : k <= j
    BY <2>1, Least
  <2> USE DEF Bad
  <2>3. k \in 0 .. N /\ k \in Nat
    BY <1>3
  <2>4. k # 0
    BY <1>5, <1>6
  <2>5. k - 1 \in Nat /\ k - 1 \in 0 .. N /\ k - 1 < N /\ k - 1 \notin Bad /\ k \in 1 .. N
    BY <1>3, <2>2, <2>3, <2>4
  <2>6. Framed(g[k - 1], k - 1, w)
    BY <2>5
  <2>7. (k - 1) * n <= B - 2 /\ g[k] = Frame(g[k - 1], (k - 1) * n)
    BY <1>3, <1>4, <1>5, <2>5
  <2>8. PICK j \in Nat : j = k - 1 /\ j + 1 = k
    BY <2>5
  <2>9. /\ FramedUp(g[k], w)
        /\ (j + 1) * n <= B - 2 => Framed(g[k], j + 1, w)
    <3>1. Framed(g[j], j, w) /\ j * M <= BulkOutSize - 2 /\ g[k] = Frame(g[j], j * M)
      BY <1>1, <2>6, <2>7, <2>8
    <3>2. LET nx == Frame(g[j], j * M)
          IN  /\ nx.fifo \in Seq(Nat) /\ nx.buffer \in Seq(Nat) /\ nx.count = Len(nx.buffer)
              /\ Plain(nx.buffer, M) \in Seq(Nat)
              /\ Plain(nx.buffer, M) \o nx.fifo = w
              /\ (j + 1) * M <= BulkOutSize - 2 => Framed(nx, j + 1, w)
      BY <3>1, FrameTaken
    <3> QED
      BY <1>1, <3>1, <3>2 DEF FramedUp
  <2>10. k < N => (j + 1) * n <= B - 2
    <3>1. SUFFICES ASSUME k < N PROVE (j + 1) * n <= B - 2
      OBVIOUS
    <3>2. k + 1 \in 1 .. N /\ (k + 1) - 1 = j + 1
      BY <1>3, <2>3, <2>8, <3>1
    <3> QED
      BY <1>4, <3>2
  <2>11. FramedUp(g[k], w) /\ (k < N => Framed(g[k], k, w))
    BY <2>8, <2>9, <2>10
  <2> QED
    BY <2>2, <2>11
<1>8. FramedUp(g[N], w)
  <2>1. N \in 0 .. N /\ N \notin Bad
    BY <1>3, <1>7
  <2> QED
    BY <2>1
<1> QED
  BY <1>5, <1>8 DEF b

(* What the buffer of any chip stands for, and what is left.               *)
LEMMA DecodedIs ==
  ASSUME NEW b
  PROVE  Decoded(b) = IF priv.chip # "SIO" THEN b ELSE Plain(b, priv.max_packet_size)
  BY DEF Decoded, Plain, Coded

Filled(b, f, w) == /\ b \in Seq(Nat) /\ f \in Seq(Nat) /\ Decoded(b) \in Seq(Nat)
                   /\ Decoded(b) \o f = w /\ Len(f) <= Len(w)

(* A buffer for the SIO, and one for the other chips.                      *)
LEMMA SioFilled ==
  ASSUME DataAssumption, priv.chip = "SIO", priv.max_packet_size \in Nat \ {0}, priv.max_packet_size <= 64,
         NEW w \in Seq(Nat)
  PROVE  LET st == Folded([fifo |-> w, buffer |-> <<>>, count |-> 0], Starts)
         IN  Filled(SubSeq(st.buffer, 1, st.count), st.fifo, w)
<1> DEFINE st == Folded([fifo |-> w, buffer |-> <<>>, count |-> 0], Starts)
<1>1. FramedUp(st, w)
  BY FoldFramed
<1> HIDE DEF st
<1>2. PICK b \in Seq(Nat), f \in Seq(Nat), p \in Seq(Nat) :
         b = st.buffer /\ f = st.fifo /\ p = Plain(b, priv.max_packet_size) /\ p \o f = w /\ st.count = Len(b)
  BY <1>1 DEF FramedUp
<1>3. SubSeq(b, 1, Len(b)) = b
  BY SubSeqFull
<1>4. Decoded(b) = p
  BY <1>2, DecodedIs
<1>5. Len(f) <= Len(w)
  <2>1. Len(p) \in Nat /\ Len(f) \in Nat /\ Len(p \o f) = Len(p) + Len(f)
    BY ConcatProperties
  <2>2. Len(w) = Len(p) + Len(f)
    BY ONLY <1>2, <2>1
  <2> QED
    BY ONLY <2>1, <2>2
<1>6. Filled(b, f, w)
  BY <1>2, <1>4, <1>5 DEF Filled
<1> QED
  BY <1>2, <1>3, <1>6 DEF st

LEMMA OtherFilled ==
  ASSUME DataAssumption, priv.chip # "SIO", NEW w \in Seq(Nat)
  PROVE  LET n == Min({Len(w), BulkOutSize})
         IN  Filled(SubSeq(SubSeq(w, 1, n), 1, n), SubSeq(w, n + 1, Len(w)), w)
<1>1. PICK n \in 0 .. Len(w) : n = Min({Len(w), BulkOutSize})
  <2>1. Len(w) \in Int /\ BulkOutSize \in Int /\ 0 <= Len(w) /\ 0 <= BulkOutSize
    BY DataAssumption
  <2>2. Min({Len(w), BulkOutSize}) = IF Len(w) <= BulkOutSize THEN Len(w) ELSE BulkOutSize
    BY <2>1, MinIs
  <2> QED
    BY <2>1, <2>2
<1>2. /\ SubSeq(w, 1, n) \in Seq(Nat) /\ SubSeq(w, n + 1, Len(w)) \in Seq(Nat)
      /\ Len(SubSeq(w, 1, n)) = n /\ Len(SubSeq(w, n + 1, Len(w))) = Len(w) - n
      /\ SubSeq(w, 1, n) \o SubSeq(w, n + 1, Len(w)) = w
  BY Cut
<1>3. PICK b \in Seq(Nat), f \in Seq(Nat) : b = SubSeq(w, 1, n) /\ f = SubSeq(w, n + 1, Len(w))
  BY <1>2
<1>4. Len(b) = n /\ b \o f = w /\ Len(f) <= Len(w)
  <2>1. Len(b) = n /\ b \o f = w /\ Len(f) = Len(w) - n
    BY ONLY <1>2, <1>3
  <2>2. Len(w) \in Nat /\ n \in Nat
    OBVIOUS
  <2>3. Len(f) <= Len(w)
    BY <2>1, <2>2
  <2> QED
    BY ONLY <2>1, <2>3
<1>5. SubSeq(b, 1, n) = b
  BY <1>4, SubSeqFull
<1>6. Decoded(b) = b
  BY DecodedIs
<1>7. Filled(b, f, w)
  BY <1>4, <1>6 DEF Filled
<1> QED
  BY <1>1, <1>3, <1>5, <1>7

-----------------------------------------------------------------------------
(* What is written.                                                        *)

(* What the buffers of o stand for, for a chip with packets of n.          *)
Bytes(o, chip, n) == FlattenSeq([i \in DOMAIN o |-> IF chip # "SIO" THEN o[i] ELSE Plain(o[i], n)])
Counting(n) == [i \in 1 .. n |-> i]

(* WriteFramed, in these terms.                                            *)
LEMMA WriteFramedIs ==
  /\ WriteFramed <=> Bytes(out, priv.chip, priv.max_packet_size) \o write_fifo = Counting(written)
  /\ WriteFramed' <=> Bytes(out', priv'.chip, priv'.max_packet_size) \o write_fifo' = Counting(written')
<1>1. WriteFramed <=> Bytes(out, priv.chip, priv.max_packet_size) \o write_fifo = Counting(written)
  BY DEF WriteFramed, Decoded, Bytes, Plain, Coded, Counting
<1>2. WriteFramed' <=> Bytes(out', priv'.chip, priv'.max_packet_size) \o write_fifo' = Counting(written')
  BY DEF WriteFramed, Decoded, Bytes, Plain, Coded, Counting, Pieces
<1> QED
  BY <1>1, <1>2

(* The invariant of the sending side.                                      *)
Meaning(b, chip, n) == IF chip # "SIO" THEN b ELSE Plain(b, n)
Sending ==
    /\ written \in Nat /\ write_fifo \in Seq(Nat) /\ out \in Seq(Seq(Nat))
    /\ \A i \in DOMAIN out : Meaning(out[i], priv.chip, priv.max_packet_size) \in Seq(Nat)
    /\ Bytes(out, priv.chip, priv.max_packet_size) \o write_fifo = Counting(written)
    /\ priv.chip = "none" => out = <<>> /\ write_fifo = <<>> /\ written = 0

(* Nothing written is nothing sent.                                        *)
LEMMA NothingSent ==
  ASSUME NEW chip, NEW n
  PROVE  /\ Bytes(<<>>, chip, n) \o <<>> = Counting(0)
         /\ 0 \in Nat /\ <<>> \in Seq(Nat) /\ <<>> \in Seq(Seq(Nat)) /\ DOMAIN <<>> = {}
<1>1. Bytes(<<>>, chip, n) = <<>>
  BY FlattenNone DEF Bytes
<1>2. <<>> \o <<>> = <<>> /\ Counting(0) = <<>>
  BY DEF Counting
<1> QED
  BY <1>1, <1>2

(* One buffer more.                                                        *)
LEMMA BytesSeq ==
  ASSUME NEW o \in Seq(Seq(Nat)), NEW chip, NEW n,
         \A i \in DOMAIN o : Meaning(o[i], chip, n) \in Seq(Nat)
  PROVE  /\ Bytes(o, chip, n) \in Seq(Nat)
         /\ \A b : Meaning(b, chip, n) \in Seq(Nat) =>
                Bytes(Append(o, b), chip, n) = Bytes(o, chip, n) \o Meaning(b, chip, n)
<1> DEFINE ms == [i \in DOMAIN o |-> Meaning(o[i], chip, n)]
<1>1. PICK k \in Nat : k = Len(o) /\ DOMAIN o = 1 .. k
  OBVIOUS
<1>2. ms \in Seq(Seq(Nat)) /\ Len(ms) = k
  <2>1. ms \in [1 .. k -> Seq(Nat)]
    BY <1>1
  <2> HIDE DEF ms
  <2> QED
    BY <2>1
<1>3. Bytes(o, chip, n) = FlattenSeq(ms)
  BY DEF Bytes, Meaning
<1>4. ASSUME NEW b, Meaning(b, chip, n) \in Seq(Nat)
      PROVE  Bytes(Append(o, b), chip, n) = Bytes(o, chip, n) \o Meaning(b, chip, n)
  <2> DEFINE q == Append(o, b)
             ns == [i \in DOMAIN q |-> Meaning(q[i], chip, n)]
             x == Meaning(b, chip, n)
  <2>1. DOMAIN q = 1 .. k + 1 /\ q[k + 1] = b /\ \A i \in 1 .. k : q[i] = o[i]
    BY <1>1
  <2>2. ns = Append(ms, x)
    <3> HIDE DEF q
    <3>1. DOMAIN ns = 1 .. k + 1 /\ \A i \in 1 .. k + 1 : ns[i] = Meaning(q[i], chip, n)
      BY <2>1
    <3>2. \A i \in 1 .. k : ms[i] = Meaning(o[i], chip, n) /\ ms[i] \in Seq(Nat)
      BY <1>1
    <3> HIDE DEF ns, ms
    <3>3. \A i \in 1 .. k : i \in 1 .. k + 1
      OBVIOUS
    <3>4. ns[k + 1] = x /\ \A i \in 1 .. k : ns[i] = ms[i]
      <4>1. k + 1 \in 1 .. k + 1
        OBVIOUS
      <4> QED
        BY ONLY <2>1, <3>1, <3>2, <3>3, <4>1
    <3> HIDE DEF x
    <3>5. \A i \in 1 .. k + 1 : i = k + 1 \/ i \in 1 .. k
      OBVIOUS
    <3>6. x \in Seq(Nat)
      BY <1>4 DEF x
    <3>7. \A i \in 1 .. k + 1 : ns[i] \in Seq(Nat)
      BY ONLY <3>2, <3>4, <3>5, <3>6
    <3>8. /\ Append(ms, x) \in Seq(Seq(Nat)) /\ Len(Append(ms, x)) = k + 1
          /\ Append(ms, x)[k + 1] = x /\ \A i \in 1 .. k : Append(ms, x)[i] = ms[i]
      BY <1>2, <3>6
    <3>9. \A i \in 1 .. k + 1 : ns[i] = Append(ms, x)[i]
      BY ONLY <3>4, <3>5, <3>8
    <3>10. ns \in Seq(Seq(Nat)) /\ Len(ns) = k + 1
      <4>1. PICK N \in Nat : N = k + 1
        OBVIOUS
      <4>2. ns = [i \in DOMAIN ns |-> ns[i]]
        BY DEF ns
      <4>3. ns \in [1 .. N -> Seq(Nat)]
        BY ONLY <3>1, <3>7, <4>1, <4>2
      <4> QED
        BY <4>1, <4>3
    <3> QED
      BY <3>8, <3>9, <3>10, SeqEqual
  <2>3. Bytes(q, chip, n) = FlattenSeq(ns)
    BY DEF Bytes, Meaning
  <2> HIDE DEF ns, ms, q
  <2> QED
    BY <1>2, <1>3, <1>4, <2>2, <2>3, FlattenAppend DEF q
<1>5. FlattenSeq(ms) \in Seq(Nat)
  <2>1. <<>> \in Seq(Nat)
    OBVIOUS
  <2> HIDE DEF ms
  <2> QED
    BY <1>2, <2>1, FlattenAppend
<1> QED
  BY <1>3, <1>4, <1>5

(* Steps that leave the sending side alone, and the end of a port.         *)
LEMMA SendingSame ==
  ASSUME Sending, UNCHANGED <<write_fifo, out, written>>,
         priv'.chip = priv.chip, priv'.max_packet_size = priv.max_packet_size
  PROVE  Sending'
<1>1. PICK c, n : c = priv.chip /\ n = priv.max_packet_size
  OBVIOUS
<1>2. priv'.chip = c /\ priv'.max_packet_size = n
  BY <1>1
<1> QED
  BY <1>1, <1>2 DEF Sending

LEMMA SendingFresh ==
  ASSUME write_fifo' = <<>>, out' = <<>>, written' = 0
  PROVE  Sending'
  BY NothingSent DEF Sending

(* A program writes.                                                       *)
LEMMA WriteKept ==
  ASSUME Sending, Received, NEW n \in Nat, Write(n)
  PROVE  Sending' /\ Received' /\ priv' = priv
<1>1. /\ UNCHANGED <<priv, tty, pushed, icount, out, sent, lines, toggles, reported>>
      /\ priv.chip # "none" /\ written' = written + n
      /\ write_fifo' = write_fifo \o [i \in 1 .. n |-> written + i]
  BY DEF Write, Working
<1>2. Received'
  BY <1>1 DEF Received
<1>13. PICK c, m : c = priv.chip /\ m = priv.max_packet_size
  OBVIOUS
<1>14. PICK w \in Nat, f \in Seq(Nat), o \in Seq(Seq(Nat)) : w = written /\ f = write_fifo /\ o = out
  BY DEF Sending
<1>3. w = written /\ f = write_fifo /\ o = out /\ c = priv.chip /\ m = priv.max_packet_size
  BY <1>13, <1>14
<1>4. PICK x \in Seq(Nat) : x = [i \in 1 .. n |-> w + i] /\ Len(x) = n /\ \A i \in 1 .. n : x[i] = w + i
  <2>1. [i \in 1 .. n |-> w + i] \in [1 .. n -> Nat]
    OBVIOUS
  <2>2. [i \in 1 .. n |-> w + i] \in Seq(Nat) /\ Len([i \in 1 .. n |-> w + i]) = n
    BY <2>1
  <2>3. \A i \in 1 .. n : [j \in 1 .. n |-> w + j][i] = w + i
    OBVIOUS
  <2> QED
    BY <2>2, <2>3
<1>5. Bytes(o, c, m) \o f = Counting(w)
  BY <1>3 DEF Sending
<1>6. \A k \in Nat : Counting(k) \in Seq(Nat) /\ Len(Counting(k)) = k /\ \A i \in 1 .. k : Counting(k)[i] = i
  BY DEF Counting
<1>7. Counting(w) \o x = Counting(w + n)
  <2>1. w + n \in Nat
    OBVIOUS
  <2>2. PICK a \in Seq(Nat) : a = Counting(w) /\ Len(a) = w /\ \A i \in 1 .. w : a[i] = i
    BY <1>6
  <2>3. PICK b \in Seq(Nat) : b = Counting(w + n) /\ Len(b) = w + n /\ \A i \in 1 .. w + n : b[i] = i
    BY <1>6, <2>1
  <2>4. /\ a \o x \in Seq(Nat) /\ Len(a \o x) = w + n
        /\ \A i \in 1 .. w + n : (a \o x)[i] = IF i <= w THEN a[i] ELSE x[i - w]
    <3>1. /\ a \o x \in Seq(Nat) /\ Len(a \o x) = Len(a) + Len(x)
          /\ \A i \in 1 .. Len(a) + Len(x) : (a \o x)[i] = IF i <= Len(a) THEN a[i] ELSE x[i - Len(a)]
      BY ConcatProperties
    <3> QED
      BY ONLY <1>4, <2>2, <3>1
  <2>5. \A i \in 1 .. w + n : (a \o x)[i] = b[i]
    <3>1. SUFFICES ASSUME NEW i \in 1 .. w + n PROVE (a \o x)[i] = b[i]
      OBVIOUS
    <3>2. CASE i <= w
      <4>1. i \in 1 .. w
        BY <3>2
      <4> QED
        BY <2>2, <2>3, <2>4, <3>2, <4>1
    <3>3. CASE ~(i <= w)
      <4>1. i - w \in 1 .. n /\ w + (i - w) = i
        BY <3>3
      <4>2. x[i - w] = i
        BY <1>4, <4>1
      <4> QED
        BY <2>3, <2>4, <3>3, <4>2
    <3> QED
      BY <3>2, <3>3
  <2>6. a \o x = b
    <3>1. /\ a \o x \in Seq(Nat) /\ b \in Seq(Nat) /\ Len(a \o x) = Len(b)
          /\ \A i \in 1 .. Len(a \o x) : (a \o x)[i] = b[i]
      BY ONLY <2>3, <2>4, <2>5, b \in Seq(Nat)
    <3> QED
      BY ONLY <3>1, SameSeq
  <2> QED
    BY <2>2, <2>3, <2>6
<1>8. PICK y \in Seq(Nat) : y = Bytes(o, c, m)
  BY <1>3, BytesSeq DEF Sending
<1>9. y \o (f \o x) = Counting(w + n)
  <2>1. (y \o f) \o x = y \o (f \o x)
    BY Regrouped
  <2> QED
    BY ONLY <1>5, <1>7, <1>8, <2>1
<1>10. f \o x \in Seq(Nat) /\ w + n \in Nat
  BY ConcatProperties
<1>11. write_fifo' = f \o x /\ written' = w + n /\ out' = o /\ priv'.chip = c /\ priv'.max_packet_size = m
  BY <1>1, <1>3, <1>4
<1>12. Sending'
  <2>1. Bytes(out, priv.chip, priv.max_packet_size)' \o write_fifo' = Counting(written)'
    BY <1>8, <1>9, <1>11
  <2> QED
    BY <1>1, <1>3, <1>10, <1>11, <2>1 DEF Sending
<1> QED
  BY <1>1, <1>2, <1>12

(* ftdi_prepare_write_buffer.                                              *)
LEMMA PrepareKept ==
  ASSUME Sending, Received, DataAssumption, ftdi_prepare_write_buffer,
         priv.chip = "SIO" => priv.max_packet_size \in Nat \ {0} /\ priv.max_packet_size <= 64
  PROVE  Sending' /\ Received' /\ priv' = priv
<1>1. /\ UNCHANGED <<priv, tty, pushed, sent, lines, toggles, written, reported>> /\ priv.chip # "none"
  BY DEF ftdi_prepare_write_buffer, Working
<1>2. PICK w \in Seq(Nat) : w = write_fifo
  BY DEF Sending
<1>3. \E b, f : /\ Filled(b, f, w) /\ write_fifo' = f /\ out' = Append(out, b)
                /\ icount' = [icount EXCEPT !.tx = @ + Len(w) - Len(f)]
  <2>1. CASE priv.chip = "SIO"
    <3>1. LET st == Folded([fifo |-> w, buffer |-> <<>>, count |-> 0], Starts)
          IN  Filled(SubSeq(st.buffer, 1, st.count), st.fifo, w)
      BY <2>1, SioFilled
    <3>2. LET st == Folded([fifo |-> w, buffer |-> <<>>, count |-> 0], Starts)
          IN  /\ write_fifo' = st.fifo /\ out' = Append(out, SubSeq(st.buffer, 1, st.count))
              /\ icount' = [icount EXCEPT !.tx = @ + Len(w) - Len(st.fifo)]
      BY <1>2, <2>1 DEF ftdi_prepare_write_buffer, Folded
    <3> QED
      BY <3>1, <3>2
  <2>2. CASE priv.chip # "SIO"
    <3> DEFINE n == Min({Len(w), BulkOutSize})
    <3>1. Filled(SubSeq(SubSeq(w, 1, n), 1, n), SubSeq(w, n + 1, Len(w)), w)
      BY <2>2, OtherFilled
    <3>2. /\ write_fifo' = SubSeq(w, n + 1, Len(w)) /\ out' = Append(out, SubSeq(SubSeq(w, 1, n), 1, n))
          /\ icount' = [icount EXCEPT !.tx = @ + Len(w) - Len(SubSeq(w, n + 1, Len(w)))]
      BY <1>2, <2>2 DEF ftdi_prepare_write_buffer
    <3> HIDE DEF n
    <3> QED
      BY <3>1, <3>2
  <2> QED
    BY <2>1, <2>2
<1>4. PICK b, f : /\ Filled(b, f, w) /\ write_fifo' = f /\ out' = Append(out, b)
                  /\ icount' = [icount EXCEPT !.tx = @ + Len(w) - Len(f)]
  BY <1>3
<1>5. PICK c, m : c = priv.chip /\ m = priv.max_packet_size
  OBVIOUS
<1>6. PICK o \in Seq(Seq(Nat)), k \in Nat : o = out /\ k = written
  BY DEF Sending
<1>7. /\ b \in Seq(Nat) /\ f \in Seq(Nat) /\ Meaning(b, c, m) \in Seq(Nat)
      /\ Meaning(b, c, m) \o f = w /\ Len(f) <= Len(w)
  <2>1. Decoded(b) = Meaning(b, c, m)
    BY <1>5, DecodedIs DEF Meaning
  <2> QED
    BY <1>4, <2>1 DEF Filled
<1>8. /\ \A i \in DOMAIN o : Meaning(o[i], c, m) \in Seq(Nat)
      /\ Bytes(o, c, m) \o w = Counting(k)
  BY <1>2, <1>5, <1>6 DEF Sending
<1>9. Bytes(o, c, m) \in Seq(Nat) /\ Bytes(Append(o, b), c, m) = Bytes(o, c, m) \o Meaning(b, c, m)
  BY <1>7, <1>8, BytesSeq
<1>10. Bytes(Append(o, b), c, m) \o f = Counting(k)
  <2>1. PICK y \in Seq(Nat), z \in Seq(Nat) : y = Bytes(o, c, m) /\ z = Meaning(b, c, m)
    BY <1>7, <1>9
  <2>2. (y \o z) \o f = y \o (z \o f)
    <3>1. y \in Seq(Nat) /\ z \in Seq(Nat) /\ f \in Seq(Nat)
      BY ONLY <1>7, y \in Seq(Nat), z \in Seq(Nat)
    <3> QED
      BY ONLY <3>1, Regrouped, ZenonT(60)
  <2> QED
    BY ONLY <1>7, <1>8, <1>9, <2>1, <2>2
<1>11. /\ Append(o, b) \in Seq(Seq(Nat))
       /\ \A i \in DOMAIN Append(o, b) : Meaning(Append(o, b)[i], c, m) \in Seq(Nat)
  <2>1. PICK L \in Nat : L = Len(o) /\ DOMAIN o = 1 .. L
    OBVIOUS
  <2>2. /\ Append(o, b) \in Seq(Seq(Nat)) /\ DOMAIN Append(o, b) = 1 .. L + 1
        /\ Append(o, b)[L + 1] = b /\ \A i \in 1 .. L : Append(o, b)[i] = o[i]
    BY <1>7, <2>1
  <2>3. \A i \in 1 .. L + 1 : i = L + 1 \/ i \in 1 .. L
    OBVIOUS
  <2> QED
    BY ONLY <1>7, <1>8, <2>1, <2>2, <2>3
<1>12. out' = Append(o, b) /\ write_fifo' = f /\ written' = k /\ priv'.chip = c /\ priv'.max_packet_size = m
  BY <1>1, <1>4, <1>5, <1>6
<1>13. Sending'
  <2>1. priv'.chip # "none"
    BY <1>1
  <2>2. Bytes(out', priv'.chip, priv'.max_packet_size) \o write_fifo' = Counting(written')
    BY ONLY <1>10, <1>12
  <2>3. \A i \in DOMAIN out' : Meaning(out'[i], priv'.chip, priv'.max_packet_size) \in Seq(Nat)
    BY ONLY <1>11, <1>12
  <2>4. written' \in Nat /\ write_fifo' \in Seq(Nat) /\ out' \in Seq(Seq(Nat))
    BY ONLY <1>7, <1>11, <1>12, k \in Nat
  <2> QED
    BY <2>1, <2>2, <2>3, <2>4 DEF Sending
<1>14. icount' \in Counts /\ \A x \in Modem : icount'[x] = icount[x]
  <2>1. icount \in Counts /\ "tx" \in Counter /\ "tx" \notin Modem /\ Modem \subseteq Counter
    BY DEF Received, Counter, Modem
  <2>2. icount.tx \in Nat /\ Len(w) \in Nat /\ Len(f) \in Nat
    BY <1>7, <2>1 DEF Counts
  <2>3. icount.tx + Len(w) - Len(f) \in Nat
    BY <1>7, <2>2
  <2>4. icount' = [icount EXCEPT !["tx"] = icount.tx + Len(w) - Len(f)]
    BY <1>4
  <2> QED
    BY <2>1, <2>3, <2>4 DEF Counts
<1>15. Received'
  BY <1>1, <1>14 DEF Received
<1> QED
  BY <1>1, <1>13, <1>15

-----------------------------------------------------------------------------
(* The setup under the data.                                               *)

(* No plan has more structures than MAX_NUM_PORTS.                         *)
LEMMA PlanBounded ==
  ASSUME NEW d \in Device
  PROVE  Plan(d)["pointers"] <= MaxNumPorts
<1> DEFINE p == IF Is(d, "generic") THEN Count(d, "bulk_out") ELSE NumPorts(d)
           m == Min({p, MaxNumPorts})
           num == [k \in Kind |-> Count(d, k)]
           S == {num[j] : j \in Kind} \union {m}
<1>1. MaxNumPorts \in Nat
  BY SetupAssumption
<1>2. \A a \in Nat : Min({a, MaxNumPorts}) \in Nat /\ Min({a, MaxNumPorts}) <= MaxNumPorts
  <2>1. SUFFICES ASSUME NEW a \in Nat
                 PROVE  Min({a, MaxNumPorts}) \in Nat /\ Min({a, MaxNumPorts}) <= MaxNumPorts
    OBVIOUS
  <2>2. Min({a, MaxNumPorts}) = IF a <= MaxNumPorts THEN a ELSE MaxNumPorts
    BY <1>1, MinIs
  <2> QED
    BY <1>1, <2>2
<1>3. \A k \in Kind : num[k] \in Nat /\ num[k] <= MaxNumPorts
  <2>1. SUFFICES ASSUME NEW k \in Kind PROVE num[k] \in Nat /\ num[k] <= MaxNumPorts
    OBVIOUS
  <2>2. Cardinality(Found(d, k)) \in Nat
    <3>1. Endpoints(d, k) \in Seq(Endpoint)
      BY SetupAssumption DEF Endpoints
    <3>2. IsFiniteSet(1 .. Len(Endpoints(d, k))) /\ DOMAIN Endpoints(d, k) = 1 .. Len(Endpoints(d, k))
      BY <3>1, FS_Interval
    <3>3. Found(d, k) \subseteq DOMAIN Endpoints(d, k)
      BY DEF Found
    <3> QED
      BY <3>2, <3>3, FS_Subset, FS_CardinalityType
  <2> QED
    BY <1>2, <2>2 DEF Count
<1>4. m \in Nat /\ m <= MaxNumPorts
  <2>1. p \in Nat
    BY CountNat, NumPortsNat DEF Kind
  <2> QED
    BY <1>2, <2>1
<1>5. Plan(d)["pointers"] = Max(S)
  BY DEF Plan
<1> HIDE DEF p, m
<1>6. S = {num["bulk_in"], num["bulk_out"], num["int_in"], num["int_out"], m}
  BY DEF Kind
<1>7. S \in SUBSET Nat /\ \A x \in S : x <= MaxNumPorts
  BY <1>3, <1>4
<1>8. /\ num["bulk_in"] \in Nat /\ num["bulk_out"] \in Nat /\ num["int_in"] \in Nat
      /\ num["int_out"] \in Nat
  BY <1>3 DEF Kind
<1> HIDE DEF S, num
<1>9. Max(S) \in S
  BY <1>4, <1>6, <1>7, <1>8, MaxOf
<1> QED
  BY <1>5, <1>7, <1>9

(* Where a probe goes next.                                                *)
Same(new) == new.dev = probe.dev /\ new.num = probe.num
LEMMA ProbeMoves ==
  ASSUME Record, SetupNext
  PROVE  \/ probe' = probe
         \/ probe.at = "none" /\ probe'.at = "rejected"
         \/ /\ probe.at = "none" /\ probe'.at = "alloc"
            /\ \E d \in Device : probe'.dev = {Mended(d)} /\ probe'.num = Plan(d)
         \/ probe.at = "alloc" /\ probe'.at \in {"ready", "free"} /\ Same(probe')
         \/ probe.at = "ready" /\ probe'.at = "free" /\ Same(probe')
         \/ probe.at \in {"rejected", "free"} /\ probe'.at = "none"
<1>1. ASSUME NEW d \in Device, usb_serial_probe(d)
      PROVE  /\ probe.at = "none"
             /\ \/ probe'.at = "rejected"
                \/ probe'.at = "alloc" /\ probe'.dev = {Mended(d)} /\ probe'.num = Plan(d)
  <2>1. CASE probe' = [NoProbe EXCEPT !.at = "rejected", !.dev = {d}]
    BY <1>1, <2>1 DEF usb_serial_probe, NoProbe
  <2>2. CASE probe' = [at |-> "alloc", dev |-> {Mended(d)}, num |-> Plan(d), attached |-> FALSE]
    <3>1. probe'.at = "alloc" /\ probe'.dev = {Mended(d)} /\ probe'.num = Plan(d)
      BY <2>2
    <3> QED
      BY <1>1, <3>1 DEF usb_serial_probe
  <2> QED
    BY <1>1, <2>1, <2>2 DEF usb_serial_probe
<1>2. CASE Allocate
  <2>1. \/ probe' = probe
        \/ probe' = [probe EXCEPT !.at = "ready", !.attached = TRUE]
        \/ probe' = [probe EXCEPT !.at = "free"]
        \/ probe' = [probe EXCEPT !.at = "free", !.attached = TRUE]
    BY <1>2 DEF Allocate
  <2> QED
    BY <1>2, <2>1 DEF Allocate, Record, Same
<1>3. CASE Disconnect
  BY <1>3 DEF Disconnect, Record, Same, NoProbe
<1>4. CASE destroy_serial
  BY <1>4 DEF destroy_serial, NoProbe
<1>5. CASE UNCHANGED <<probe, got>>
  BY <1>5
<1> QED
  BY <1>1, <1>2, <1>3, <1>4, <1>5 DEF SetupNext, usb_serial_init, usb_serial_init_failed,
     usb_serial_exit, usb_serial_register_drivers, register_failed, usb_serial_deregister_drivers,
     RegisterNext, DeregisterNext, Modprobe

(* SetupStep.                                                              *)
LEMMA BoundedKept ==
  ASSUME Record, Bounded, SetupNext
  PROVE  Bounded'
  BY ProbeMoves, PlanBounded DEF Bounded, Same

LEMMA SetupKept ==
  ASSUME Record, Received, Chips, Sending, SetupStep
  PROVE  Received' /\ Chips' /\ Sending'
<1>1. SetupNext
  BY DEF SetupStep
<1>2. probe'.at \in {"alloc", "ready", "free"} => \E d \in Device : probe'.dev = {Mended(d)}
  BY <1>1, ProbeMoves DEF Chips, Same
<1>3. CASE probe.at = "free"
  <2>1. DataReset
    BY <1>3 DEF SetupStep
  <2>2. Received' /\ priv'.chip = "none"
    BY <2>1, FreshReceived
  <2>3. Sending'
    BY <2>1, SendingFresh DEF DataReset
  <2> QED
    BY <1>2, <2>2, <2>3 DEF Chips
<1>4. CASE probe.at # "free"
  <2>1. UNCHANGED data
    BY <1>4 DEF SetupStep
  <2>2. Received' /\ Sending' /\ priv' = priv
    BY <2>1, SendingSame DEF data, Received
  <2>3. priv.chip # "none" => probe'.at \in {"ready", "free"} /\ probe'.dev = probe.dev
    BY <1>1, <1>4, ProbeMoves DEF Chips, Same
  <2>4. priv.chip # "none" => TheDevice' = TheDevice
    BY <2>3 DEF TheDevice
  <2>5. priv.chip # "none" =>
           /\ Is(TheDevice, "ftdi_sio")' <=> Is(TheDevice, "ftdi_sio")
           /\ ftdi_set_max_packet_size(TheDevice)' = ftdi_set_max_packet_size(TheDevice)
           /\ ftdi_determine_type(TheDevice)' = ftdi_determine_type(TheDevice)
    <3>1. priv.chip # "none" =>
             /\ Is(TheDevice, "ftdi_sio")' <=> Is(TheDevice, "ftdi_sio")
             /\ ftdi_set_max_packet_size(TheDevice)' = ftdi_set_max_packet_size(TheDevice)
      BY <2>4 DEF Is, search_serial_device, ftdi_set_max_packet_size
    <3> QED
      BY <2>4, <3>1, TypeSame
  <2> QED
    BY <1>2, <2>2, <2>3, <2>5 DEF Chips
<1> QED
  BY <1>3, <1>4

-----------------------------------------------------------------------------
(* The theorems about the data.                                            *)

(* The inductive invariant: how the port was set up, what is received, and *)
(* what is sent.                                                           *)
PortInv == SetupInv /\ Bounded /\ Received /\ Chips /\ Sending

(* The invariant holds at first, and every step keeps it.                  *)
LEMMA PortInit == Init => PortInv
<1> SUFFICES ASSUME Init PROVE PortInv
  OBVIOUS
<1>1. SetupInv
  BY SetupInitInv DEF Init
<1>2. probe.at = "none" /\ priv = NoPriv
  BY DEF Init, SetupInit, NoProbe
<1>3. Bounded /\ Chips
  BY <1>2 DEF Bounded, Chips, NoPriv
<1>4. Received
  BY Fresh DEF Init, Received
<1>5. Sending
  BY NothingSent DEF Init, Sending
<1> QED
  BY <1>1, <1>3, <1>4, <1>5 DEF PortInv

(* The chip stays the chip.                                                *)
LEMMA ChipsKept ==
  ASSUME Chips, UNCHANGED setup, priv'.chip = priv.chip, priv'.max_packet_size = priv.max_packet_size
  PROVE  Chips'
<1>1. TheDevice' = TheDevice /\ probe' = probe
  BY DEF TheDevice, setup
<1>2. /\ Is(TheDevice, "ftdi_sio")' <=> Is(TheDevice, "ftdi_sio")
      /\ ftdi_set_max_packet_size(TheDevice)' = ftdi_set_max_packet_size(TheDevice)
      /\ ftdi_determine_type(TheDevice)' = ftdi_determine_type(TheDevice)
  <2>1. /\ Is(TheDevice, "ftdi_sio")' <=> Is(TheDevice, "ftdi_sio")
        /\ ftdi_set_max_packet_size(TheDevice)' = ftdi_set_max_packet_size(TheDevice)
    BY <1>1 DEF Is, search_serial_device, ftdi_set_max_packet_size
  <2> QED
    BY <1>1, <2>1, TypeSame
<1> QED
  BY <1>1, <1>2 DEF Chips

(* The size of the packets the loop takes apart is the device's, not 0.    *)
LEMMA Sized ==
  ASSUME OneSize, Chips, priv.chip \notin {"none", "pl2303"}
  PROVE  DeviceSize \in Nat \ {0} /\ priv.max_packet_size = DeviceSize
<1>1. /\ Is(TheDevice, "ftdi_sio") /\ priv.max_packet_size = ftdi_set_max_packet_size(TheDevice)
      /\ probe.at \in {"ready", "free"}
  BY DEF Chips
<1>2. PICK d \in Device : probe.dev = {Mended(d)}
  BY <1>1 DEF Chips
<1>3. TheDevice = Mended(d)
  BY <1>2 DEF TheDevice
<1> QED
  BY <1>1, <1>3, SizeRight

(* The packets of an SIO are small.                                        *)
LEMMA SioSized ==
  ASSUME OneSize, Chips, priv.chip = "SIO"
  PROVE  priv.max_packet_size <= 64
<1>1. /\ Is(TheDevice, "ftdi_sio") /\ priv.max_packet_size = ftdi_set_max_packet_size(TheDevice)
      /\ ftdi_determine_type(TheDevice) = "SIO" /\ probe.at \in {"ready", "free"}
  BY DEF Chips
<1>2. PICK d \in Device : probe.dev = {Mended(d)}
  BY <1>1 DEF Chips
<1>3. TheDevice = Mended(d)
  BY <1>2 DEF TheDevice
<1>4. d \in [id : STRING, eps : Seq(Endpoint), other : Seq(Endpoint), number : Nat,
             interfaces : Nat, version : Nat, jtag_board : BOOLEAN]
  BY SetupAssumption
<1>5. /\ Mended(d).id = d.id /\ Mended(d).interfaces = d.interfaces
      /\ Mended(d).version = d.version
  BY <1>4 DEF Mended, ftdi_mtxorb_hack_setup
<1>6. Is(d, "ftdi_sio") /\ ftdi_determine_type(d) = "SIO"
  <2>1. Is(d, "ftdi_sio")
    BY <1>1, <1>3, <1>5 DEF Is, search_serial_device
  <2>2. PICK t : t = Mended(d)
    OBVIOUS
  <2>3. ftdi_determine_type(t) = ftdi_determine_type(d)
    <3>1. t.interfaces = d.interfaces /\ t.version = d.version
      BY <1>5, <2>2
    <3> QED
      BY ONLY <3>1 DEF ftdi_determine_type
  <2> QED
    BY <1>1, <1>3, <2>1, <2>2, <2>3
<1>7. \A i \in DOMAIN d.eps : d.eps[i].maxp <= 64
  BY <1>6, SioAssumption
<1>8. /\ Len(Mended(d).eps) = Len(d.eps)
      /\ \A i \in DOMAIN d.eps : Size(Mended(d).eps[i].maxp) = Size(d.eps[i].maxp)
  BY MendedIs
<1>9. Len(d.eps) \in DOMAIN d.eps
  <2>1. Found(d, "bulk_in") # {} /\ Found(d, "bulk_in") \subseteq DOMAIN d.eps
    BY <1>6 DEF OneSize, Found, Endpoints
  <2>2. d.eps \in Seq(Endpoint)
    BY <1>4
  <2> QED
    BY <2>1, <2>2
<1>10. priv.max_packet_size = Size(Mended(d).eps[Len(Mended(d).eps)].maxp)
  BY <1>1, <1>3 DEF ftdi_set_max_packet_size, Size
<1>11. priv.max_packet_size = Size(d.eps[Len(d.eps)].maxp)
  BY <1>8, <1>9, <1>10
<1> QED
  BY <1>7, <1>9, <1>11, SioAssumption DEF Size

LEMMA PortStep ==
  ASSUME OneSize, PortInv, [Next]_vars
  PROVE  PortInv'
<1>1. [SetupNext]_setup
  BY DEF Next, vars, SetupStep, PortProbed, ftdi_process_read_urb, pl2303_read_int_callback,
     pl2303_process_read_urb, Write, ftdi_prepare_write_buffer, setup
<1>2. SetupInv' /\ Record
  BY <1>1, SetupStepInv DEF PortInv, SetupInv, Allocated
<1>3. Bounded'
  <2>1. CASE SetupNext
    BY <1>2, <2>1, BoundedKept DEF PortInv
  <2>2. CASE UNCHANGED setup
    BY <2>2 DEF Bounded, setup, PortInv
  <2> QED
    BY <1>1, <2>1, <2>2
<1>4. Received /\ Chips /\ Sending
  BY DEF PortInv
<1>5. CASE SetupStep
  BY <1>2, <1>3, <1>4, <1>5, SetupKept DEF PortInv
<1>6. CASE PortProbed
  <2>1. Received' /\ Chips'
    BY <1>4, <1>6, ProbeKept DEF PortInv
  <2>2. write_fifo' = <<>> /\ out' = <<>> /\ written' = 0
    BY <1>4, <1>6 DEF PortProbed, Sending
  <2> QED
    BY <1>2, <1>3, <2>1, <2>2, SendingFresh DEF PortInv
<1>7. ASSUME NEW ps \in Batches, Working, Ftdi, ftdi_process_read_urb(ps)
      PROVE  PortInv'
  <2>1. priv.chip \notin {"none", "pl2303"}
    BY <1>7 DEF Working, Ftdi
  <2>2. Received' /\ priv'.chip = priv.chip /\ priv'.max_packet_size = priv.max_packet_size
    BY <1>4, <1>7, <2>1, Sized, UrbReceived, DataAssumption
  <2>3. UNCHANGED <<write_fifo, out, written>> /\ UNCHANGED setup
    BY <1>7 DEF ftdi_process_read_urb
  <2> QED
    BY <1>2, <1>3, <1>4, <2>2, <2>3, SendingSame, ChipsKept DEF PortInv
<1>8. ASSUME NEW line \in Status, NEW short \in BOOLEAN, NEW again \in BOOLEAN,
             pl2303_read_int_callback(line, short, again)
      PROVE  PortInv'
  <2>1. Received' /\ priv'.chip = priv.chip /\ priv'.max_packet_size = priv.max_packet_size
    BY <1>4, <1>8, IntKept, DataAssumption
  <2>2. UNCHANGED <<write_fifo, out, written>> /\ UNCHANGED setup
    BY <1>8 DEF pl2303_read_int_callback
  <2> QED
    BY <1>2, <1>3, <1>4, <2>1, <2>2, SendingSame, ChipsKept DEF PortInv
<1>9. ASSUME NEW bytes \in {<<>>, <<{}>>}, pl2303_process_read_urb(bytes)
      PROVE  PortInv'
  <2>1. Received' /\ priv'.chip = priv.chip /\ priv'.max_packet_size = priv.max_packet_size
    BY <1>4, <1>9, BulkKept
  <2>2. UNCHANGED <<write_fifo, out, written>> /\ UNCHANGED setup
    BY <1>9 DEF pl2303_process_read_urb
  <2> QED
    BY <1>2, <1>3, <1>4, <2>1, <2>2, SendingSame, ChipsKept DEF PortInv
<1>10. ASSUME NEW n \in WriteSize, Write(n) PROVE PortInv'
  <2>1. n \in Nat
    BY DataAssumption
  <2>2. Sending' /\ Received' /\ priv' = priv
    BY <1>4, <1>10, <2>1, WriteKept
  <2>3. UNCHANGED setup
    BY <1>10 DEF Write
  <2> QED
    BY <1>2, <1>3, <1>4, <2>2, <2>3, ChipsKept DEF PortInv
<1>11. CASE ftdi_prepare_write_buffer
  <2>1. priv.chip = "SIO" => priv.max_packet_size \in Nat \ {0} /\ priv.max_packet_size <= 64
    BY <1>4, Sized, SioSized
  <2>2. Sending' /\ Received' /\ priv' = priv
    BY <1>4, <1>11, <2>1, PrepareKept, DataAssumption
  <2>3. UNCHANGED setup
    BY <1>11 DEF ftdi_prepare_write_buffer
  <2> QED
    BY <1>2, <1>3, <1>4, <2>2, <2>3, ChipsKept DEF PortInv
<1>12. CASE UNCHANGED vars
  <2>1. UNCHANGED data /\ UNCHANGED setup
    BY <1>12 DEF vars
  <2>2. Received' /\ Sending' /\ priv' = priv
    BY <1>4, <2>1, SendingSame DEF data, Received
  <2> QED
    BY <1>2, <1>3, <1>4, <2>1, <2>2, ChipsKept DEF PortInv
<1> QED
  BY <1>5, <1>6, <1>7, <1>8, <1>9, <1>10, <1>11, <1>12 DEF Next

(* The inductive invariant holds in every state, if FTDI devices have a    *)
(* bulk in endpoint and all their endpoints one size                       *)
(* (ftdi_set_max_packet_size takes the size from the last one).            *)
THEOREM PortInductive == OneSize => (Spec => []PortInv)
<1> SUFFICES ASSUME OneSize PROVE Spec => []PortInv
  OBVIOUS
<1>1. PortInv /\ [Next]_vars => PortInv'
  BY PortStep
<1> QED
  BY <1>1, PortInit, PTL DEF Spec

(* The invariant has the types in it.                                      *)
LEMMA PortTypes == OneSize /\ PortInv => TypeOK
<1> SUFFICES ASSUME OneSize, PortInv PROVE TypeOK
  OBVIOUS
<1>1. SetupInv /\ Bounded /\ Received /\ Chips
  BY DEF PortInv
<1>2. priv.chip \notin {"none", "pl2303"} => priv.max_packet_size \in Nat \ {0}
  BY <1>1, Sized
<1>3. pushed \in 0 .. Len(tty) /\ \A c \in DOMAIN icount : icount[c] \in Nat
  BY <1>1 DEF Received, Counts
<1>4. ASSUME NEW r \in got PROVE r.port \in 0 .. MaxNumPorts
  <2>1. /\ probe.at \in {"alloc", "ready", "free"} /\ Covers(probe.num)
        /\ got \subseteq create_serial \union Wanted \union port_probe
    BY <1>1, <1>4 DEF SetupInv, Allocated
  <2>2. probe.num["pointers"] <= MaxNumPorts /\ probe.num["pointers"] \in Nat /\ MaxNumPorts \in Nat
    BY <1>1, <2>1, SetupAssumption DEF Bounded, Covers
  <2>3. CASE r \in create_serial
    BY <2>2, <2>3 DEF create_serial, Res
  <2>4. CASE r \in Wanted
    <3>1. r.port \in Nat /\ r.port <= probe.num["pointers"]
      BY <2>1, <2>4, WantedIs
    <3> QED
      BY <2>2, <3>1
  <2>5. CASE r \in port_probe
    BY <2>5, PrivateIs, SetupAssumption
  <2> QED
    BY <2>1, <2>3, <2>4, <2>5
<1> QED
  BY <1>2, <1>3, <1>4 DEF TypeOK

(* What the packets of a device carry is told apart, whatever packets it   *)
(* sends, one or two in an urb: the tty gets each byte once, in order and  *)
(* with its error, and a change of CTS or DCD is counted once              *)
(* (ftdi_process_packet, ftdi_process_read_urb, pl2303_process_read_urb,   *)
(* pl2303_update_line_status); the loop has a step that is not 0, and no   *)
(* index reaches the end of the arrays.                                    *)
THEOREM ReceivedRightHolds == OneSize => (Spec => []ReceivedRight)
<1> SUFFICES ASSUME OneSize PROVE Spec => []ReceivedRight
  OBVIOUS
<1>1. PortInv => ReceivedRight
  <2> SUFFICES ASSUME PortInv PROVE ReceivedRight
    OBVIOUS
  <2>1. Received
    BY DEF PortInv
  <2>2. DataIntact /\ ChangesCounted
    BY <2>1 DEF Received, OnlyOverruns, DataIntact, ChangesCounted
  <2> QED
    BY <2>2, PortTypes DEF ReceivedRight
<1> QED
  BY <1>1, PortInductive, PTL

(* What programs write is what the device is given, once and in order,     *)
(* whatever the sizes of the writes, of the buffer and of the packets, at  *)
(* most 64 for an SIO: the buffer may be any number of frames, and the     *)
(* last one shorter (ftdi_prepare_write_buffer).                           *)
THEOREM WriteFramedHolds == OneSize => (Spec => []WriteFramed)
<1> SUFFICES ASSUME OneSize PROVE Spec => []WriteFramed
  OBVIOUS
<1>1. PortInv => WriteFramed
  BY WriteFramedIs DEF PortInv, Sending
<1> QED
  BY <1>1, PortInductive, PTL
=============================================================================
