--------------------------- MODULE UsbSerialProofs ---------------------------
(***************************************************************************)
(* Theorems about UsbSerial, for every set of threads, every number of     *)
(* devices and of ports, and any order of the steps: references are exact, *)
(* nothing that is freed or unloaded is used, and a port is open only on a *)
(* device that is bound and awake.                                         *)
(***************************************************************************)
EXTENDS UsbSerial, FiniteSetTheorems, TLAPS

(* The object an actor is at work on.                                      *)
Its(a) == serial[pc[a].s]

-----------------------------------------------------------------------------
(* The inductive invariant.                                                *)

Destroying(a) == pc[a].at \in {"destroy", "free"}

(* Where an actor can be.  No thread destroys an object: the put under     *)
(* disc_mutex is never the last.                                           *)
Places == /\ \A t \in Thread : /\ pc[t].at \in ThreadPlaces
                               /\ pc[t].hung => pc[t].at \in {"running", "drain", "close"}
                               /\ pc[t].at \in {"find", "get"} => pc[t].then \in {"install", "put"}
                               /\ pc[t].at = "install" => pc[t].then = "install"
          /\ pc["hub"].at \in HubPlaces
          /\ Destroying("hub") => pc["hub"].then \in {"idle", "module_put"}
          /\ pc["worker"].at \in WorkerPlaces
          /\ Destroying("worker") => pc["worker"].then = "module_put"

(* The counts are exact, of an object that is being destroyed or gone too. *)
Refs(s) == Installed(PortsOf(s)) + Cardinality(LookupsOf(s))
           + One(CleaningUp(s)) + One(serial[s].bound \/ Probing(s))

Counts == /\ \A s \in Serial : /\ serial[s].kref = Refs(s)
                               /\ serial[s].kref > 0 => serial[s].mem = "alive"
          /\ ModuleRefsExact

(* One actor destroys an object, to which there are no references, and     *)
(* which has no minors when it is freed.                                   *)
Destroyers == /\ \A a \in {"hub", "worker"} : Destroying(a) =>
                    /\ Its(a).mem = "alive" /\ Its(a).kref = 0
                    /\ pc[a].at = "free" => ~Its(a).minors_reserved
              /\ Destroying("hub") /\ Destroying("worker") => pc["hub"].s # pc["worker"].s

(* A port has one number, from allocate_minors to destroy_serial; an       *)
(* object in the table that is not disconnected is bound.                  *)
Numbers == \A m \in Minor : serial_minors[m] # NULL =>
              LET s == serial_minors[m][1]
              IN  /\ serial[s].mem = "alive" /\ serial[s].minors_reserved
                  /\ serial_minors[m][2] <= serial[s].num_ports
                  /\ ~serial[s].disconnected => serial[s].bound
                  /\ \A n \in Minor : serial_minors[n] = serial_minors[m] => n = m

(* Who waits for disc_mutex has table_lock; who has disc_mutex found the   *)
(* object connected, and it stays so.                                      *)
Holding(t) == pc[t].at \in {"install", "put", "unlock", "drain"}
LocksOf(t) == /\ pc[t].at = "get" => table_lock = t
              /\ pc[t].at \in {"get", "install"} =>
                    PortOf(t) \in Port /\ serial_minors[pc[t].m] = PortOf(t)
              /\ Holding(t) => Its(t).disc_mutex = t /\ Its(t).bound /\ ~Its(t).disconnected
Locks == \A t \in Thread : LocksOf(t)

(* A tty counts its files, and is installed by one thread at a time.       *)
FilesAt(m) == {t \in Thread : pc[t].m = m /\ pc[t].at \in FilePlaces}
Ttys == /\ \A m \in Minor : ttys[m] # NULL => /\ serial_minors[m] = ttys[m].port
                                              /\ ttys[m].count = Cardinality(FilesAt(m))
        /\ \A t \in Thread : pc[t].at \in FilePlaces =>
              /\ ttys[pc[t].m] # NULL /\ ttys[pc[t].m].port = PortOf(t)
              /\ pc[t].at \in {"port_open", "activate"} => ttys[pc[t].m].lock = t
        /\ \A t \in Thread : Installing(t) =>
              /\ pc[t].at # "put" => ttys[pc[t].m] = NULL
              /\ \A u \in Thread : Installing(u) => t = u

(* A port counts the files that are not hung up.                           *)
Users(p) == {t \in Thread : /\ PortOf(t) = p /\ ~pc[t].hung
                            /\ pc[t].at \in {"activate", "running", "drain", "close"}}
Ports == \A p \in Port :
            /\ port[p].count = Cardinality(Users(p)) /\ (port[p].tty <=> Users(p) # {})
            /\ port[p].initialized => port[p].tty
            /\ port[p].open <=> port[p].initialized
            /\ port[p].urb => port[p].open
            /\ port[p].open \/ port[p].work => /\ serial[p[1]].bound
                                               /\ p[2] <= serial[p[1]].num_ports

(* usb_serial_probe has the only reference to its object; the ports that   *)
(* usb_serial_disconnect has been through stay down.                       *)
Quiet(p) == ~port[p].open /\ ~port[p].work
Hub == /\ pc["hub"].at \in {"attach", "minors", "register"} =>
            /\ Its("hub").mem = "alive" /\ Its("hub").kref = 1 /\ ~Its("hub").bound
            /\ Its("hub").pm = 0 /\ (Its("hub").disconnected <=> pc["hub"].at # "attach")
            /\ pc["hub"].at # "register" => ~Its("hub").minors_reserved
       /\ pc["hub"].at \in {"hangup", "poison", "cancel"} =>
            /\ Its("hub").bound /\ Its("hub").disconnected /\ pc["hub"].i >= 1
            /\ pc["hub"].at # "hangup" => pc["hub"].i <= Its("hub").num_ports
            /\ \A p \in PortsOf(pc["hub"].s) :
                   /\ p[2] < pc["hub"].i => Quiet(p)
                   /\ p = PortOf("hub") /\ pc["hub"].at # "hangup" => ~port[p].open

(* Each tty that is installed keeps the interface awake.                   *)
Power == \A s \in Serial : ~serial[s].disconnected =>
            /\ serial[s].pm = Installed(PortsOf(s))
            /\ serial[s].poisoned => serial[s].pm = 0

(* A module that is going has no references, and none that is gone is      *)
(* bound.                                                                  *)
Module == /\ module.state # "loaded" => module.refs = 0
          /\ module.state = "gone" => Bound = {} /\ pc["hub"].at = "idle"

IInv == /\ TypeOK /\ ~badAccess /\ Places /\ Counts /\ Destroyers /\ Numbers /\ Locks
        /\ Ttys /\ Ports /\ Hub /\ Power /\ Module

-----------------------------------------------------------------------------
(* Constants.                                                              *)

LEMMA Constant == /\ 1 \in Serial /\ 0 \in Minor /\ Serial \subseteq Nat /\ Minor \subseteq Nat
                  /\ "hub" \in Actor /\ "worker" \in Actor /\ Thread \subseteq Actor
                  /\ "hub" \notin Thread /\ "worker" \notin Thread
                  /\ Idle \in Place /\ NoSerial \in Object /\ NoPort \in TtyPort
<1>1. MaxSerial * MaxPorts - 1 \in Nat
  BY SerialAssumption
<1>2. 1 \in Serial /\ 0 \in Minor /\ Serial \subseteq Nat /\ Minor \subseteq Nat
  BY <1>1, SerialAssumption DEF Serial, Minor
<1>3. NoSerial \in Object /\ NoPort \in TtyPort
  <2>1. 0 \in 0 .. MaxPorts /\ NULL \in Actor \union {NULL} /\ 0 \in Nat
    BY SerialAssumption
  <2>2. NoPort \in TtyPort
    BY <2>1 DEF NoPort, TtyPort
  <2>3. NoSerial \in Object
    BY <2>1 DEF NoSerial, Object
  <2> QED
    BY <2>2, <2>3
<1>4. Idle \in Place
  BY <1>2 DEF Idle, Place, Where, ThreadPlaces, FilePlaces
<1> QED
  BY <1>2, <1>3, <1>4, SerialAssumption DEF Actor

LEMMA Finite == /\ IsFiniteSet(Minor) /\ IsFiniteSet(Port) /\ IsFiniteSet(Thread)
<1>1. MaxSerial * MaxPorts - 1 \in Int
  BY SerialAssumption
<1>2. IsFiniteSet(Minor) /\ IsFiniteSet(Serial) /\ IsFiniteSet(1 .. MaxPorts)
  BY <1>1, FS_Interval, SerialAssumption DEF Minor, Serial
<1>3. IsFiniteSet(Port)
  BY <1>2, FS_Product DEF Port
<1> QED
  BY <1>2, <1>3, SerialAssumption

(* A set that gains or loses one element.                                  *)
LEMMA OneMore ==
  ASSUME NEW A, IsFiniteSet(A), NEW x, x \notin A, NEW B, B = A \union {x}
  PROVE  IsFiniteSet(B) /\ Cardinality(B) = Cardinality(A) + 1
  BY FS_AddElement

LEMMA OneLess ==
  ASSUME NEW A, IsFiniteSet(A), NEW x \in A, NEW B, B = A \ {x}
  PROVE  IsFiniteSet(B) /\ Cardinality(B) = Cardinality(A) - 1
  BY FS_RemoveElement

LEMMA Empty ==
  ASSUME NEW A, IsFiniteSet(A)
  PROVE  /\ Cardinality(A) \in Nat /\ (Cardinality(A) = 0 <=> A = {})
         /\ \A x \in A : Cardinality(A) = 1 => A = {x}
<1>1. Cardinality(A) \in Nat /\ (Cardinality(A) = 0 <=> A = {})
  BY FS_CardinalityType, FS_EmptySet
<1>2. ASSUME NEW x \in A, Cardinality(A) = 1 PROVE A = {x}
  BY <1>2, FS_Singleton
<1> QED
  BY <1>1, <1>2

-----------------------------------------------------------------------------
(* The ttys that are installed on a set of ports.                          *)

LEMMA TtysFinite ==
  ASSUME NEW P
  PROVE  IsFiniteSet(TtysOn(P))
  BY Finite, FS_Subset DEF TtysOn

LEMMA DyingFinite ==
  ASSUME NEW P \in SUBSET Port, port \in [Port -> TtyPort]
  PROVE  IsFiniteSet(DyingOn(P))
<1> DEFINE f == [p \in P |-> {p} \X (1 .. port[p].dying)]
           S == {{p} \X (1 .. port[p].dying) : p \in P}
<1>1. IsFiniteSet(P)
  BY Finite, FS_Subset
<1>2. f \in Surjection(P, S)
  BY DEF Surjection
<1>3. IsFiniteSet(S)
  BY <1>1, <1>2, FS_Surjection
<1>4. ASSUME NEW p \in P PROVE IsFiniteSet({p} \X (1 .. port[p].dying))
  <2>1. port[p].dying \in Nat
    BY DEF TtyPort
  <2>2. IsFiniteSet({p}) /\ IsFiniteSet(1 .. port[p].dying)
    <3>1. IsFiniteSet({p})
      BY FS_Singleton, Zenon
    <3>2. 1 \in Int /\ port[p].dying \in Int
      BY <2>1
    <3> QED
      BY <3>1, <3>2, FS_Interval
  <2> QED
    BY <2>2, FS_Product
<1>5. \A T \in S : IsFiniteSet(T)
  BY <1>4
<1> HIDE DEF f, S
<1>6. IsFiniteSet(UNION S)
  BY <1>3, <1>5, FS_UNION
<1> QED
  BY <1>6 DEF S, DyingOn

LEMMA DyingIs ==
  ASSUME NEW P \in SUBSET Port, port \in [Port -> TtyPort]
  PROVE  \A x : x \in DyingOn(P) <=>
            \E p \in P : \E n \in Nat : x = <<p, n>> /\ 1 <= n /\ n <= port[p].dying
<1>1. \A p \in P : port[p].dying \in Nat
  BY DEF TtyPort
<1> QED
  BY <1>1 DEF DyingOn

SameTtys == \A m \in Minor : /\ ttys'[m] = NULL <=> ttys[m] = NULL
                             /\ ttys[m] # NULL => ttys'[m].port = ttys[m].port
SameDying == \A p \in Port : port'[p].dying = port[p].dying
PortsTyped == port \in [Port -> TtyPort] /\ port' \in [Port -> TtyPort]

LEMMA InstalledNat ==
  ASSUME NEW P \in SUBSET Port, port \in [Port -> TtyPort]
  PROVE  /\ Installed(P) \in Nat
         /\ \A m \in TtysOn(P) : Installed(P) > 0
         /\ \A p \in P : port[p].dying > 0 => Installed(P) > 0
<1> DEFINE A == TtysOn(P)  B == DyingOn(P)
<1>1. IsFiniteSet(A) /\ IsFiniteSet(B)
  BY TtysFinite, DyingFinite
<1>2. ASSUME NEW p \in P, port[p].dying > 0 PROVE B # {}
  <2>1. port[p].dying \in Nat
    BY DEF TtyPort
  <2>2. <<p, 1>> \in B
    BY <1>2, <2>1, DyingIs
  <2> QED
    BY <2>2
<1> HIDE DEF A, B
<1>3. /\ Cardinality(A) \in Nat /\ Cardinality(B) \in Nat
      /\ (A # {} => Cardinality(A) > 0) /\ (B # {} => Cardinality(B) > 0)
  BY <1>1, Empty
<1>4. Installed(P) = Cardinality(A) + Cardinality(B)
  BY DEF Installed, A, B
<1> QED
  BY <1>2, <1>3, <1>4 DEF A

LEMMA InstalledSame ==
  ASSUME NEW P \in SUBSET Port, PortsTyped, SameTtys, SameDying
  PROVE  Installed(P)' = Installed(P)
<1>1. TtysOn(P)' = TtysOn(P)
  BY DEF TtysOn, SameTtys
<1>2. DyingOn(P)' = DyingOn(P)
  BY DEF DyingOn, SameDying
<1> QED
  BY <1>1, <1>2 DEF Installed

LEMMA InstalledMore ==
  ASSUME NEW P \in SUBSET Port, PortsTyped, SameDying, NEW m \in Minor, ttys[m] = NULL,
         ttys'[m] # NULL, \A n \in Minor : n # m => ttys'[n] = ttys[n]
  PROVE  Installed(P)' = Installed(P) + One(ttys'[m].port \in P)
<1> DEFINE A == TtysOn(P)  B == TtysOn(P)'
<1>1. DyingOn(P)' = DyingOn(P)
  BY DEF DyingOn, SameDying
<1>2. IsFiniteSet(A) /\ m \notin A
  BY TtysFinite DEF TtysOn
<1>3. B = IF ttys'[m].port \in P THEN A \union {m} ELSE A
  BY DEF TtysOn
<1>4. Installed(P) \in Nat /\ Cardinality(A) \in Nat /\ Cardinality(DyingOn(P)) \in Nat
  BY <1>2, InstalledNat, Empty, DyingFinite DEF PortsTyped
<1>5. Installed(P)' = Cardinality(B) + Cardinality(DyingOn(P))
  BY <1>1 DEF Installed
<1>6. Installed(P) = Cardinality(A) + Cardinality(DyingOn(P))
  BY DEF Installed
<1> HIDE DEF A, B
<1>7. Cardinality(B) = Cardinality(A) + One(ttys'[m].port \in P)
  BY <1>2, <1>3, <1>4, OneMore DEF One
<1> QED
  BY <1>4, <1>5, <1>6, <1>7 DEF One

(* A port has one more tty, or one less, that waits for serial_cleanup.    *)
LEMMA DyingMore ==
  ASSUME NEW P \in SUBSET Port, PortsTyped, NEW p \in Port, port'[p].dying = port[p].dying + 1,
         \A q \in Port : q # p => port'[q].dying = port[q].dying
  PROVE  Cardinality(DyingOn(P))' = Cardinality(DyingOn(P)) + One(p \in P)
<1> DEFINE A == DyingOn(P)  B == DyingOn(P)'  d == port[p].dying
<1>1. IsFiniteSet(A) /\ d \in Nat
  BY DyingFinite DEF PortsTyped, TtyPort
<1>2. \A x : x \in A <=> \E q \in P : \E n \in Nat : x = <<q, n>> /\ 1 <= n /\ n <= port[q].dying
  BY DyingIs DEF PortsTyped
<1>3. \A x : x \in B <=> \E q \in P : \E n \in Nat : x = <<q, n>> /\ 1 <= n /\ n <= port'[q].dying
  <2>1. \A q \in P : port'[q].dying \in Nat
    BY DEF PortsTyped, TtyPort
  <2> QED
    BY <2>1 DEF DyingOn
<1>4. Cardinality(A) \in Nat
  BY <1>1, Empty
<1> HIDE DEF A, B
<1>5. CASE p \notin P
  <2>1. \A q \in P : port'[q].dying = port[q].dying
    BY <1>5
  <2>2. A = B
    BY <2>1 DEF A, B, DyingOn
  <2> QED
    BY <1>4, <1>5, <2>2 DEF A, B, One
<1>6. CASE p \in P
  <2>1. <<p, d + 1>> \notin A
    BY <1>1, <1>2
  <2>2. \A x \in A : x \in B
    <3>1. \A q \in P : \A n \in Nat : n <= port[q].dying => n <= port'[q].dying
      BY <1>1
    <3> QED
      BY <1>2, <1>3, <3>1
  <2>3. <<p, d + 1>> \in B
    BY <1>1, <1>3, <1>6
  <2>4. \A x \in B : x \in A \/ x = <<p, d + 1>>
    <3>1. \A q \in P : \A n \in Nat :
             n <= port'[q].dying => n <= port[q].dying \/ (q = p /\ n = d + 1)
      BY <1>1
    <3> QED
      BY <1>2, <1>3, <3>1
  <2>5. B = A \union {<<p, d + 1>>}
    BY <2>2, <2>3, <2>4
  <2>6. Cardinality(B) = Cardinality(A) + 1
    BY <1>1, <2>1, <2>5, OneMore
  <2> QED
    BY <1>6, <2>6 DEF A, B, One
<1> QED
  BY <1>5, <1>6

LEMMA DyingLess ==
  ASSUME NEW P \in SUBSET Port, PortsTyped, NEW p \in Port, port[p].dying > 0,
         port'[p].dying = port[p].dying - 1,
         \A q \in Port : q # p => port'[q].dying = port[q].dying
  PROVE  Cardinality(DyingOn(P))' = Cardinality(DyingOn(P)) - One(p \in P)
<1> DEFINE A == DyingOn(P)  B == DyingOn(P)'  d == port[p].dying
<1>1. IsFiniteSet(A) /\ d \in Nat
  BY DyingFinite DEF PortsTyped, TtyPort
<1>2. \A x : x \in A <=> \E q \in P : \E n \in Nat : x = <<q, n>> /\ 1 <= n /\ n <= port[q].dying
  BY DyingIs DEF PortsTyped
<1>3. \A x : x \in B <=> \E q \in P : \E n \in Nat : x = <<q, n>> /\ 1 <= n /\ n <= port'[q].dying
  <2>1. \A q \in P : port'[q].dying \in Nat
    BY DEF PortsTyped, TtyPort
  <2> QED
    BY <2>1 DEF DyingOn
<1>4. Cardinality(A) \in Nat
  BY <1>1, Empty
<1> HIDE DEF A, B
<1>5. CASE p \notin P
  <2>1. \A q \in P : port'[q].dying = port[q].dying
    BY <1>5
  <2>2. A = B
    BY <2>1 DEF A, B, DyingOn
  <2> QED
    BY <1>4, <1>5, <2>2 DEF A, B, One
<1>6. CASE p \in P
  <2>1. <<p, d>> \in A
    BY <1>1, <1>2, <1>6
  <2>2. \A x \in B : x \in A
    <3>1. \A q \in P : \A n \in Nat : n <= port'[q].dying => n <= port[q].dying
      BY <1>1
    <3> QED
      BY <1>2, <1>3, <3>1
  <2>3. <<p, d>> \notin B
    BY <1>1, <1>3
  <2>4. \A x \in A : x \in B \/ x = <<p, d>>
    <3>1. \A q \in P : \A n \in Nat :
             n <= port[q].dying => n <= port'[q].dying \/ (q = p /\ n = d)
      BY <1>1
    <3> QED
      BY <1>2, <1>3, <3>1
  <2>5. B = A \ {<<p, d>>}
    BY <2>2, <2>3, <2>4
  <2>6. Cardinality(B) = Cardinality(A) - 1
    BY <1>1, <2>1, <2>5, OneLess
  <2> QED
    BY <1>6, <2>6 DEF A, B, One
<1> QED
  BY <1>5, <1>6

(* serial_close, with the last count of the tty.                           *)
LEMMA InstalledClosed ==
  ASSUME NEW P \in SUBSET Port, PortsTyped, NEW m \in Minor, ttys[m] # NULL, ttys'[m] = NULL,
         \A n \in Minor : n # m => ttys'[n] = ttys[n],
         NEW p \in Port, ttys[m].port = p, port'[p].dying = port[p].dying + 1,
         \A q \in Port : q # p => port'[q].dying = port[q].dying
  PROVE  Installed(P)' = Installed(P)
<1> DEFINE A == TtysOn(P)  B == TtysOn(P)'
<1>1. Cardinality(DyingOn(P))' = Cardinality(DyingOn(P)) + One(p \in P)
  BY DyingMore
<1>2. IsFiniteSet(A) /\ B = A \ {m} /\ (m \in A <=> p \in P)
  BY TtysFinite DEF TtysOn
<1>3. Cardinality(A) \in Nat /\ Cardinality(DyingOn(P)) \in Nat
  BY <1>2, Empty, DyingFinite DEF PortsTyped
<1>4. Installed(P)' = Cardinality(B) + Cardinality(DyingOn(P))'
  BY DEF Installed
<1>5. Installed(P) = Cardinality(A) + Cardinality(DyingOn(P))
  BY DEF Installed
<1> HIDE DEF A, B
<1>6. CASE p \in P
  <2>1. Cardinality(B) = Cardinality(A) - 1
    BY <1>2, <1>6, OneLess
  <2> QED
    BY <1>1, <1>3, <1>4, <1>5, <1>6, <2>1 DEF One
<1>7. CASE p \notin P
  <2>1. B = A
    BY <1>2, <1>7
  <2> QED
    BY <1>1, <1>3, <1>4, <1>5, <1>7, <2>1 DEF One
<1> QED
  BY <1>6, <1>7

(* serial_cleanup.                                                         *)
LEMMA InstalledLess ==
  ASSUME NEW P \in SUBSET Port, PortsTyped, SameTtys, NEW p \in Port, port[p].dying > 0,
         port'[p].dying = port[p].dying - 1,
         \A q \in Port : q # p => port'[q].dying = port[q].dying
  PROVE  Installed(P)' = Installed(P) - One(p \in P)
<1>1. TtysOn(P)' = TtysOn(P)
  BY DEF TtysOn, SameTtys
<1>2. Cardinality(DyingOn(P))' = Cardinality(DyingOn(P)) - One(p \in P)
  BY DyingLess
<1>3. Cardinality(TtysOn(P)) \in Nat /\ Cardinality(DyingOn(P)) \in Nat
  BY TtysFinite, Empty, DyingFinite DEF PortsTyped
<1> QED
  BY <1>1, <1>2, <1>3 DEF Installed, One

-----------------------------------------------------------------------------
(* What the invariant says of one actor, one object or one port.           *)

LEMMA Typed ==
  ASSUME TypeOK
  PROVE  /\ \A a \in Actor : /\ pc[a] \in Place /\ pc[a].s \in Serial /\ pc[a].m \in Minor
                             /\ pc[a].i \in Nat /\ Its(a) \in Object
         /\ \A s \in Serial : serial[s] \in Object
         /\ \A p \in Port : port[p] \in TtyPort /\ p[1] \in Serial /\ p[2] \in Nat
                            /\ p = <<p[1], p[2]>> /\ p \in PortsOf(p[1])
         /\ \A m \in Minor : /\ serial_minors[m] # NULL => serial_minors[m] \in Port
                             /\ ttys[m] # NULL => ttys[m] \in Tty
         /\ \A s \in Serial : PortsOf(s) \in SUBSET Port
<1>1. \A a \in Actor : pc[a] \in Place /\ pc[a].s \in Serial /\ pc[a].m \in Minor /\ pc[a].i \in Nat
  BY DEF TypeOK, Place
<1>2. \A s \in Serial : serial[s] \in Object
  BY DEF TypeOK
<1>3. \A m \in Minor : /\ serial_minors[m] # NULL => serial_minors[m] \in Port
                       /\ ttys[m] # NULL => ttys[m] \in Tty
  BY DEF TypeOK
<1>4. \A p \in Port : p[1] \in Serial /\ p[2] \in Nat /\ p = <<p[1], p[2]>> /\ p \in PortsOf(p[1])
  BY DEF Port, PortsOf
<1>5. \A p \in Port : port[p] \in TtyPort
  BY DEF TypeOK
<1> QED
  BY <1>1, <1>2, <1>3, <1>4, <1>5 DEF Its, PortsOf

LEMMA RefsParts ==
  ASSUME TypeOK, Counts, NEW s \in Serial
  PROVE  /\ Installed(PortsOf(s)) \in Nat /\ Cardinality(LookupsOf(s)) \in Nat
         /\ serial[s].kref = Installed(PortsOf(s)) + Cardinality(LookupsOf(s))
                             + One(CleaningUp(s)) + One(serial[s].bound \/ Probing(s))
         /\ serial[s].kref \in Nat /\ (serial[s].kref > 0 => serial[s].mem = "alive")
         /\ IsFiniteSet(LookupsOf(s))
<1>1. Installed(PortsOf(s)) \in Nat
  BY InstalledNat DEF TypeOK, PortsOf
<1>2. IsFiniteSet(LookupsOf(s))
  BY Finite, FS_Subset DEF LookupsOf
<1>3. Cardinality(LookupsOf(s)) \in Nat
  BY <1>2, Empty
<1>4. serial[s].kref \in Nat
  BY DEF TypeOK, Object
<1> QED
  BY <1>1, <1>2, <1>3, <1>4 DEF Counts, Refs

LEMMA ModuleParts ==
  ASSUME TypeOK, Counts
  PROVE  /\ Installed(Port) \in Nat /\ module.refs \in Nat
         /\ module.refs = Installed(Port) + One(pc["worker"].at # "idle") + One(ProbeHoldsModule)
<1>1. Installed(Port) \in Nat
  BY InstalledNat DEF TypeOK
<1> QED
  BY <1>1 DEF Counts, ModuleRefsExact, TypeOK

(* The references there are to an object.                                  *)
LEMMA Referenced ==
  ASSUME TypeOK, Counts, NEW s \in Serial
  PROVE  /\ \A m \in Minor : ttys[m] # NULL /\ ttys[m].port[1] = s => Installed(PortsOf(s)) > 0
         /\ \A p \in Port : port[p].dying > 0 /\ p[1] = s => Installed(PortsOf(s)) > 0
         /\ \A t \in LookupsOf(s) : Cardinality(LookupsOf(s)) > 0
<1>1. PortsOf(s) \in SUBSET Port
  BY Typed
<1>2. \A m \in Minor : ttys[m] # NULL /\ ttys[m].port[1] = s => m \in TtysOn(PortsOf(s))
  <2>1. \A m \in Minor : ttys[m] # NULL => ttys[m].port \in Port
    BY Typed DEF Tty
  <2> QED
    BY <2>1 DEF TtysOn, PortsOf
<1>3. \A p \in Port : p[1] = s => p \in PortsOf(s)
  BY DEF PortsOf
<1>4. \A t \in LookupsOf(s) : Cardinality(LookupsOf(s)) > 0
  BY RefsParts, Empty
<1>5. port \in [Port -> TtyPort]
  BY DEF TypeOK
<1> QED
  BY <1>1, <1>2, <1>3, <1>4, <1>5, InstalledNat

(* ... and to the module.                                                  *)
LEMMA ModuleHeld ==
  ASSUME TypeOK, Counts, Module
  PROVE  /\ \A m \in Minor : ttys[m] # NULL => module.state = "loaded" /\ module.refs > 0
         /\ \A p \in Port : port[p].dying > 0 => module.state = "loaded" /\ module.refs > 0
         /\ pc["worker"].at # "idle" => module.state = "loaded" /\ module.refs > 0
         /\ ProbeHoldsModule => module.state = "loaded" /\ module.refs > 0
<1>1. \A m \in Minor : ttys[m] # NULL => m \in TtysOn(Port)
  BY Typed DEF TtysOn, Tty
<1>2. \A m \in Minor : ttys[m] # NULL => Installed(Port) > 0
  BY <1>1, InstalledNat DEF TypeOK
<1>3. \A p \in Port : port[p].dying > 0 => Installed(Port) > 0
  BY InstalledNat DEF TypeOK
<1> QED
  BY <1>2, <1>3, ModuleParts DEF Module, One

(* A thread with a tty: the tty, the port and the object are there.        *)
LEMMA FileHas ==
  ASSUME IInv, NEW t \in Thread, pc[t].at \in FilePlaces
  PROVE  /\ ttys[pc[t].m] \in Tty /\ ttys[pc[t].m] # NULL /\ ttys[pc[t].m].port = PortOf(t)
         /\ serial_minors[pc[t].m] = PortOf(t) /\ PortOf(t) \in Port
         /\ Its(t).mem = "alive" /\ (~Its(t).disconnected => Its(t).bound)
         /\ pc[t].i <= Its(t).num_ports /\ pc[t].i \in Nat
         /\ module.state = "loaded" /\ module.refs > 0
<1>1. t \in Actor /\ pc[t].m \in Minor /\ pc[t].i \in Nat /\ TypeOK /\ Counts /\ Module
  BY Constant, Typed DEF IInv
<1>2. /\ ttys[pc[t].m] \in Tty /\ ttys[pc[t].m] # NULL /\ ttys[pc[t].m].port = PortOf(t)
      /\ serial_minors[pc[t].m] = PortOf(t)
  BY <1>1, Typed DEF IInv, Ttys
<1>3. PortOf(t) \in Port
  BY <1>2 DEF Tty
<1>4. module.state = "loaded" /\ module.refs > 0
  BY <1>1, <1>2, ModuleHeld
<1>5. PortOf(t)[1] = pc[t].s /\ PortOf(t)[2] = pc[t].i /\ PortOf(t) # NULL
  BY <1>3, SerialAssumption DEF PortOf
<1>6. /\ Its(t).mem = "alive" /\ (~Its(t).disconnected => Its(t).bound)
      /\ pc[t].i <= Its(t).num_ports
  BY <1>1, <1>2, <1>5 DEF IInv, Numbers, Its
<1> QED
  BY <1>1, <1>2, <1>3, <1>4, <1>6

(* While usb_serial_probe runs, nobody else has a reference.               *)
LEMMA ProbingAlone ==
  ASSUME IInv, pc["hub"].at \in {"attach", "minors", "register"}, NEW s \in Serial, s = pc["hub"].s
  PROVE  /\ Installed(PortsOf(s)) = 0 /\ Cardinality(LookupsOf(s)) = 0 /\ ~CleaningUp(s)
         /\ \A m \in Minor : ttys[m] # NULL => ttys[m].port[1] # s
         /\ \A p \in Port : p[1] = s => port[p].dying = 0
         /\ \A t \in Thread : pc[t].at \in {"install", "put"} => pc[t].s # s
<1>1. Probing(s) /\ serial[s].kref = 1
  BY DEF Probing, IInv, Hub, Its
<1>2. TypeOK /\ Counts
  BY DEF IInv
<1>3. Installed(PortsOf(s)) = 0 /\ Cardinality(LookupsOf(s)) = 0 /\ ~CleaningUp(s)
  BY <1>1, <1>2, RefsParts DEF One
<1>4. \A p \in Port : port[p].dying \in Nat
  BY <1>2 DEF TypeOK, TtyPort
<1>5. LookupsOf(s) = {}
  BY <1>2, <1>3, RefsParts, Empty
<1> QED
  BY <1>2, <1>3, <1>4, <1>5, Referenced DEF LookupsOf

(* Nobody has a reference to an object that is being destroyed.            *)
LEMMA DestroyingAlone ==
  ASSUME IInv, NEW a \in Actor, Destroying(a), NEW s \in Serial, s = pc[a].s
  PROVE  /\ serial[s].mem = "alive" /\ serial[s].kref = 0
         /\ Installed(PortsOf(s)) = 0 /\ Cardinality(LookupsOf(s)) = 0
         /\ ~CleaningUp(s) /\ ~serial[s].bound /\ ~Probing(s)
         /\ \A m \in Minor : ttys[m] # NULL => ttys[m].port[1] # s
         /\ \A p \in Port : p[1] = s => port[p].dying = 0
         /\ \A t \in Thread : pc[t].at \in {"install", "put"} => pc[t].s # s
<1>1. serial[s].mem = "alive" /\ serial[s].kref = 0
  <2>1. a \in {"hub", "worker"}
    BY DEF IInv, Places, Destroying, ThreadPlaces, FilePlaces, Actor
  <2> QED
    BY <2>1 DEF IInv, Destroyers, Its
<1>2. TypeOK /\ Counts
  BY DEF IInv
<1>3. /\ Installed(PortsOf(s)) = 0 /\ Cardinality(LookupsOf(s)) = 0
      /\ ~CleaningUp(s) /\ ~serial[s].bound /\ ~Probing(s)
  <2>1. One(CleaningUp(s)) \in {0, 1} /\ One(serial[s].bound \/ Probing(s)) \in {0, 1}
    BY DEF One
  <2>2. /\ Installed(PortsOf(s)) = 0 /\ Cardinality(LookupsOf(s)) = 0
        /\ One(CleaningUp(s)) = 0 /\ One(serial[s].bound \/ Probing(s)) = 0
    BY <1>1, <1>2, <2>1, RefsParts
  <2> QED
    BY <2>2 DEF One
<1>4. \A p \in Port : port[p].dying \in Nat
  BY <1>2 DEF TypeOK, TtyPort
<1>5. LookupsOf(s) = {}
  BY <1>2, <1>3, RefsParts, Empty
<1> QED
  BY <1>1, <1>2, <1>3, <1>4, <1>5, Referenced DEF LookupsOf

(* A thread with disc_mutex and a reference is not the last to have one.   *)
LEMMA LookupHas ==
  ASSUME IInv, NEW t \in Thread, pc[t].at \in {"install", "put"}
  PROVE  /\ Its(t).mem = "alive" /\ Its(t).kref > 1 /\ Its(t).kref > 0 /\ Its(t).kref # 1
         /\ Its(t).bound /\ ~Its(t).disconnected
         /\ Its(t).disc_mutex = t
<1>1. t \in Actor /\ pc[t].s \in Serial /\ TypeOK /\ Counts /\ Locks
  BY Constant, Typed DEF IInv
<1>2. Its(t).bound /\ ~Its(t).disconnected /\ Its(t).disc_mutex = t
  BY <1>1 DEF Locks, LocksOf, Holding
<1>3. t \in LookupsOf(pc[t].s)
  BY DEF LookupsOf
<1>4. Cardinality(LookupsOf(pc[t].s)) > 0
  BY <1>1, <1>3, Referenced
<1> QED
  BY <1>1, <1>2, <1>4, RefsParts DEF Its, One

LEMMA BoundAlive ==
  ASSUME IInv, NEW s \in Serial, serial[s].bound
  PROVE  serial[s].mem = "alive" /\ serial[s].kref > 0 /\ module.state # "gone" /\ ~Probing(s)
<1>1. TypeOK /\ Counts
  BY DEF IInv
<1>2. module.state # "gone" /\ ~Probing(s)
  BY DEF IInv, Module, Bound, Hub, Probing, Its
<1>3. One(serial[s].bound \/ Probing(s)) = 1 /\ One(CleaningUp(s)) \in {0, 1}
  BY DEF One
<1> QED
  BY <1>1, <1>2, <1>3, RefsParts

LEMMA CleaningUpHas ==
  ASSUME IInv, pc["worker"].at = "cleanup"
  PROVE  Its("worker").mem = "alive" /\ Its("worker").kref > 0
<1>1. TypeOK /\ Counts /\ pc["worker"].s \in Serial
  BY Constant, Typed DEF IInv
<1>2. CleaningUp(pc["worker"].s)
  BY DEF CleaningUp
<1> QED
  BY <1>1, <1>2, RefsParts DEF One, Its

(* A thread with an entry of the table, under table_lock or disc_mutex.    *)
LEMMA LookupFinds ==
  ASSUME IInv, NEW t \in Thread, pc[t].at \in {"get", "install"}
  PROVE  /\ PortOf(t) \in Port /\ serial_minors[pc[t].m] = PortOf(t)
         /\ Its(t).mem = "alive" /\ Its(t).minors_reserved
         /\ ~Its(t).disconnected => Its(t).bound /\ Its(t).kref > 0
         /\ pc[t].i <= Its(t).num_ports
<1>1. t \in Actor /\ pc[t].m \in Minor /\ pc[t].s \in Serial /\ TypeOK
  BY Constant, Typed DEF IInv
<1>2. PortOf(t) \in Port /\ serial_minors[pc[t].m] = PortOf(t)
  BY DEF IInv, Locks, LocksOf
<1>3. PortOf(t)[1] = pc[t].s /\ PortOf(t)[2] = pc[t].i /\ PortOf(t) # NULL
  BY <1>2, SerialAssumption DEF PortOf
<1>4. /\ Its(t).mem = "alive" /\ Its(t).minors_reserved /\ pc[t].i <= Its(t).num_ports
      /\ ~Its(t).disconnected => Its(t).bound
  BY <1>1, <1>2, <1>3 DEF IInv, Numbers, Its
<1> QED
  BY <1>1, <1>2, <1>4, BoundAlive DEF Its

-----------------------------------------------------------------------------
(* The types.                                                              *)

LEMMA ObjectChanges ==
  ASSUME NEW s \in Serial, NEW r \in Object, serial \in [Serial -> Object],
         serial' = [serial EXCEPT ![s] = r]
  PROVE  serial' \in [Serial -> Object]
  OBVIOUS

LEMMA PortChanges ==
  ASSUME NEW p \in Port, NEW r \in TtyPort, port \in [Port -> TtyPort],
         port' = [port EXCEPT ![p] = r]
  PROVE  port' \in [Port -> TtyPort]
  OBVIOUS

(* An object of which some fields have changed is one.                     *)
LEMMA ObjectWith ==
  ASSUME NEW r \in Object
  PROVE  /\ \A k \in Nat : [r EXCEPT !.kref = k] \in Object
         /\ \A k \in Nat, b \in BOOLEAN : [r EXCEPT !.bound = b, !.kref = k] \in Object
         /\ \A b \in BOOLEAN : [r EXCEPT !.poisoned = b] \in Object
         /\ \A b \in BOOLEAN : [r EXCEPT !.minors_reserved = b] \in Object
         /\ \A b \in BOOLEAN : [r EXCEPT !.disconnected = b] \in Object
         /\ \A b, c \in BOOLEAN : [r EXCEPT !.disconnected = b, !.bound = c] \in Object
         /\ \A n \in 0 .. MaxPorts, b, c, d \in BOOLEAN :
               [r EXCEPT !.attached = d, !.num_ports = n, !.disconnected = b, !.bound = c] \in Object
  BY DEF Object

LEMMA PortWith ==
  ASSUME NEW r \in TtyPort
  PROVE  /\ \A k \in Nat : [r EXCEPT !.count = k] \in TtyPort
         /\ \A k \in Nat, b \in BOOLEAN : [r EXCEPT !.count = k, !.tty = b] \in TtyPort
         /\ \A b, c \in BOOLEAN : [r EXCEPT !.initialized = b, !.open = c] \in TtyPort
         /\ \A b, c \in BOOLEAN : [r EXCEPT !.urb = b, !.work = c] \in TtyPort
         /\ \A k \in Nat : [r EXCEPT !.dying = k] \in TtyPort
  BY DEF TtyPort

(* serial_port_shutdown.                                                   *)
LEMMA Shutdown ==
  ASSUME NEW r \in TtyPort
  PROVE  /\ PortShutdown(r) \in TtyPort
         /\ PortShutdown(r).count = r.count /\ (PortShutdown(r).tty <=> r.tty)
         /\ PortShutdown(r).dying = r.dying /\ ~PortShutdown(r).initialized
         /\ PortShutdown(r).open => r.open /\ ~r.initialized
         /\ PortShutdown(r).urb => r.urb /\ ~r.initialized
         /\ PortShutdown(r).work => r.work \/ (r.initialized /\ r.urb)
<1>1. CASE r.initialized
  <2>1. (r.work \/ r.urb) \in BOOLEAN
    OBVIOUS
  <2>2. PortShutdown(r) = [r EXCEPT !.initialized = FALSE, !.open = FALSE, !.urb = FALSE,
                                    !.work = r.work \/ r.urb]
    BY <1>1 DEF PortShutdown
  <2> QED
    BY <1>1, <2>1, <2>2 DEF TtyPort
<1>2. CASE ~r.initialized
  BY <1>2 DEF PortShutdown, TtyPort
<1> QED
  BY <1>1, <1>2

(* What usb_serial_put does to the object and the actor.                   *)
Others(a) == \A b \in Actor : b # a => pc'[b] = pc[b]
OthersKept(s) == \A r \in Serial : r # s => serial'[r] = serial[r]

LEMMA PutDoes ==
  ASSUME TypeOK, NEW a \in Actor, NEW s \in Serial, s = pc[a].s, serial[s].kref > 0,
         NEW next \in Where, Put(a, s, next)
  PROVE  /\ pc' \in [Actor -> Place] /\ serial' \in [Serial -> Object]
         /\ Others(a) /\ pc'[a].s = s /\ pc'[a].then = next /\ pc'[a].m = pc[a].m
         /\ pc'[a].i = pc[a].i /\ (pc'[a].hung <=> pc[a].hung)
         /\ pc'[a].at = IF serial[s].kref = 1 THEN "destroy" ELSE next
         /\ serial' = [serial EXCEPT ![s] = [serial[s] EXCEPT !.kref = serial[s].kref - 1]]
         /\ badAccess' = (serial[s].mem # "alive")
<1>1. pc \in [Actor -> Place] /\ serial \in [Serial -> Object] /\ serial[s] \in Object
  BY DEF TypeOK
<1>2. serial[s].kref \in Nat
  BY <1>1 DEF Object
<1>3. "destroy" \in Where
  BY DEF Where, HubPlaces
<1> DEFINE at == IF serial[s].kref = 1 THEN "destroy" ELSE next
<1>4. at \in Where
  BY <1>3
<1>5. pc' = [pc EXCEPT ![a].at = at, ![a].s = s, ![a].then = next]
  BY DEF Put
<1>6. serial' = [serial EXCEPT ![s] = [serial[s] EXCEPT !.kref = serial[s].kref - 1]]
  BY <1>1 DEF Put
<1>7. [serial[s] EXCEPT !.kref = serial[s].kref - 1] \in Object
  <2>1. serial[s].kref - 1 \in Nat
    BY <1>2
  <2> QED
    BY <1>1, <2>1, ObjectWith
<1>8. serial' \in [Serial -> Object]
  BY <1>1, <1>6, <1>7, ObjectChanges
<1> HIDE DEF at
<1>9. /\ pc' \in [Actor -> Place] /\ Others(a) /\ pc'[a].s = s /\ pc'[a].then = next
      /\ pc'[a].m = pc[a].m /\ pc'[a].i = pc[a].i /\ (pc'[a].hung <=> pc[a].hung) /\ pc'[a].at = at
  BY <1>1, <1>4, <1>5 DEF Place, Others
<1>10. badAccess' = (serial[s].mem # "alive")
  BY DEF Put, Use
<1> QED
  BY <1>6, <1>8, <1>9, <1>10 DEF at

LEMMA SerialTyped ==
  ASSUME IInv, Next
  PROVE  serial' \in [Serial -> Object]
<1>1. TypeOK /\ serial \in [Serial -> Object]
  BY DEF IInv, TypeOK
<1>2. UNCHANGED serial => serial' \in [Serial -> Object]
  BY <1>1
<1>3. ASSUME NEW a \in Actor, Destroy(a) PROVE serial' \in [Serial -> Object]
  <2>1. CASE ReleaseMinors(a)
    <3>1. serial' = [serial EXCEPT ![pc[a].s] = [serial[pc[a].s] EXCEPT !.minors_reserved = FALSE]]
      BY <2>1, <1>1, Typed DEF ReleaseMinors
    <3> QED
      BY <1>1, <3>1, Typed, ObjectWith, ObjectChanges DEF Its
  <2>2. CASE DestroySerial(a)
    BY <2>2, <1>1, Typed DEF DestroySerial, Object
  <2>3. CASE ModulePut(a)
    BY <2>3, <1>2 DEF ModulePut
  <2> QED
    BY <1>3, <2>1, <2>2, <2>3 DEF Destroy
<1>4. ASSUME NEW t \in Thread, ThreadStep(t) \/ WaitUntilSent(t) PROVE serial' \in [Serial -> Object]
  <2>1. CASE GetByMinor(t)
    BY <2>1, <1>1, Typed, Constant DEF GetByMinor, Object
  <2>2. CASE Install(t)
    BY <2>2, <1>1, Typed, Constant DEF Install, Object
  <2>3. CASE PutLocked(t)
    <3>1. serial[pc[t].s].kref > 0 /\ "unlock" \in Where
      BY <2>3, LookupHas DEF PutLocked, At, Its, Where, ThreadPlaces
    <3> QED
      BY <2>3, <1>1, <3>1, Typed, Constant, PutDoes DEF PutLocked
  <2>4. CASE UnlockDisc(t)
    BY <2>4, <1>1, Typed, Constant DEF UnlockDisc, Object
  <2>5. CASE WaitUntilSent(t)
    BY <2>5, <1>1, Typed, Constant DEF WaitUntilSent, Object
  <2>6. CASE Drained(t)
    BY <2>6, <1>1, Typed, Constant DEF Drained, Object
  <2>7. CASE Find(t) \/ PortOpen(t) \/ PortActivate(t)
    BY <2>7, <1>2 DEF Find, PortOpen, PortActivate
  <2> QED
    BY <1>4, <2>1, <2>2, <2>3, <2>4, <2>5, <2>6, <2>7 DEF ThreadStep
<1>5. ASSUME NEW p \in Port, Cleanup(p) PROVE serial' \in [Serial -> Object]
  <2> DEFINE pm == IF serial[p[1]].disconnected THEN serial[p[1]].pm ELSE serial[p[1]].pm - 1
  <2>1. p[1] \in Serial /\ serial[p[1]] \in Object /\ port[p].dying > 0
    BY <1>1, <1>5, Typed DEF Cleanup
  <2>2. Installed(PortsOf(p[1])) > 0
    BY <1>1, <2>1, Referenced DEF IInv
  <2>3. pm \in Nat
    BY <2>1, <2>2 DEF IInv, Power, Object
  <2>4. serial' = [serial EXCEPT ![p[1]] = [serial[p[1]] EXCEPT !.pm = pm]]
    BY <1>1, <1>5, <2>1 DEF Cleanup
  <2> HIDE DEF pm
  <2>5. [serial[p[1]] EXCEPT !.pm = pm] \in Object
    BY <2>1, <2>3 DEF Object
  <2> QED
    BY <1>1, <2>1, <2>4, <2>5, ObjectChanges
<1>6. ASSUME CleanupPut PROVE serial' \in [Serial -> Object]
  <2>1. serial[pc["worker"].s].kref > 0 /\ "module_put" \in Where
    BY <1>6, CleaningUpHas DEF CleanupPut, At, Its, Where, WorkerPlaces
  <2> QED
    BY <1>6, <1>1, <2>1, Typed, Constant, PutDoes DEF CleanupPut
<1>7. ASSUME ProbeStep PROVE serial' \in [Serial -> Object]
  <2> DEFINE s == pc["hub"].s
  <2>1. s \in Serial /\ serial[s] \in Object
    BY <1>1, Typed, Constant
  <2>2. ASSUME NEW n \in 0 .. MaxPorts, Attach(n) PROVE serial' \in [Serial -> Object]
    <3>1. (n > 0) \in BOOLEAN /\ (n = 0) \in BOOLEAN /\ TRUE \in BOOLEAN
      OBVIOUS
    <3>2. serial' = [serial EXCEPT ![s] = [serial[s] EXCEPT !.attached = TRUE, !.num_ports = n,
                                              !.disconnected = (n > 0), !.bound = (n = 0)]]
      BY <1>1, <2>1, <2>2 DEF Attach
    <3>3. [serial[s] EXCEPT !.attached = TRUE, !.num_ports = n,
                            !.disconnected = (n > 0), !.bound = (n = 0)] \in Object
      BY <2>1, <3>1, ObjectWith
    <3> QED
      BY <1>1, <2>1, <3>2, <3>3, ObjectChanges
  <2>3. CASE ProbeError
    <3>1. serial[s].kref > 0 /\ "module_put" \in Where
      BY <2>3 DEF ProbeError, At, Its, Where, HubPlaces, IInv, Hub
    <3> QED
      BY <2>1, <2>3, <1>1, <3>1, Constant, PutDoes DEF ProbeError
  <2>4. CASE AllocateMinors
    <3>1. serial' = [serial EXCEPT ![s] = [serial[s] EXCEPT !.minors_reserved = TRUE]]
      BY <2>1, <2>4, <1>1 DEF AllocateMinors
    <3> QED
      BY <1>1, <2>1, <3>1, ObjectWith, ObjectChanges
  <2>5. CASE Register
    <3>1. serial' = [serial EXCEPT ![s] = [serial[s] EXCEPT !.disconnected = FALSE, !.bound = TRUE]]
      BY <2>1, <2>5, <1>1 DEF Register
    <3> QED
      BY <1>1, <2>1, <3>1, ObjectWith, ObjectChanges
  <2> QED
    BY <1>7, <2>2, <2>3, <2>4, <2>5 DEF ProbeStep
<1>8. ASSUME NEW s \in Serial, Suspend(s) \/ Resume(s) PROVE serial' \in [Serial -> Object]
  <2>1. \E b \in BOOLEAN : serial' = [serial EXCEPT ![s] = [serial[s] EXCEPT !.poisoned = b]]
    BY <1>8, <1>1 DEF Suspend, Resume
  <2> QED
    BY <1>1, <2>1, ObjectWith, ObjectChanges
<1>9. ASSUME NEW s \in Serial, Probe(s) PROVE serial' \in [Serial -> Object]
  <2>1. [NoSerial EXCEPT !.mem = "alive", !.kref = 1] \in Object
    BY Constant DEF Object
  <2> QED
    BY <1>1, <1>2, <1>9, <2>1 DEF Probe
<1>10. ASSUME DisconnectStep PROVE serial' \in [Serial -> Object]
  <2>1. ASSUME NEW s \in Serial, Disconnect(s) PROVE serial' \in [Serial -> Object]
    <3>1. serial' = [serial EXCEPT ![s] = [serial[s] EXCEPT !.disconnected = TRUE]]
      BY <1>1, <2>1 DEF Disconnect
    <3> QED
      BY <1>1, <3>1, ObjectWith, ObjectChanges
  <2>2. CASE DisconnectHangup \/ DisconnectCancel
    BY <1>2, <2>2 DEF DisconnectHangup, DisconnectCancel
  <2>3. CASE DisconnectPoison
    <3>1. PortOf("hub")[1] = pc["hub"].s
      BY DEF PortOf
    <3>2. serial' = [serial EXCEPT ![pc["hub"].s] = [serial[pc["hub"].s] EXCEPT !.poisoned = TRUE]]
      BY <1>1, <2>3, <3>1 DEF DisconnectPoison
    <3> QED
      BY <1>1, <3>2, Typed, Constant, ObjectWith, ObjectChanges
  <2>4. CASE DisconnectEnd
    <3> DEFINE s == pc["hub"].s
    <3>1. s \in Serial /\ serial[s] \in Object /\ serial[s].kref > 0 /\ serial[s].kref \in Nat
      BY <1>1, <2>4, Typed, Constant, BoundAlive, RefsParts DEF DisconnectEnd, At, IInv, Hub, Its
    <3>2. serial' = [serial EXCEPT ![s] = [serial[s] EXCEPT !.bound = FALSE,
                                                            !.kref = serial[s].kref - 1]]
      BY <1>1, <2>4, <3>1 DEF DisconnectEnd
    <3>3. serial[s].kref - 1 \in Nat /\ FALSE \in BOOLEAN
      BY <3>1
    <3> QED
      BY <1>1, <3>1, <3>2, <3>3, ObjectWith, ObjectChanges
  <2> QED
    BY <1>10, <2>1, <2>2, <2>3, <2>4 DEF DisconnectStep
<1>11. ASSUME UNCHANGED serial PROVE serial' \in [Serial -> Object]
  BY <1>2, <1>11
<1>12. \/ UNCHANGED serial \/ \E a \in Actor : Destroy(a)
       \/ \E t \in Thread : ThreadStep(t) \/ WaitUntilSent(t)
       \/ \E p \in Port : Cleanup(p)
       \/ CleanupPut \/ ProbeStep \/ DisconnectStep
       \/ \E s \in Serial : Suspend(s) \/ Resume(s) \/ Probe(s)
  BY DEF Next, TtyOpen, ProcShow, Write, Close, PortSoftint, PortWork, Hangup, Unplug,
         Deregister, DeregisterEnd
<1> QED
  BY <1>3, <1>4, <1>5, <1>6, <1>7, <1>8, <1>9, <1>10, <1>11, <1>12

(* The port after tty_port_hangup, or the last tty_port_close.             *)
Down(r) == [PortShutdown(r) EXCEPT !.count = 0, !.tty = FALSE]

LEMMA DownIs ==
  ASSUME NEW r \in TtyPort
  PROVE  /\ Down(r) \in TtyPort
         /\ Down(r).count = 0 /\ ~Down(r).tty /\ Down(r).dying = r.dying
         /\ ~Down(r).initialized
         /\ Down(r).open => r.open /\ ~r.initialized
         /\ Down(r).urb => r.urb /\ ~r.initialized
         /\ Down(r).work => r.work \/ (r.initialized /\ r.urb)
<1> DEFINE q == PortShutdown(r)
<1>1. /\ q \in TtyPort /\ q.dying = r.dying /\ ~q.initialized
      /\ q.open => r.open /\ ~r.initialized
      /\ q.urb => r.urb /\ ~r.initialized
      /\ q.work => r.work \/ (r.initialized /\ r.urb)
  BY Shutdown
<1> HIDE DEF q
<1>2. Down(r) = [q EXCEPT !.count = 0, !.tty = FALSE]
  BY DEF Down, q
<1>3. Down(r) \in TtyPort
  <2>1. [q EXCEPT !.count = 0, !.tty = FALSE] \in TtyPort
    BY <1>1 DEF TtyPort
  <2> QED
    BY <1>2, <2>1
<1>4. /\ Down(r).count = 0 /\ ~Down(r).tty /\ Down(r).dying = q.dying
      /\ (Down(r).initialized <=> q.initialized) /\ (Down(r).open <=> q.open)
      /\ (Down(r).urb <=> q.urb) /\ (Down(r).work <=> q.work)
  BY <1>1, <1>2 DEF TtyPort
<1> QED
  BY <1>1, <1>3, <1>4

LEMMA CloseDoes ==
  ASSUME IInv, NEW t \in Thread, Close(t), NEW p \in Port, p = PortOf(t), NEW m, m = pc[t].m
  PROVE  \E r \in TtyPort :
            /\ port' = [port EXCEPT ![p] = r]
            /\ r.dying = IF ttys[m].count = 1 THEN port[p].dying + 1 ELSE port[p].dying
            /\ \/ /\ pc[t].hung
                  /\ r.count = port[p].count /\ (r.tty <=> port[p].tty)
                  /\ (r.initialized <=> port[p].initialized) /\ (r.open <=> port[p].open)
                  /\ (r.urb <=> port[p].urb) /\ (r.work <=> port[p].work)
               \/ /\ ~pc[t].hung /\ port[p].count = 1
                  /\ r.count = 0 /\ ~r.tty /\ ~r.initialized
                  /\ r.open => port[p].open /\ ~port[p].initialized
                  /\ r.urb => port[p].urb /\ ~port[p].initialized
                  /\ r.work => port[p].work \/ (port[p].initialized /\ port[p].urb)
               \/ /\ ~pc[t].hung /\ port[p].count # 1
                  /\ r.count = port[p].count - 1 /\ (r.tty <=> port[p].tty)
                  /\ (r.initialized <=> port[p].initialized) /\ (r.open <=> port[p].open)
                  /\ (r.urb <=> port[p].urb) /\ (r.work <=> port[p].work)
<1> DEFINE closed == IF pc[t].hung THEN port[p]
                     ELSE IF port[p].count = 1 THEN Down(port[p])
                     ELSE [port[p] EXCEPT !.count = port[p].count - 1]
           d == IF ttys[m].count = 1 THEN port[p].dying + 1 ELSE port[p].dying
           r == IF ttys[m].count = 1 THEN [closed EXCEPT !.dying = closed.dying + 1] ELSE closed
<1>1. TypeOK /\ port \in [Port -> TtyPort] /\ port[p] \in TtyPort
  BY DEF IInv, TypeOK
<1>2. port[p].count \in Nat /\ port[p].dying \in Nat /\ (~pc[t].hung => port[p].count > 0)
  <2>1. ~pc[t].hung => t \in Users(p)
    BY DEF Close, At, Users
  <2>2. IsFiniteSet(Users(p)) /\ port[p].count = Cardinality(Users(p))
    BY Finite, FS_Subset DEF Users, IInv, Ports
  <2>3. ~pc[t].hung => Cardinality(Users(p)) > 0
    BY <2>1, <2>2, Empty
  <2> QED
    BY <1>1, <2>2, <2>3 DEF TtyPort
<1>3. port' = [port EXCEPT ![p] = r]
  BY <1>1 DEF Close, Down
<1>4. closed \in TtyPort /\ closed.dying = port[p].dying
  <2>1. CASE pc[t].hung
    BY <1>1, <2>1
  <2>2. CASE ~pc[t].hung /\ port[p].count = 1
    BY <1>1, <2>2, DownIs
  <2>3. CASE ~pc[t].hung /\ port[p].count # 1
    <3>1. port[p].count - 1 \in Nat
      BY <1>2, <2>3
    <3>2. closed = [port[p] EXCEPT !.count = port[p].count - 1]
      BY <2>3
    <3>3. [port[p] EXCEPT !.count = port[p].count - 1] \in TtyPort
      BY <1>1, <3>1 DEF TtyPort
    <3>4. [port[p] EXCEPT !.count = port[p].count - 1].dying = port[p].dying
      BY <1>1 DEF TtyPort
    <3> QED
      BY <3>2, <3>3, <3>4
  <2> QED
    BY <2>1, <2>2, <2>3
<1>5. \/ pc[t].hung /\ closed = port[p]
      \/ /\ ~pc[t].hung /\ port[p].count = 1 /\ closed = Down(port[p])
      \/ /\ ~pc[t].hung /\ port[p].count # 1
         /\ closed = [port[p] EXCEPT !.count = port[p].count - 1]
  OBVIOUS
<1> HIDE DEF closed
<1>6. /\ r \in TtyPort /\ r.dying = d /\ r.count = closed.count /\ (r.tty <=> closed.tty)
      /\ (r.initialized <=> closed.initialized) /\ (r.open <=> closed.open)
      /\ (r.urb <=> closed.urb) /\ (r.work <=> closed.work)
  <2>1. closed.dying + 1 \in Nat
    BY <1>2, <1>4
  <2> QED
    BY <1>4, <2>1 DEF TtyPort
<1> HIDE DEF r
<1>7. CASE pc[t].hung /\ closed = port[p]
  BY <1>3, <1>6, <1>7
<1>8. CASE ~pc[t].hung /\ port[p].count = 1 /\ closed = Down(port[p])
  BY <1>1, <1>3, <1>6, <1>8, DownIs
<1>9. CASE /\ ~pc[t].hung /\ port[p].count # 1
           /\ closed = [port[p] EXCEPT !.count = port[p].count - 1]
  <2>1. /\ closed.count = port[p].count - 1 /\ (closed.tty <=> port[p].tty)
        /\ (closed.initialized <=> port[p].initialized) /\ (closed.open <=> port[p].open)
        /\ (closed.urb <=> port[p].urb) /\ (closed.work <=> port[p].work)
    BY <1>1, <1>9 DEF TtyPort
  <2> QED
    BY <1>3, <1>6, <1>9, <2>1
<1> QED
  BY <1>5, <1>7, <1>8, <1>9

LEMMA HangUpDoes ==
  ASSUME TypeOK, NEW p \in Port, NEW m, HangUp(p, m)
  PROVE  /\ port' \in [Port -> TtyPort]
         /\ port' = [port EXCEPT ![p] = Down(port[p])]
         /\ badAccess' = (serial[p[1]].mem # "alive" \/ (port[p].initialized /\ module.state = "gone"))
<1>1. port \in [Port -> TtyPort] /\ port[p] \in TtyPort
  BY DEF TypeOK
<1>2. port' = [port EXCEPT ![p] = Down(port[p])]
  BY <1>1 DEF HangUp, Down
<1>3. Down(port[p]) \in TtyPort
  BY <1>1, DownIs
<1> QED
  BY <1>1, <1>2, <1>3 DEF HangUp, UseDriver

(* The port usb_serial_disconnect is at.                                   *)
LEMMA HubPort ==
  ASSUME IInv, pc["hub"].at \in {"hangup", "poison", "cancel"},
         pc["hub"].i <= Its("hub").num_ports
  PROVE  PortOf("hub") \in Port /\ PortOf("hub") = <<pc["hub"].s, pc["hub"].i>>
<1>1. /\ pc["hub"].s \in Serial /\ pc["hub"].i \in Nat /\ Its("hub") \in Object
      /\ pc["hub"].i >= 1
  BY Typed, Constant DEF IInv, Hub
<1>2. pc["hub"].i \in 1 .. MaxPorts
  BY <1>1, SerialAssumption DEF Object
<1> QED
  BY <1>1, <1>2 DEF Port, PortOf

LEMMA PortTyped ==
  ASSUME IInv, Next
  PROVE  port' \in [Port -> TtyPort]
<1>1. TypeOK /\ port \in [Port -> TtyPort]
  BY DEF IInv, TypeOK
<1>2. ASSUME NEW t \in Thread, PortOpen(t) \/ PortActivate(t) \/ Write(t) \/ Close(t)
      PROVE  port' \in [Port -> TtyPort]
  <2> DEFINE p == PortOf(t)
  <2>1. pc[t].at \in FilePlaces
    BY <1>2 DEF PortOpen, PortActivate, Write, Close, At, FilePlaces
  <2>2. p \in Port
    BY <2>1, FileHas
  <2>3. port[p] \in TtyPort /\ port[p].count \in Nat
    BY <1>1, <2>2 DEF TtyPort
  <2>4. CASE PortOpen(t)
    <3>1. [port[p] EXCEPT !.count = port[p].count + 1, !.tty = TRUE] \in TtyPort
      <4>1. port[p].count + 1 \in Nat
        BY <2>3
      <4> QED
        BY <2>3, <4>1 DEF TtyPort
    <3>2. port' = [port EXCEPT ![p] = [port[p] EXCEPT !.count = port[p].count + 1, !.tty = TRUE]]
      BY <1>1, <2>2, <2>4 DEF PortOpen
    <3> QED
      BY <1>1, <2>2, <3>1, <3>2, PortChanges
  <2>5. CASE PortActivate(t)
    <3>1. [port[p] EXCEPT !.initialized = TRUE, !.open = TRUE] \in TtyPort
      BY <2>3, PortWith
    <3>2. \/ UNCHANGED port
          \/ port' = [port EXCEPT ![p] = [port[p] EXCEPT !.initialized = TRUE, !.open = TRUE]]
      BY <1>1, <2>2, <2>5 DEF PortActivate
    <3> QED
      BY <1>1, <2>2, <3>1, <3>2, PortChanges
  <2>6. CASE Write(t)
    BY <1>1, <2>2, <2>3, <2>6 DEF Write, TtyPort
  <2>7. CASE Close(t)
    <3>1. \E r \in TtyPort : port' = [port EXCEPT ![p] = r]
      BY <2>2, <2>7, CloseDoes
    <3> QED
      BY <1>1, <2>2, <3>1, PortChanges
  <2> QED
    BY <1>2, <2>4, <2>5, <2>6, <2>7
<1>3. ASSUME NEW p \in Port, PortSoftint(p) \/ PortWork(p) \/ Cleanup(p)
      PROVE  port' \in [Port -> TtyPort]
  <2>1. CASE PortSoftint(p)
    <3>1. [port[p] EXCEPT !.urb = FALSE, !.work = TRUE] \in TtyPort
      BY <1>1, PortWith
    <3>2. port' = [port EXCEPT ![p] = [port[p] EXCEPT !.urb = FALSE, !.work = TRUE]]
      BY <1>1, <2>1 DEF PortSoftint
    <3> QED
      BY <1>1, <3>1, <3>2, PortChanges
  <2>2. CASE PortWork(p)
    BY <1>1, <2>2 DEF PortWork, TtyPort
  <2>3. CASE Cleanup(p)
    <3>1. port[p].dying \in Nat /\ port[p].dying > 0 /\ port[p] \in TtyPort
      BY <1>1, <2>3 DEF Cleanup, TtyPort
    <3>2. port[p].dying - 1 \in Nat
      BY <3>1
    <3>3. [port[p] EXCEPT !.dying = port[p].dying - 1] \in TtyPort
      BY <3>1, <3>2, PortWith
    <3>4. port' = [port EXCEPT ![p] = [port[p] EXCEPT !.dying = port[p].dying - 1]]
      BY <1>1, <2>3 DEF Cleanup
    <3> QED
      BY <1>1, <3>3, <3>4, PortChanges
  <2> QED
    BY <1>3, <2>1, <2>2, <2>3
<1>4. ASSUME NEW m \in Minor, Hangup(m) PROVE port' \in [Port -> TtyPort]
  <2>1. ttys[m].port \in Port
    BY <1>1, <1>4, Typed DEF Hangup, Tty
  <2> QED
    BY <1>1, <1>4, <2>1, HangUpDoes DEF Hangup
<1>5. ASSUME NEW s \in Serial, Suspend(s) PROVE port' \in [Port -> TtyPort]
  <2>1. \A p \in Port : port[p] \in TtyPort /\ [port[p] EXCEPT !.urb = FALSE, !.work = TRUE] \in TtyPort
    BY <1>1, PortWith
  <2>2. port' = [p \in Port |-> IF p[1] = s /\ port[p].urb
                                THEN [port[p] EXCEPT !.urb = FALSE, !.work = TRUE] ELSE port[p]]
    BY <1>5 DEF Suspend
  <2> QED
    BY <2>1, <2>2
<1>6. ASSUME DisconnectStep PROVE port' \in [Port -> TtyPort]
  <2> DEFINE p == PortOf("hub")
  <2>1. CASE DisconnectHangup
    <3>1. p \in Port
      BY <2>1, HubPort DEF DisconnectHangup, At, Its, PortOf
    <3>2. UNCHANGED port \/ \E m : HangUp(p, m)
      BY <2>1 DEF DisconnectHangup
    <3> QED
      BY <1>1, <3>1, <3>2, HangUpDoes
  <2>2. CASE DisconnectPoison
    <3>1. p \in Port
      BY <2>2, HubPort DEF DisconnectPoison, At, IInv, Hub
    <3>2. (port[p].work \/ port[p].urb) \in BOOLEAN
      OBVIOUS
    <3>3. [port[p] EXCEPT !.urb = FALSE, !.work = port[p].work \/ port[p].urb] \in TtyPort
      BY <1>1, <3>1, <3>2 DEF TtyPort
    <3>4. port' = [port EXCEPT ![p] = [port[p] EXCEPT !.urb = FALSE,
                                                      !.work = port[p].work \/ port[p].urb]]
      BY <1>1, <2>2, <3>1 DEF DisconnectPoison
    <3> QED
      BY <1>1, <3>1, <3>3, <3>4, PortChanges
  <2>3. CASE DisconnectCancel
    <3>1. p \in Port
      BY <2>3, HubPort DEF DisconnectCancel, At, IInv, Hub
    <3> QED
      BY <1>1, <2>3, <3>1 DEF DisconnectCancel, TtyPort
  <2>4. CASE DisconnectEnd \/ \E s \in Serial : Disconnect(s)
    BY <1>1, <2>4 DEF DisconnectEnd, Disconnect
  <2> QED
    BY <1>6, <2>1, <2>2, <2>3, <2>4 DEF DisconnectStep
<1>7. \/ UNCHANGED port
      \/ \E t \in Thread : PortOpen(t) \/ PortActivate(t) \/ Write(t) \/ Close(t)
      \/ \E p \in Port : PortSoftint(p) \/ PortWork(p) \/ Cleanup(p)
      \/ \E m \in Minor : Hangup(m)
      \/ \E s \in Serial : Suspend(s)
      \/ DisconnectStep
  BY DEF Next, TtyOpen, ProcShow, ThreadStep, Find, GetByMinor, Install, PutLocked, UnlockDisc,
         Drained, WaitUntilSent, Destroy, ReleaseMinors, DestroySerial, ModulePut, CleanupPut,
         ProbeStep, Attach, ProbeError, AllocateMinors, Register, Unplug, Deregister,
         DeregisterEnd, Probe, Resume
<1>8. ASSUME UNCHANGED port PROVE port' \in [Port -> TtyPort]
  BY <1>1, <1>8
<1> QED
  BY <1>2, <1>3, <1>4, <1>5, <1>6, <1>7, <1>8

(* The names of the places.                                                *)
LEMMA Names ==
  /\ "idle" \in Where /\ "find" \in Where /\ "get" \in Where /\ "install" \in Where
  /\ "put" \in Where /\ "unlock" \in Where /\ "port_open" \in Where /\ "activate" \in Where
  /\ "running" \in Where /\ "drain" \in Where /\ "close" \in Where
  /\ "attach" \in Where /\ "minors" \in Where /\ "register" \in Where
  /\ "module_put" \in Where /\ "hangup" \in Where /\ "poison" \in Where
  /\ "cancel" \in Where /\ "destroy" \in Where /\ "free" \in Where /\ "cleanup" \in Where
  BY DEF Where, ThreadPlaces, FilePlaces, HubPlaces, WorkerPlaces

LEMMA GotoDoes ==
  ASSUME pc \in [Actor -> Place], NEW a \in Actor, NEW w \in Where, Goto(a, w)
  PROVE  /\ pc' \in [Actor -> Place] /\ Others(a) /\ pc'[a].at = w
         /\ pc'[a].s = pc[a].s /\ pc'[a].i = pc[a].i /\ pc'[a].m = pc[a].m
         /\ pc'[a].then = pc[a].then /\ (pc'[a].hung <=> pc[a].hung)
  BY DEF Goto, Place, Others

LEMMA PlaceChanges ==
  ASSUME pc \in [Actor -> Place], NEW a \in Actor, NEW r \in Place, pc' = [pc EXCEPT ![a] = r]
  PROVE  pc' \in [Actor -> Place] /\ Others(a) /\ pc'[a] = r
  BY DEF Others

LEMMA PcTyped ==
  ASSUME IInv, Next
  PROVE  pc' \in [Actor -> Place]
<1>1. TypeOK /\ pc \in [Actor -> Place]
  BY DEF IInv, TypeOK
<1>2. ASSUME NEW a \in Actor, Destroy(a) PROVE pc' \in [Actor -> Place]
  BY <1>1, <1>2, Constant, Names DEF Destroy, ReleaseMinors, DestroySerial, ModulePut, Goto, Place
<1>3. ASSUME NEW t \in Thread, NEW m \in Minor, TtyOpen(t, m) PROVE pc' \in [Actor -> Place]
  <2>1. CASE ttys[m] = NULL
    <3>1. [Idle EXCEPT !.at = "find", !.m = m, !.then = "install"] \in Place
      BY Constant, Names DEF Place
    <3>2. pc' = [pc EXCEPT ![t] = [Idle EXCEPT !.at = "find", !.m = m, !.then = "install"]]
      BY <1>3, <2>1 DEF TtyOpen
    <3> QED
      BY <1>1, <3>1, <3>2, PlaceChanges, Constant
  <2>2. CASE ttys[m] # NULL
    <3>1. ttys[m].port[1] \in Serial /\ ttys[m].port[2] \in Nat
      BY <1>1, <2>2, Typed DEF Tty
    <3>2. [Idle EXCEPT !.at = "port_open", !.m = m, !.s = ttys[m].port[1],
                       !.i = ttys[m].port[2]] \in Place
      BY <3>1, Constant, Names DEF Place
    <3>3. pc' = [pc EXCEPT ![t] = [Idle EXCEPT !.at = "port_open", !.m = m,
                                     !.s = ttys[m].port[1], !.i = ttys[m].port[2]]]
      BY <1>3, <2>2 DEF TtyOpen
    <3> QED
      BY <1>1, <3>2, <3>3, PlaceChanges, Constant
  <2> QED
    BY <2>1, <2>2
<1>4. ASSUME NEW t \in Thread, NEW m \in Minor, ProcShow(t, m) PROVE pc' \in [Actor -> Place]
  BY <1>1, <1>4, Constant, Names DEF ProcShow, Place
<1>5. ASSUME NEW t \in Thread, ThreadStep(t) \/ WaitUntilSent(t) \/ Close(t)
      PROVE  pc' \in [Actor -> Place]
  <2>1. CASE Find(t)
    <3>1. /\ pc[t].m \in Minor
          /\ serial_minors[pc[t].m] # NULL => /\ serial_minors[pc[t].m][1] \in Serial
                                              /\ serial_minors[pc[t].m][2] \in Nat
      BY <1>1, Typed, Constant, Names
    <3> QED
      BY <1>1, <2>1, <3>1, Constant, Names DEF Find, Place
  <2>2. CASE PutLocked(t)
    <3>1. serial[pc[t].s].kref > 0
      BY <2>2, LookupHas DEF PutLocked, At, Its
    <3> QED
      BY <2>2, <1>1, <3>1, Typed, Constant, Names, PutDoes DEF PutLocked
  <2>3. CASE GetByMinor(t)
    <3>1. pc[t].then \in Where
      BY <1>1, Constant DEF Place
    <3>2. Goto(t, pc[t].then) \/ pc' = [pc EXCEPT ![t] = Idle]
      BY <2>3 DEF GetByMinor
    <3> QED
      BY <1>1, <3>1, <3>2, GotoDoes, PlaceChanges, Constant
  <2>4. CASE Install(t)
    BY <1>1, <2>4, Constant, Names, GotoDoes DEF Install
  <2>5. CASE UnlockDisc(t)
    BY <1>1, <2>5, Constant, Names DEF UnlockDisc, Place
  <2>6. CASE PortOpen(t)
    BY <1>1, <2>6, Constant, Names DEF PortOpen, Goto, Place
  <2>7. CASE PortActivate(t)
    BY <1>1, <2>7, Constant, Names, GotoDoes DEF PortActivate
  <2>8. CASE Drained(t) \/ WaitUntilSent(t)
    BY <1>1, <2>8, Constant, Names, GotoDoes DEF Drained, WaitUntilSent
  <2>9. CASE Close(t)
    BY <1>1, <2>9, Constant, PlaceChanges DEF Close
  <2> QED
    BY <1>5, <2>1, <2>2, <2>3, <2>4, <2>5, <2>6, <2>7, <2>8, <2>9 DEF ThreadStep
<1>6. ASSUME NEW m \in Minor, Hangup(m) PROVE pc' \in [Actor -> Place]
  BY <1>1, <1>6 DEF Hangup, Place
<1>7. ASSUME NEW p \in Port, Cleanup(p) PROVE pc' \in [Actor -> Place]
  <2>1. p[1] \in Serial
    BY <1>1, Typed
  <2> QED
    BY <1>1, <1>7, <2>1, Constant, Names DEF Cleanup, Place
<1>8. ASSUME CleanupPut PROVE pc' \in [Actor -> Place]
  <2>1. serial[pc["worker"].s].kref > 0
    BY <1>8, CleaningUpHas DEF CleanupPut, At, Its
  <2> QED
    BY <1>8, <1>1, <2>1, Typed, Constant, Names, PutDoes DEF CleanupPut
<1>9. ASSUME ProbeStep PROVE pc' \in [Actor -> Place]
  <2>1. CASE ProbeError
    <3>1. serial[pc["hub"].s].kref > 0
      BY <2>1 DEF ProbeError, At, Its, IInv, Hub
    <3> QED
      BY <2>1, <1>1, <3>1, Typed, Constant, Names, PutDoes DEF ProbeError
  <2>2. CASE AllocateMinors \/ Register \/ \E n \in 0 .. MaxPorts : Attach(n)
    <3>1. \E w \in Where : Goto("hub", w)
      BY <2>2, Names DEF AllocateMinors, Register, Attach
    <3> QED
      BY <1>1, <3>1, Constant, GotoDoes
  <2> QED
    BY <1>9, <2>1, <2>2 DEF ProbeStep
<1>10. ASSUME NEW s \in Serial, Probe(s) \/ Disconnect(s) PROVE pc' \in [Actor -> Place]
  <2>1. CASE Probe(s)
    BY <1>1, <2>1, Constant, Names DEF Probe, Goto, Place
  <2>2. CASE Disconnect(s)
    BY <1>1, <2>2, Constant, Names DEF Disconnect, Place
  <2> QED
    BY <1>10, <2>1, <2>2
<1>11. ASSUME DisconnectHangup \/ DisconnectPoison \/ DisconnectCancel \/ DisconnectEnd
       PROVE  pc' \in [Actor -> Place]
  <2>1. CASE DisconnectHangup
    <3>1. \A a \in Actor : /\ pc[a] \in Place /\ [pc[a] EXCEPT !.hung = TRUE] \in Place
                           /\ [pc[a] EXCEPT !.at = "poison"] \in Place
      BY <1>1, Names DEF Place
    <3>2. \E files : pc' = [a \in Actor |-> IF a \in files THEN [pc[a] EXCEPT !.hung = TRUE]
                                            ELSE IF a = "hub" THEN [pc[a] EXCEPT !.at = "poison"]
                                            ELSE pc[a]]
      BY <2>1 DEF DisconnectHangup
    <3> QED
      BY <3>1, <3>2
  <2>2. CASE DisconnectPoison \/ DisconnectCancel
    BY <1>1, <2>2, Constant, Names DEF DisconnectPoison, DisconnectCancel, Goto, Place
  <2>3. CASE DisconnectEnd
    BY <1>1, <2>3, Constant, Names DEF DisconnectEnd, Place
  <2> QED
    BY <1>11, <2>1, <2>2, <2>3
<1>12. \/ UNCHANGED pc \/ \E a \in Actor : Destroy(a)
       \/ \E t \in Thread, m \in Minor : TtyOpen(t, m) \/ ProcShow(t, m)
       \/ \E t \in Thread : ThreadStep(t) \/ WaitUntilSent(t) \/ Close(t)
       \/ \E m \in Minor : Hangup(m)
       \/ \E p \in Port : Cleanup(p)
       \/ CleanupPut \/ ProbeStep
       \/ \E s \in Serial : Probe(s) \/ Disconnect(s)
       \/ DisconnectHangup \/ DisconnectPoison \/ DisconnectCancel \/ DisconnectEnd
  BY DEF Next, Write, PortSoftint, PortWork, Unplug, Deregister, DeregisterEnd, Suspend, Resume,
         DisconnectStep
<1> QED
  BY <1>1, <1>2, <1>3, <1>4, <1>5, <1>6, <1>7, <1>8, <1>9, <1>10, <1>11, <1>12

(* allocate_minors: numbers that were free, and one for each port.         *)
LEMMA AllocateDoes ==
  ASSUME IInv, AllocateMinors, NEW s \in Serial, s = pc["hub"].s
  PROVE  /\ serial_minors' \in [Minor -> Port \union {NULL}]
         /\ \A m \in Minor : serial_minors[m] # NULL => serial_minors'[m] = serial_minors[m]
         /\ \A m \in Minor : serial_minors[m] = NULL =>
               \/ serial_minors'[m] = NULL
               \/ /\ serial_minors'[m] \in Port /\ serial_minors'[m][1] = s
                  /\ serial_minors'[m][2] <= serial[s].num_ports
         /\ \A m, n \in Minor : /\ serial_minors[m] = NULL /\ serial_minors[n] = NULL
                                /\ serial_minors'[m] # NULL /\ serial_minors'[n] = serial_minors'[m]
                                => m = n
<1> DEFINE k == serial[s].num_ports
           free == {m \in Minor : serial_minors[m] = NULL}
           Rank(m) == Cardinality({f \in free : f <= m})
<1>1. TypeOK /\ serial_minors \in [Minor -> Port \union {NULL}] /\ k \in 0 .. MaxPorts
  BY DEF IInv, TypeOK, Object
<1>2. serial_minors' = [m \in Minor |-> IF m \in free /\ Rank(m) <= k THEN <<s, Rank(m)>>
                                        ELSE serial_minors[m]]
  BY DEF AllocateMinors
<1>3. \A m \in Minor : IsFiniteSet({f \in free : f <= m})
  BY Finite, FS_Subset
<1>4. ASSUME NEW m \in free PROVE Rank(m) \in Nat /\ Rank(m) >= 1
  <2> DEFINE A == {f \in free : f <= m}
  <2>1. m \in A /\ IsFiniteSet(A)
    BY <1>3, Constant
  <2> HIDE DEF A
  <2>2. Cardinality(A) \in Nat /\ Cardinality(A) # 0
    BY <2>1, Empty
  <2> QED
    BY <2>2 DEF A
<1>5. ASSUME NEW m \in free, NEW n \in free, m < n PROVE Rank(m) # Rank(n)
  <2> DEFINE A == {f \in free : f <= m}  B == {f \in free : f <= n}
  <2>1. m \in Nat /\ n \in Nat /\ free \subseteq Nat
    BY Constant
  <2>2. A \in SUBSET B /\ IsFiniteSet(B) /\ n \in B /\ n \notin A
    BY <1>3, <1>5, <2>1
  <2> HIDE DEF A, B
  <2>3. Cardinality(A) # Cardinality(B)
    BY <2>2, FS_Subset
  <2> QED
    BY <2>3 DEF A, B
<1>6. \A m, n \in free : Rank(m) = Rank(n) => m = n
  <2>1. \A m, n \in free : m # n => m < n \/ n < m
    BY Constant
  <2> QED
    BY <1>5, <2>1
<1>7. \A m \in Minor : m \in free <=> serial_minors[m] = NULL
  OBVIOUS
<1>8. NULL \notin Port
  BY SerialAssumption
<1> HIDE DEF Rank, free
<1>9. \A m \in free : Rank(m) <= k => <<s, Rank(m)>> \in Port
  <2>1. \A m \in free : Rank(m) <= k => Rank(m) \in 1 .. MaxPorts
    BY <1>1, <1>4, SerialAssumption
  <2> QED
    BY <2>1 DEF Port
<1>10. \A m \in free : IF Rank(m) <= k THEN serial_minors'[m] = <<s, Rank(m)>>
                                       ELSE serial_minors'[m] = serial_minors[m]
  BY <1>2, <1>7 DEF free
<1>11. \A m \in Minor : m \notin free => serial_minors'[m] = serial_minors[m]
  BY <1>2
<1>12. serial_minors' \in [Minor -> Port \union {NULL}]
  BY <1>1, <1>2, <1>9
<1> QED
  BY <1>6, <1>7, <1>8, <1>9, <1>10, <1>11, <1>12

LEMMA TypeStep ==
  ASSUME IInv, Next
  PROVE  TypeOK'
<1>1. TypeOK
  BY DEF IInv
<1>2. serial' \in [Serial -> Object] /\ port' \in [Port -> TtyPort] /\ pc' \in [Actor -> Place]
  BY SerialTyped, PortTyped, PcTyped
<1>3. /\ badAccess' \in BOOLEAN /\ unplugged' \in BOOLEAN
      /\ table_lock' \in Thread \union {NULL}
  <2> DEFINE Simple == /\ badAccess' \in BOOLEAN /\ unplugged' \in BOOLEAN
                     /\ table_lock' \in Thread \union {NULL}
  <2>1. badAccess \in BOOLEAN /\ unplugged \in BOOLEAN /\ table_lock \in Thread \union {NULL}
    BY <1>1 DEF TypeOK
  <2>2. ASSUME NEW t \in Thread, NEW m \in Minor, TtyOpen(t, m) \/ ProcShow(t, m) PROVE Simple
    BY ONLY <2>1, <2>2 DEF TtyOpen, ProcShow
  <2>3. ASSUME NEW t \in Thread, ThreadStep(t) PROVE Simple
    BY ONLY <2>1, <2>3 DEF ThreadStep, Find, GetByMinor, Install, PutLocked, UnlockDisc, PortOpen,
         PortActivate, Drained, Use, UseDriver, Put
  <2>4. ASSUME NEW t \in Thread, Write(t) \/ WaitUntilSent(t) \/ Close(t) PROVE Simple
    BY ONLY <2>1, <2>4 DEF Write, WaitUntilSent, Close, Use, UseDriver
  <2>5. ASSUME NEW p \in Port, PortSoftint(p) \/ PortWork(p) \/ Cleanup(p) PROVE Simple
    BY ONLY <2>1, <2>5 DEF PortSoftint, PortWork, Cleanup, Use, UseDriver, Put
  <2>6. ASSUME NEW m \in Minor, Hangup(m) PROVE Simple
    BY ONLY <2>1, <2>6 DEF Hangup, HangUp, UseDriver
  <2>7. ASSUME NEW a \in Actor, Destroy(a) PROVE Simple
    BY ONLY <2>1, <2>7 DEF Destroy, ReleaseMinors, DestroySerial, ModulePut, UseDriver
  <2>8. ASSUME CleanupPut \/ ProbeStep PROVE Simple
    BY ONLY <2>1, <2>8 DEF CleanupPut, ProbeStep, Attach, ProbeError, AllocateMinors, Register, Use,
         UseDriver, Put
  <2>9. ASSUME DisconnectStep PROVE Simple
    BY ONLY <2>1, <2>9 DEF DisconnectStep, Disconnect, DisconnectHangup, DisconnectPoison,
         DisconnectCancel, DisconnectEnd, HangUp, Use, UseDriver
  <2>10. ASSUME Unplug \/ Deregister \/ DeregisterEnd PROVE Simple
    BY ONLY <2>1, <2>10 DEF Unplug, Deregister, DeregisterEnd
  <2>11. ASSUME NEW s \in Serial, Probe(s) \/ Suspend(s) \/ Resume(s) PROVE Simple
    BY ONLY <2>1, <2>11 DEF Probe, Suspend, Resume, Use, UseDriver
  <2>12. Next => Simple
    <3> HIDE DEF Simple
    <3> QED
      BY ONLY <2>2, <2>3, <2>4, <2>5, <2>6, <2>7, <2>8, <2>9, <2>10, <2>11 DEF Next
  <2> QED
    BY <2>12
<1>4. serial_minors' \in [Minor -> Port \union {NULL}]
  <2>1. CASE AllocateMinors
    BY <1>1, <2>1, AllocateDoes, Typed, Constant
  <2>2. ASSUME NEW a \in Actor, ReleaseMinors(a) PROVE serial_minors' \in [Minor -> Port \union {NULL}]
    BY <1>1, <2>2 DEF TypeOK, ReleaseMinors
  <2>3. CASE UNCHANGED serial_minors
    BY <1>1, <2>3 DEF TypeOK
  <2>4. UNCHANGED serial_minors \/ AllocateMinors \/ \E a \in Actor : ReleaseMinors(a)
    BY DEF Next, ThreadStep, Destroy, DisconnectStep, ProbeStep, TtyOpen, ProcShow, Find,
         GetByMinor, Install, PutLocked, UnlockDisc, PortOpen, PortActivate, Drained, Write,
         WaitUntilSent, Close, PortSoftint, PortWork, Cleanup, Hangup,
         DestroySerial, ModulePut, CleanupPut, Attach, ProbeError, Register,
         Disconnect, DisconnectHangup, DisconnectPoison, DisconnectCancel, DisconnectEnd, Unplug,
         Deregister, DeregisterEnd, Probe, Suspend, Resume
  <2> QED
    BY <2>1, <2>2, <2>3, <2>4
<1>5. ttys' \in [Minor -> Tty \union {NULL}]
  <2>1. ttys \in [Minor -> Tty \union {NULL}]
    BY <1>1 DEF TypeOK
  <2>2. ASSUME NEW t \in Thread, NEW m \in Minor, TtyOpen(t, m) PROVE ttys' \in [Minor -> Tty \union {NULL}]
    <3>1. CASE ttys[m] = NULL
      BY <2>1, <2>2, <3>1 DEF TtyOpen
    <3>2. CASE ttys[m] # NULL
      <4>1. ttys[m] \in Tty /\ ttys[m].count \in Nat \ {0}
        BY <2>1, <3>2 DEF Tty
      <4>2. ttys[m].count + 1 \in Nat \ {0}
        BY <4>1
      <4>3. [ttys[m] EXCEPT !.count = ttys[m].count + 1, !.lock = t] \in Tty
        BY <4>1, <4>2 DEF Tty
      <4>4. ttys' = [ttys EXCEPT ![m] = [ttys[m] EXCEPT !.count = ttys[m].count + 1, !.lock = t]]
        BY <2>1, <2>2, <3>2 DEF TtyOpen
      <4> QED
        BY <2>1, <4>3, <4>4
    <3> QED
      BY <3>1, <3>2
  <2>3. ASSUME NEW t \in Thread, Install(t) \/ PortOpen(t) \/ PortActivate(t) \/ Close(t)
        PROVE  ttys' \in [Minor -> Tty \union {NULL}]
    <3> DEFINE m == pc[t].m
    <3>1. m \in Minor
      BY <1>1, Typed, Constant
    <3>2. CASE Install(t)
      <4>1. PortOf(t) \in Port
        BY <3>2 DEF Install, At, IInv, Locks, LocksOf
      <4>2. [port |-> PortOf(t), count |-> 1, lock |-> t] \in Tty
        BY <4>1 DEF Tty
      <4>3. \/ ttys' = [ttys EXCEPT ![m] = [port |-> PortOf(t), count |-> 1, lock |-> t]]
            \/ UNCHANGED ttys
        BY <3>2 DEF Install
      <4> QED
        BY <2>1, <4>2, <4>3
    <3>3. CASE PortOpen(t) \/ PortActivate(t)
      <4>1. ttys[m] \in Tty
        BY <3>3, FileHas DEF PortOpen, PortActivate, At, FilePlaces
      <4>2. [ttys[m] EXCEPT !.lock = NULL] \in Tty
        BY <4>1 DEF Tty
      <4>3. \/ ttys' = [ttys EXCEPT ![m] = [ttys[m] EXCEPT !.lock = NULL]]
            \/ UNCHANGED ttys
        BY <2>1, <3>3 DEF PortOpen, PortActivate
      <4> QED
        BY <2>1, <4>2, <4>3
    <3>4. CASE Close(t)
      <4>1. ttys[m] \in Tty /\ ttys[m].count \in Nat \ {0}
        BY <3>4, FileHas DEF Close, At, FilePlaces, Tty
      <4>2. CASE ttys[m].count = 1
        BY <2>1, <3>4, <4>2 DEF Close
      <4>3. CASE ttys[m].count # 1
        <5>1. ttys[m].count - 1 \in Nat \ {0}
          BY <4>1, <4>3
        <5>2. [ttys[m] EXCEPT !.count = ttys[m].count - 1] \in Tty
          BY <4>1, <5>1 DEF Tty
        <5>3. ttys' = [ttys EXCEPT ![m] = IF ttys[m].count = 1 THEN NULL
                                          ELSE [ttys[m] EXCEPT !.count = ttys[m].count - 1]]
          BY <2>1, <3>1, <3>4 DEF Close
        <5> QED
          BY <2>1, <4>3, <5>2, <5>3
      <4> QED
        BY <4>2, <4>3
    <3> QED
      BY <2>3, <3>2, <3>3, <3>4
  <2>4. CASE UNCHANGED ttys
    BY <2>1, <2>4
  <2>5. \/ UNCHANGED ttys \/ \E t \in Thread, m \in Minor : TtyOpen(t, m)
        \/ \E t \in Thread : Install(t) \/ PortOpen(t) \/ PortActivate(t) \/ Close(t)
    BY DEF Next, ThreadStep, Destroy, DisconnectStep, ProbeStep, ProcShow, Find,
         GetByMinor, PutLocked, UnlockDisc, Drained, Write, WaitUntilSent, PortSoftint, PortWork,
         Cleanup, Hangup, ReleaseMinors, DestroySerial, ModulePut, CleanupPut, Attach, ProbeError,
         AllocateMinors, Register, Disconnect, DisconnectHangup, DisconnectPoison,
         DisconnectCancel, DisconnectEnd, Unplug, Deregister, DeregisterEnd, Probe, Suspend, Resume
  <2> QED
    BY <2>2, <2>3, <2>4, <2>5
<1>6. module' \in [refs : Nat, state : {"loaded", "going", "gone"}]
  <2>1. module \in [refs : Nat, state : {"loaded", "going", "gone"}]
    BY <1>1 DEF TypeOK
  <2>2. ASSUME NEW a \in Actor, ModulePut(a)
        PROVE  module' \in [refs : Nat, state : {"loaded", "going", "gone"}]
    <3>1. module.refs > 0
      BY <1>1, <2>2, ModuleHeld DEF ModulePut, At, IInv, Places, ThreadPlaces, FilePlaces,
            ProbeHoldsModule, Actor
    <3> QED
      BY <2>1, <2>2, <3>1 DEF ModulePut
  <2>3. ASSUME NEW t \in Thread, Install(t)
        PROVE  module' \in [refs : Nat, state : {"loaded", "going", "gone"}]
    BY <2>1, <2>3 DEF Install
  <2>4. ASSUME NEW s \in Serial, Probe(s)
        PROVE  module' \in [refs : Nat, state : {"loaded", "going", "gone"}]
    BY <2>1, <2>4 DEF Probe
  <2>5. CASE Deregister \/ DeregisterEnd
    BY <2>1, <2>5 DEF Deregister, DeregisterEnd
  <2>6. CASE UNCHANGED module
    BY <2>1, <2>6
  <2>7. \/ UNCHANGED module \/ \E a \in Actor : ModulePut(a)
        \/ \E t \in Thread : Install(t)
        \/ \E s \in Serial : Probe(s)
        \/ Deregister \/ DeregisterEnd
    BY DEF Next, ThreadStep, Destroy, DisconnectStep, ProbeStep, TtyOpen, ProcShow, Find,
         GetByMinor, PutLocked, UnlockDisc, PortOpen, PortActivate, Drained, Write,
         WaitUntilSent, Close, PortSoftint, PortWork, Cleanup, Hangup, ReleaseMinors,
         DestroySerial, CleanupPut, Attach, ProbeError, AllocateMinors, Register,
         Disconnect, DisconnectHangup, DisconnectPoison, DisconnectCancel, DisconnectEnd, Unplug,
         Suspend, Resume
  <2> QED
    BY <2>2, <2>3, <2>4, <2>5, <2>6, <2>7
<1> QED
  BY <1>2, <1>3, <1>4, <1>5, <1>6 DEF TypeOK

-----------------------------------------------------------------------------
(* What each step does, field by field.                                    *)

SameName(s) == serial'[s].mem = serial[s].mem /\ serial'[s].num_ports = serial[s].num_ports
SameReserved(s) == serial'[s].minors_reserved <=> serial[s].minors_reserved
SameKref(s) == serial'[s].kref = serial[s].kref
SameMutex(s) == serial'[s].disc_mutex = serial[s].disc_mutex
SameState(s) == /\ serial'[s].disconnected <=> serial[s].disconnected
                /\ serial'[s].bound <=> serial[s].bound
SamePower(s) == /\ serial'[s].pm = serial[s].pm
                /\ serial'[s].poisoned <=> serial[s].poisoned
SameLocals(a) == /\ pc'[a].s = pc[a].s /\ pc'[a].i = pc[a].i /\ pc'[a].m = pc[a].m
                 /\ pc'[a].then = pc[a].then /\ (pc'[a].hung <=> pc[a].hung)
Moved(a, w) == Others(a) /\ pc'[a].at = w /\ SameLocals(a)
Became(a, r) == Others(a) /\ pc'[a] = r

LEMMA Moves ==
  ASSUME TypeOK, NEW a \in Actor
  PROVE  /\ \A w \in Where : Goto(a, w) => Moved(a, w)
         /\ \A r \in Place : pc' = [pc EXCEPT ![a] = r] => Became(a, r)
<1>1. pc \in [Actor -> Place]
  BY DEF TypeOK
<1> QED
  BY <1>1, GotoDoes, PlaceChanges DEF Moved, SameLocals, Became

(* An object of which some fields have changed.                            *)
LEMMA Changes ==
  ASSUME TypeOK, NEW s \in Serial
  PROVE  /\ \A r : serial' = [serial EXCEPT ![s] = r] => OthersKept(s) /\ serial'[s] = r
         /\ \A k : serial' = [serial EXCEPT ![s].kref = k] =>
               /\ OthersKept(s) /\ serial'[s].kref = k
               /\ SameName(s) /\ SameReserved(s) /\ SameMutex(s) /\ SameState(s) /\ SamePower(s)
         /\ \A x : serial' = [serial EXCEPT ![s].disc_mutex = x] =>
               /\ OthersKept(s) /\ serial'[s].disc_mutex = x
               /\ SameName(s) /\ SameReserved(s) /\ SameKref(s) /\ SameState(s) /\ SamePower(s)
         /\ \A b \in BOOLEAN : serial' = [serial EXCEPT ![s].poisoned = b] =>
               /\ OthersKept(s) /\ (serial'[s].poisoned <=> b) /\ serial'[s].pm = serial[s].pm
               /\ SameName(s) /\ SameReserved(s) /\ SameKref(s) /\ SameMutex(s) /\ SameState(s)
         /\ \A b \in BOOLEAN : serial' = [serial EXCEPT ![s].minors_reserved = b] =>
               /\ OthersKept(s) /\ (serial'[s].minors_reserved <=> b)
               /\ SameName(s) /\ SameKref(s) /\ SameMutex(s) /\ SameState(s) /\ SamePower(s)
         /\ \A x : serial' = [serial EXCEPT ![s].mem = x] =>
               /\ OthersKept(s) /\ serial'[s].mem = x /\ serial'[s].num_ports = serial[s].num_ports
               /\ SameReserved(s) /\ SameKref(s) /\ SameMutex(s) /\ SameState(s) /\ SamePower(s)
<1>1. serial \in [Serial -> Object] /\ serial[s] \in Object
  BY DEF TypeOK
<1>2. \A r : serial' = [serial EXCEPT ![s] = r] => OthersKept(s) /\ serial'[s] = r
  BY <1>1 DEF OthersKept
<1>3. ASSUME NEW k, serial' = [serial EXCEPT ![s].kref = k]
      PROVE  /\ OthersKept(s) /\ serial'[s].kref = k
             /\ SameName(s) /\ SameReserved(s) /\ SameMutex(s) /\ SameState(s) /\ SamePower(s)
  BY <1>1, <1>3 DEF OthersKept, Object, SameName, SameReserved, SameMutex, SameState, SamePower
<1>4. ASSUME NEW x, serial' = [serial EXCEPT ![s].disc_mutex = x]
      PROVE  /\ OthersKept(s) /\ serial'[s].disc_mutex = x
             /\ SameName(s) /\ SameReserved(s) /\ SameKref(s) /\ SameState(s) /\ SamePower(s)
  BY <1>1, <1>4 DEF OthersKept, Object, SameName, SameReserved, SameKref, SameState, SamePower
<1>5. ASSUME NEW b \in BOOLEAN, serial' = [serial EXCEPT ![s].poisoned = b]
      PROVE  /\ OthersKept(s) /\ (serial'[s].poisoned <=> b) /\ serial'[s].pm = serial[s].pm
             /\ SameName(s) /\ SameReserved(s) /\ SameKref(s) /\ SameMutex(s) /\ SameState(s)
  BY <1>1, <1>5 DEF OthersKept, Object, SameName, SameReserved, SameKref, SameMutex, SameState
<1>6. ASSUME NEW b \in BOOLEAN, serial' = [serial EXCEPT ![s].minors_reserved = b]
      PROVE  /\ OthersKept(s) /\ (serial'[s].minors_reserved <=> b)
             /\ SameName(s) /\ SameKref(s) /\ SameMutex(s) /\ SameState(s) /\ SamePower(s)
  BY <1>1, <1>6 DEF OthersKept, Object, SameName, SameKref, SameMutex, SameState, SamePower
<1>7. ASSUME NEW x, serial' = [serial EXCEPT ![s].mem = x]
      PROVE  /\ OthersKept(s) /\ serial'[s].mem = x /\ serial'[s].num_ports = serial[s].num_ports
             /\ SameReserved(s) /\ SameKref(s) /\ SameMutex(s) /\ SameState(s) /\ SamePower(s)
  BY <1>1, <1>7 DEF OthersKept, Object, SameReserved, SameKref, SameMutex, SameState, SamePower
<1> QED
  BY <1>2, <1>3, <1>4, <1>5, <1>6, <1>7

LEMMA ReleaseMinorsDoes ==
  ASSUME IInv, NEW a \in Actor, ReleaseMinors(a), NEW s \in Serial, s = pc[a].s
  PROVE  /\ a \in {"hub", "worker"} /\ pc[a].at = "destroy" /\ Moved(a, "free")
         /\ OthersKept(s) /\ ~serial'[s].minors_reserved
         /\ SameName(s) /\ SameKref(s) /\ SameMutex(s) /\ SameState(s) /\ SamePower(s)
         /\ \A m \in Minor : /\ serial_minors'[m] = serial_minors[m] \/ serial_minors'[m] = NULL
                             /\ serial_minors'[m] # NULL => serial_minors[m][1] # s
                             /\ serial_minors[m] # NULL /\ serial_minors[m][1] # s
                                => serial_minors'[m] = serial_minors[m]
         /\ UNCHANGED <<table_lock, ttys, port, module, unplugged, badAccess>>
<1>1. TypeOK /\ pc[a].at = "destroy"
  BY DEF IInv, ReleaseMinors, At
<1>2. a \in {"hub", "worker"}
  BY <1>1 DEF IInv, Places, ThreadPlaces, FilePlaces, Actor
<1>3. Moved(a, "free")
  BY <1>1, Moves, Names DEF ReleaseMinors
<1>4. serial' = [serial EXCEPT ![s].minors_reserved = FALSE]
  BY DEF ReleaseMinors
<1>5. \A m \in Minor :
         serial_minors'[m] = IF serial[s].minors_reserved /\ serial_minors[m] # NULL
                                /\ serial_minors[m] \in {<<s, i>> : i \in 1 .. serial[s].num_ports}
                             THEN NULL ELSE serial_minors[m]
  BY DEF ReleaseMinors
<1>6. ASSUME NEW m \in Minor, serial_minors[m] # NULL, serial_minors[m][1] = s
      PROVE  /\ serial[s].minors_reserved
             /\ serial_minors[m] \in {<<s, i>> : i \in 1 .. serial[s].num_ports}
  <2>1. /\ serial[s].minors_reserved /\ serial_minors[m][2] <= serial[s].num_ports
        /\ serial_minors[m] \in Port
    BY <1>1, <1>6, Typed DEF IInv, Numbers
  <2>2. serial_minors[m] = <<s, serial_minors[m][2]>> /\ serial_minors[m][2] \in 1 .. MaxPorts
    BY <1>6, <2>1 DEF Port
  <2>3. serial[s].num_ports \in Nat
    BY <1>1, SerialAssumption DEF TypeOK, Object
  <2>4. serial_minors[m][2] \in 1 .. serial[s].num_ports
    BY <2>1, <2>2, <2>3, SerialAssumption
  <2> QED
    BY <2>1, <2>2, <2>4
<1>7. \A m \in Minor : serial_minors[m] \in {<<s, i>> : i \in 1 .. serial[s].num_ports}
                       => serial_minors[m][1] = s
  OBVIOUS
<1> DEFINE mine(m) == serial_minors[m] \in {<<s, i>> : i \in 1 .. serial[s].num_ports}
<1>8. \A m \in Minor : /\ serial_minors[m] # NULL /\ serial_minors[m][1] = s =>
                             serial[s].minors_reserved /\ mine(m)
                       /\ mine(m) => serial_minors[m][1] = s
                       /\ serial_minors'[m] = IF serial[s].minors_reserved /\ serial_minors[m] # NULL
                                                 /\ mine(m) THEN NULL ELSE serial_minors[m]
  BY <1>5, <1>6, <1>7
<1> HIDE DEF mine
<1>9. \A m \in Minor : /\ serial_minors'[m] = serial_minors[m] \/ serial_minors'[m] = NULL
                       /\ serial_minors'[m] # NULL => serial_minors[m][1] # s
                       /\ serial_minors[m] # NULL /\ serial_minors[m][1] # s
                          => serial_minors'[m] = serial_minors[m]
  BY <1>8
<1> QED
  BY <1>1, <1>2, <1>3, <1>4, <1>9, Changes DEF ReleaseMinors

LEMMA DestroySerialDoes ==
  ASSUME IInv, NEW a \in Actor, DestroySerial(a), NEW s \in Serial, s = pc[a].s
  PROVE  /\ a \in {"hub", "worker"} /\ pc[a].at = "free" /\ Moved(a, pc[a].then)
         /\ OthersKept(s) /\ serial'[s].mem = "freed" /\ serial'[s].num_ports = serial[s].num_ports
         /\ SameReserved(s) /\ SameKref(s) /\ SameMutex(s) /\ SameState(s) /\ SamePower(s)
         /\ badAccess' = (serial[s].mem # "alive" \/ (serial[s].attached /\ module.state = "gone"))
         /\ UNCHANGED <<table_lock, serial_minors, ttys, port, module, unplugged>>
<1>1. TypeOK /\ pc[a].at = "free" /\ pc[a].then \in Where
  BY DEF IInv, DestroySerial, At, TypeOK, Place
<1>2. a \in {"hub", "worker"}
  BY <1>1 DEF IInv, Places, ThreadPlaces, FilePlaces, Actor
<1>3. Moved(a, pc[a].then)
  BY <1>1, Moves DEF DestroySerial
<1>4. serial' = [serial EXCEPT ![s].mem = "freed"]
  BY DEF DestroySerial
<1>5. /\ OthersKept(s) /\ serial'[s].mem = "freed" /\ serial'[s].num_ports = serial[s].num_ports
      /\ SameReserved(s) /\ SameKref(s) /\ SameMutex(s) /\ SameState(s) /\ SamePower(s)
  BY <1>1, <1>4, Changes
<1>6. /\ badAccess' = (serial[s].mem # "alive" \/ (serial[s].attached /\ module.state = "gone"))
      /\ UNCHANGED <<table_lock, serial_minors, ttys, port, module, unplugged>>
  BY DEF DestroySerial, UseDriver
<1> QED
  BY ONLY <1>1, <1>2, <1>3, <1>5, <1>6

LEMMA ModulePutDoes ==
  ASSUME IInv, NEW a \in Actor, ModulePut(a)
  PROVE  /\ a \in {"hub", "worker"} /\ pc[a].at = "module_put"
         /\ Others(a) /\ pc'[a].at = "idle" /\ ~pc'[a].hung /\ pc'[a].s = pc[a].s
         /\ module'.refs = module.refs - 1 /\ module'.state = module.state
         /\ UNCHANGED <<table_lock, serial, serial_minors, ttys, port, unplugged, badAccess>>
<1>1. TypeOK /\ pc[a].at = "module_put" /\ pc[a].s \in Serial
  BY Typed DEF IInv, ModulePut, At
<1>2. a \in {"hub", "worker"}
  BY <1>1 DEF IInv, Places, ThreadPlaces, FilePlaces, Actor
<1>3. [Idle EXCEPT !.s = pc[a].s] \in Place /\ [Idle EXCEPT !.s = pc[a].s].at = "idle"
      /\ ~[Idle EXCEPT !.s = pc[a].s].hung /\ [Idle EXCEPT !.s = pc[a].s].s = pc[a].s
  BY <1>1, Constant, Names DEF Idle, Place
<1>4. Became(a, [Idle EXCEPT !.s = pc[a].s])
  BY <1>1, <1>3, Moves DEF ModulePut
<1>5. module' = [module EXCEPT !.refs = module.refs - 1]
  BY DEF ModulePut
<1>6. module'.refs = module.refs - 1 /\ module'.state = module.state
  BY <1>1, <1>5 DEF TypeOK
<1> QED
  BY <1>1, <1>2, <1>3, <1>4, <1>6 DEF ModulePut, Became

LEMMA TtyOpenDoes ==
  ASSUME IInv, NEW t \in Thread, NEW m \in Minor, TtyOpen(t, m)
  PROVE  /\ pc[t].at = "idle" /\ Others(t) /\ ~pc'[t].hung /\ pc'[t].m = m
         /\ \A u \in Thread : ~Installing(u)
         /\ UNCHANGED <<table_lock, serial, serial_minors, port, module, unplugged, badAccess>>
         /\ \/ /\ ttys[m] = NULL /\ UNCHANGED ttys
               /\ pc'[t].at = "find" /\ pc'[t].then = "install"
            \/ /\ ttys[m] # NULL /\ ttys[m].lock = NULL /\ \A n \in Minor : n # m => ttys'[n] = ttys[n]
               /\ ttys'[m] # NULL /\ ttys'[m].port = ttys[m].port
               /\ ttys'[m].count = ttys[m].count + 1 /\ ttys'[m].lock = t
               /\ pc'[t].at = "port_open" /\ pc'[t].s = ttys[m].port[1] /\ pc'[t].i = ttys[m].port[2]
<1>1. TypeOK /\ pc[t].at = "idle" /\ t \in Actor
  BY Constant DEF IInv, TtyOpen, At
<1>2. CASE ttys[m] = NULL
  <2> DEFINE r == [Idle EXCEPT !.at = "find", !.m = m, !.then = "install"]
  <2>1. r \in Place /\ r.at = "find" /\ r.then = "install" /\ r.m = m /\ ~r.hung
    BY Constant, Names DEF Idle, Place
  <2>2. pc' = [pc EXCEPT ![t] = r] /\ UNCHANGED ttys
    BY <1>2 DEF TtyOpen
  <2> HIDE DEF r
  <2>3. Others(t) /\ pc'[t] = r
    BY <1>1, <2>1, <2>2, Moves DEF Became
  <2> QED
    BY <1>1, <1>2, <2>1, <2>2, <2>3 DEF TtyOpen
<1>3. CASE ttys[m] # NULL
  <2> DEFINE r == [Idle EXCEPT !.at = "port_open", !.m = m, !.s = ttys[m].port[1],
                               !.i = ttys[m].port[2]]
  <2>1. ttys[m] \in Tty /\ ttys[m].port[1] \in Serial /\ ttys[m].port[2] \in Nat
    BY <1>1, <1>3, Typed DEF Tty
  <2>2. r \in Place /\ r.at = "port_open" /\ r.m = m /\ ~r.hung
        /\ r.s = ttys[m].port[1] /\ r.i = ttys[m].port[2]
    BY <2>1, Constant, Names DEF Idle, Place
  <2>3. pc' = [pc EXCEPT ![t] = r] /\ ttys[m].lock = NULL
    BY <1>3 DEF TtyOpen
  <2> HIDE DEF r
  <2>4. Others(t) /\ pc'[t] = r
    BY <1>1, <2>2, <2>3, Moves DEF Became
  <2>5. ttys' = [ttys EXCEPT ![m] = [ttys[m] EXCEPT !.count = ttys[m].count + 1, !.lock = t]]
    BY <1>1, <1>3 DEF TtyOpen, TypeOK
  <2>6. ttys[m].count + 1 \in Nat \ {0}
    BY <2>1 DEF Tty
  <2> DEFINE q == [ttys[m] EXCEPT !.count = ttys[m].count + 1, !.lock = t]
  <2>7. q \in Tty /\ q.port = ttys[m].port /\ q.count = ttys[m].count + 1 /\ q.lock = t
    BY <2>1, <2>6 DEF Tty
  <2>8. ttys' = [ttys EXCEPT ![m] = q]
    BY <2>5
  <2> HIDE DEF q
  <2>9. ttys'[m] = q /\ \A n \in Minor : n # m => ttys'[n] = ttys[n]
    BY <1>1, <2>8 DEF TypeOK
  <2>10. q # NULL
    BY <2>7, SerialAssumption
  <2> QED
    BY <1>1, <1>3, <2>2, <2>3, <2>4, <2>7, <2>9, <2>10 DEF TtyOpen
<1> QED
  BY <1>2, <1>3

LEMMA ProcShowDoes ==
  ASSUME IInv, NEW t \in Thread, NEW m \in Minor, ProcShow(t, m)
  PROVE  /\ pc[t].at = "idle" /\ Others(t) /\ ~pc'[t].hung /\ pc'[t].m = m
         /\ pc'[t].at = "find" /\ pc'[t].then = "put"
         /\ UNCHANGED <<table_lock, serial, serial_minors, ttys, port, module, unplugged, badAccess>>
<1> DEFINE r == [Idle EXCEPT !.at = "find", !.m = m, !.then = "put"]
<1>1. r \in Place /\ r.at = "find" /\ r.then = "put" /\ r.m = m /\ ~r.hung
  BY Constant, Names DEF Idle, Place
<1>2. pc' = [pc EXCEPT ![t] = r]
  BY DEF ProcShow
<1> HIDE DEF r
<1>3. Others(t) /\ pc'[t] = r
  BY <1>1, <1>2, Moves, Constant DEF Became, IInv
<1> QED
  BY <1>1, <1>3 DEF ProcShow, At

LEMMA FindDoes ==
  ASSUME IInv, NEW t \in Thread, Find(t), NEW m \in Minor, m = pc[t].m
  PROVE  /\ pc[t].at = "find" /\ table_lock = NULL
         /\ UNCHANGED <<serial, serial_minors, ttys, port, module, unplugged, badAccess>>
         /\ \/ serial_minors[m] = NULL /\ Became(t, Idle) /\ UNCHANGED table_lock
            \/ /\ serial_minors[m] # NULL /\ table_lock' = t /\ Others(t)
               /\ pc'[t].at = "get" /\ pc'[t].s = serial_minors[m][1]
               /\ pc'[t].i = serial_minors[m][2] /\ pc'[t].m = m
               /\ pc'[t].then = pc[t].then /\ (pc'[t].hung <=> pc[t].hung)
<1>1. TypeOK /\ pc[t].at = "find" /\ t \in Actor /\ pc \in [Actor -> Place]
  BY Constant DEF IInv, Find, At, TypeOK
<1>2. CASE serial_minors[m] = NULL
  <2>1. Became(t, Idle)
    BY <1>1, <1>2, Moves, Constant DEF Find
  <2> QED
    BY <1>1, <1>2, <2>1 DEF Find
<1>3. CASE serial_minors[m] # NULL
  <2>1. serial_minors[m][1] \in Serial /\ serial_minors[m][2] \in Nat
    BY <1>1, <1>3, Typed
  <2>2. pc' = [pc EXCEPT ![t].at = "get", ![t].s = serial_minors[m][1], ![t].i = serial_minors[m][2]]
    BY <1>3 DEF Find
  <2>3. /\ Others(t) /\ pc'[t].at = "get" /\ pc'[t].s = serial_minors[m][1]
        /\ pc'[t].i = serial_minors[m][2] /\ pc'[t].m = m
        /\ pc'[t].then = pc[t].then /\ (pc'[t].hung <=> pc[t].hung)
    BY <1>1, <2>1, <2>2, Names DEF Place, Others
  <2> QED
    BY <1>1, <1>3, <2>3 DEF Find
<1> QED
  BY <1>2, <1>3

LEMMA GetByMinorDoes ==
  ASSUME IInv, NEW t \in Thread, GetByMinor(t), NEW s \in Serial, s = pc[t].s
  PROVE  /\ pc[t].at = "get" /\ serial[s].disc_mutex = NULL /\ table_lock' = NULL
         /\ badAccess' = (serial[s].mem # "alive")
         /\ UNCHANGED <<serial_minors, ttys, port, module, unplugged>>
         /\ \/ serial[s].disconnected /\ Became(t, Idle) /\ UNCHANGED serial
            \/ /\ ~serial[s].disconnected /\ Moved(t, pc[t].then)
               /\ OthersKept(s) /\ serial'[s].kref = serial[s].kref + 1 /\ serial'[s].disc_mutex = t
               /\ SameName(s) /\ SameReserved(s) /\ SameState(s) /\ SamePower(s)
<1>1. TypeOK /\ pc[t].at = "get" /\ t \in Actor /\ pc[t].then \in Where
  BY Constant DEF IInv, GetByMinor, At, TypeOK, Place
<1>2. CASE serial[s].disconnected
  <2>1. Became(t, Idle)
    BY <1>1, <1>2, Moves, Constant DEF GetByMinor
  <2> QED
    BY <1>1, <1>2, <2>1 DEF GetByMinor, Use, Unlocked
<1>3. CASE ~serial[s].disconnected
  <2>1. Moved(t, pc[t].then)
    BY <1>1, <1>3, Moves DEF GetByMinor
  <2>2. serial' = [serial EXCEPT ![s].kref = serial[s].kref + 1, ![s].disc_mutex = t]
    BY <1>3 DEF GetByMinor
  <2>3. serial \in [Serial -> Object] /\ serial[s] \in Object
    BY <1>1 DEF TypeOK
  <2>4. /\ OthersKept(s) /\ serial'[s].kref = serial[s].kref + 1 /\ serial'[s].disc_mutex = t
        /\ SameName(s) /\ SameReserved(s) /\ SameState(s) /\ SamePower(s)
    BY <2>2, <2>3 DEF OthersKept, Object, SameName, SameReserved, SameState, SamePower
  <2> QED
    BY <1>1, <1>3, <2>1, <2>4 DEF GetByMinor, Use, Unlocked
<1> QED
  BY <1>2, <1>3

LEMMA InstallDoes ==
  ASSUME IInv, NEW t \in Thread, Install(t), NEW s \in Serial, s = pc[t].s,
         NEW m \in Minor, m = pc[t].m
  PROVE  /\ pc[t].at = "install" /\ badAccess' = (serial[s].mem # "alive")
         /\ UNCHANGED <<table_lock, serial_minors, port, unplugged>>
         /\ \/ /\ module.state = "loaded" /\ module'.refs = module.refs + 1
               /\ module'.state = "loaded" /\ Moved(t, "port_open")
               /\ \A n \in Minor : n # m => ttys'[n] = ttys[n]
               /\ ttys'[m] # NULL /\ ttys'[m].port = PortOf(t) /\ ttys'[m].count = 1
               /\ ttys'[m].lock = t
               /\ OthersKept(s) /\ serial'[s].pm = serial[s].pm + 1 /\ ~serial'[s].poisoned
               /\ serial'[s].disc_mutex = NULL
               /\ SameName(s) /\ SameReserved(s) /\ SameKref(s) /\ SameState(s)
            \/ Moved(t, "put") /\ UNCHANGED <<module, serial, ttys>>
<1>1. TypeOK /\ pc[t].at = "install" /\ t \in Actor
  BY Constant DEF IInv, Install, At
<1>2. CASE Goto(t, "put") /\ UNCHANGED <<module, serial, ttys>>
  BY <1>1, <1>2, Moves, Names DEF Install, Use
<1>3. CASE /\ module.state = "loaded" /\ module' = [module EXCEPT !.refs = module.refs + 1]
           /\ serial' = [serial EXCEPT ![s].pm = serial[s].pm + 1, ![s].poisoned = FALSE,
                                       ![s].disc_mutex = NULL]
           /\ ttys' = [ttys EXCEPT ![m] = [port |-> PortOf(t), count |-> 1, lock |-> t]]
           /\ Goto(t, "port_open")
  <2>1. Moved(t, "port_open")
    BY <1>1, <1>3, Moves, Names
  <2>2. serial \in [Serial -> Object] /\ serial[s] \in Object
    BY <1>1 DEF TypeOK
  <2>3. /\ OthersKept(s) /\ serial'[s].pm = serial[s].pm + 1 /\ ~serial'[s].poisoned
        /\ serial'[s].disc_mutex = NULL
        /\ SameName(s) /\ SameReserved(s) /\ SameKref(s) /\ SameState(s)
    BY <1>3, <2>2 DEF OthersKept, Object, SameName, SameReserved, SameKref, SameState
  <2>4. module'.refs = module.refs + 1 /\ module'.state = "loaded"
    BY <1>1, <1>3 DEF TypeOK
  <2> DEFINE q == [port |-> PortOf(t), count |-> 1, lock |-> t]
  <2>5. q \in Tty /\ q # NULL
    <3>1. PortOf(t) \in Port
      BY <1>1 DEF IInv, Locks, LocksOf
    <3>2. q \in Tty
      BY <3>1 DEF Tty
    <3> QED
      BY <3>2, SerialAssumption
  <2>6. q.port = PortOf(t) /\ q.count = 1 /\ q.lock = t
    OBVIOUS
  <2> HIDE DEF q
  <2>7. ttys'[m] = q /\ \A n \in Minor : n # m => ttys'[n] = ttys[n]
    BY <1>1, <1>3 DEF TypeOK, q
  <2> QED
    BY <1>1, <1>3, <2>1, <2>3, <2>4, <2>5, <2>6, <2>7 DEF Install, Use
<1> QED
  BY <1>2, <1>3 DEF Install

LEMMA PutLockedDoes ==
  ASSUME IInv, NEW t \in Thread, PutLocked(t), NEW s \in Serial, s = pc[t].s
  PROVE  /\ pc[t].at = "put" /\ Others(t) /\ pc'[t].at = "unlock"
         /\ pc'[t].s = s /\ pc'[t].then = "unlock" /\ (pc'[t].hung <=> pc[t].hung)
         /\ OthersKept(s) /\ serial'[s].kref = serial[s].kref - 1 /\ serial[s].kref > 1
         /\ SameName(s) /\ SameReserved(s) /\ SameMutex(s) /\ SameState(s) /\ SamePower(s)
         /\ badAccess' = (serial[s].mem # "alive")
         /\ UNCHANGED <<table_lock, serial_minors, ttys, port, module, unplugged>>
<1>1. TypeOK /\ pc[t].at = "put" /\ t \in Actor
  BY Constant DEF IInv, PutLocked, At
<1>2. serial[s].kref > 0 /\ serial[s].kref > 1 /\ serial[s].kref # 1
  BY <1>1, LookupHas DEF Its
<1>3. serial' = [serial EXCEPT ![s].kref = serial[s].kref - 1]
  BY DEF PutLocked, Put
<1>4. /\ OthersKept(s) /\ serial'[s].kref = serial[s].kref - 1
      /\ SameName(s) /\ SameReserved(s) /\ SameMutex(s) /\ SameState(s) /\ SamePower(s)
  BY <1>1, <1>3, Changes
<1>5. /\ Others(t) /\ pc'[t].at = "unlock" /\ pc'[t].s = s /\ (pc'[t].hung <=> pc[t].hung)
      /\ pc'[t].then = "unlock"
      /\ badAccess' = (serial[s].mem # "alive")
  <2>1. Put(t, s, "unlock") /\ "unlock" \in Where
    BY Names DEF PutLocked
  <2> QED
    BY <1>1, <1>2, <2>1, PutDoes
<1> QED
  BY <1>1, <1>2, <1>4, <1>5 DEF PutLocked

LEMMA UnlockDiscDoes ==
  ASSUME IInv, NEW t \in Thread, UnlockDisc(t), NEW s \in Serial, s = pc[t].s
  PROVE  /\ pc[t].at = "unlock" /\ Became(t, Idle)
         /\ OthersKept(s) /\ serial'[s].disc_mutex = NULL
         /\ SameName(s) /\ SameReserved(s) /\ SameKref(s) /\ SameState(s) /\ SamePower(s)
         /\ badAccess' = (serial[s].mem # "alive")
         /\ UNCHANGED <<table_lock, serial_minors, ttys, port, module, unplugged>>
<1>1. TypeOK /\ pc[t].at = "unlock" /\ t \in Actor
  BY Constant DEF IInv, UnlockDisc, At
<1>2. serial' = [serial EXCEPT ![s].disc_mutex = NULL]
  BY DEF UnlockDisc
<1>3. Became(t, Idle)
  BY <1>1, Moves, Constant DEF UnlockDisc
<1> QED
  BY <1>1, <1>2, <1>3, Changes DEF UnlockDisc, Use

OtherPorts(p) == \A q \in Port : q # p => port'[q] = port[q]
OtherTtys(m) == \A n \in Minor : n # m => ttys'[n] = ttys[n]
SameCount(p) == port'[p].count = port[p].count /\ (port'[p].tty <=> port[p].tty)
SameOpen(p) == /\ port'[p].initialized <=> port[p].initialized
               /\ port'[p].open <=> port[p].open
SameUrbs(p) == /\ port'[p].urb <=> port[p].urb
               /\ port'[p].work <=> port[p].work

(* serial_open and the driver's open give the lock of the tty back.        *)
LEMMA LockGiven ==
  ASSUME TypeOK, NEW m \in Minor, ttys[m] \in Tty, ttys' = [ttys EXCEPT ![m].lock = NULL]
  PROVE  /\ OtherTtys(m) /\ ttys'[m] # NULL /\ ttys'[m].port = ttys[m].port
         /\ ttys'[m].count = ttys[m].count /\ ttys'[m].lock = NULL
<1> DEFINE q == [ttys[m] EXCEPT !.lock = NULL]
<1>1. ttys' = [ttys EXCEPT ![m] = q]
  BY DEF TypeOK
<1>2. q \in Tty /\ q.port = ttys[m].port /\ q.count = ttys[m].count /\ q.lock = NULL
  BY DEF Tty
<1> HIDE DEF q
<1>3. ttys'[m] = q /\ OtherTtys(m)
  BY <1>1 DEF TypeOK, OtherTtys
<1> QED
  BY <1>2, <1>3, SerialAssumption

LEMMA PortOpenDoes ==
  ASSUME IInv, NEW t \in Thread, PortOpen(t), NEW p, p = PortOf(t), NEW m \in Minor, m = pc[t].m
  PROVE  /\ pc[t].at = "port_open" /\ p \in Port
         /\ badAccess' = (serial[pc[t].s].mem # "alive")
         /\ UNCHANGED <<table_lock, serial, serial_minors, module, unplugged>>
         /\ OtherPorts(p) /\ port'[p].count = port[p].count + 1 /\ port'[p].tty
         /\ SameOpen(p) /\ SameUrbs(p) /\ port'[p].dying = port[p].dying
         /\ \/ /\ port[p].initialized /\ Moved(t, "running")
               /\ OtherTtys(m) /\ ttys'[m] # NULL /\ ttys'[m].port = ttys[m].port
               /\ ttys'[m].count = ttys[m].count /\ ttys'[m].lock = NULL
            \/ ~port[p].initialized /\ Moved(t, "activate") /\ UNCHANGED ttys
<1>1. TypeOK /\ pc[t].at = "port_open" /\ t \in Actor
  BY Constant DEF IInv, PortOpen, At
<1>2. p \in Port /\ ttys[m] \in Tty
  BY <1>1, FileHas DEF FilePlaces
<1>3. port \in [Port -> TtyPort] /\ port[p] \in TtyPort
  BY <1>1, <1>2 DEF TypeOK
<1>4. port' = [port EXCEPT ![p].count = port[p].count + 1, ![p].tty = TRUE]
  BY DEF PortOpen
<1>5. /\ OtherPorts(p) /\ port'[p].count = port[p].count + 1 /\ port'[p].tty
      /\ SameOpen(p) /\ SameUrbs(p) /\ port'[p].dying = port[p].dying
  BY <1>2, <1>3, <1>4 DEF OtherPorts, SameOpen, SameUrbs, TtyPort
<1>6. CASE port[p].initialized
  <2>1. Goto(t, "running") /\ ttys' = [ttys EXCEPT ![m].lock = NULL]
    BY <1>6 DEF PortOpen
  <2> QED
    BY <1>1, <1>2, <1>5, <1>6, <2>1, LockGiven, Moves, Names DEF PortOpen, Use
<1>7. CASE ~port[p].initialized
  <2>1. Goto(t, "activate") /\ UNCHANGED ttys
    BY <1>7 DEF PortOpen
  <2> QED
    BY <1>1, <1>2, <1>5, <1>7, <2>1, Moves, Names DEF PortOpen, Use
<1> QED
  BY <1>6, <1>7

LEMMA PortActivateDoes ==
  ASSUME IInv, NEW t \in Thread, PortActivate(t), NEW p, p = PortOf(t), NEW m \in Minor, m = pc[t].m
  PROVE  /\ pc[t].at = "activate" /\ p \in Port /\ serial[pc[t].s].disc_mutex = NULL
         /\ badAccess' => serial[pc[t].s].mem # "alive" \/ module.state = "gone"
         /\ UNCHANGED <<table_lock, serial, serial_minors, module, unplugged>>
         /\ OtherTtys(m) /\ ttys'[m] # NULL /\ ttys'[m].port = ttys[m].port
         /\ ttys'[m].count = ttys[m].count /\ ttys'[m].lock = NULL
         /\ \/ /\ ~serial[pc[t].s].disconnected /\ Moved(t, "running")
               /\ OtherPorts(p) /\ port'[p].initialized /\ port'[p].open
               /\ SameCount(p) /\ SameUrbs(p) /\ port'[p].dying = port[p].dying
            \/ Moved(t, "close") /\ UNCHANGED port
<1>1. TypeOK /\ pc[t].at = "activate" /\ t \in Actor
  BY Constant DEF IInv, PortActivate, At
<1>2. p \in Port /\ ttys[m] \in Tty
  BY <1>1, FileHas DEF FilePlaces
<1>3. port \in [Port -> TtyPort] /\ port[p] \in TtyPort
  BY <1>1, <1>2 DEF TypeOK
<1>4. /\ OtherTtys(m) /\ ttys'[m] # NULL /\ ttys'[m].port = ttys[m].port
      /\ ttys'[m].count = ttys[m].count /\ ttys'[m].lock = NULL
  <2>1. ttys' = [ttys EXCEPT ![m].lock = NULL]
    BY DEF PortActivate
  <2> QED
    BY <1>1, <1>2, <2>1, LockGiven
<1>5. CASE Goto(t, "close") /\ UNCHANGED port
  BY <1>1, <1>2, <1>4, <1>5, Moves, Names DEF PortActivate, UseDriver, Unlocked
<1>6. CASE /\ ~serial[pc[t].s].disconnected /\ Goto(t, "running")
           /\ port' = [port EXCEPT ![p].initialized = TRUE, ![p].open = TRUE]
  <2>1. /\ OtherPorts(p) /\ port'[p].initialized /\ port'[p].open
        /\ SameCount(p) /\ SameUrbs(p) /\ port'[p].dying = port[p].dying
    BY <1>2, <1>3, <1>6 DEF OtherPorts, SameCount, SameUrbs, TtyPort
  <2> QED
    BY <1>1, <1>2, <1>4, <1>6, <2>1, Moves, Names DEF PortActivate, UseDriver, Unlocked
<1> QED
  BY <1>5, <1>6 DEF PortActivate

LEMMA WriteDoes ==
  ASSUME IInv, NEW t \in Thread, Write(t), NEW p, p = PortOf(t)
  PROVE  /\ pc[t].at = "running" /\ p \in Port
         /\ badAccess' => serial[pc[t].s].mem # "alive" \/ module.state = "gone"
         /\ UNCHANGED <<table_lock, serial, serial_minors, ttys, pc, module, unplugged>>
         /\ port[p].open
         /\ OtherPorts(p) /\ port'[p].urb /\ (port'[p].work <=> port[p].work)
         /\ SameCount(p) /\ SameOpen(p) /\ port'[p].dying = port[p].dying
<1>1. TypeOK /\ pc[t].at = "running" /\ t \in Actor
  BY Constant DEF IInv, Write, At
<1>2. p \in Port
  BY <1>1, FileHas DEF FilePlaces
<1>3. port \in [Port -> TtyPort] /\ port[p] \in TtyPort
  BY <1>1, <1>2 DEF TypeOK
<1>4. port' = [port EXCEPT ![p].urb = TRUE]
  BY DEF Write
<1>5. /\ OtherPorts(p) /\ port'[p].urb /\ (port'[p].work <=> port[p].work)
      /\ SameCount(p) /\ SameOpen(p) /\ port'[p].dying = port[p].dying
  BY <1>2, <1>3, <1>4 DEF OtherPorts, SameCount, SameOpen, TtyPort
<1> QED
  BY <1>1, <1>2, <1>5 DEF Write, UseDriver

LEMMA SoftintDoes ==
  ASSUME IInv, NEW p \in Port, PortSoftint(p) \/ PortWork(p)
  PROVE  /\ UNCHANGED <<table_lock, serial, serial_minors, ttys, pc, module, unplugged>>
         /\ OtherPorts(p) /\ (port'[p].urb => port[p].urb)
         /\ port'[p].work => port[p].urb \/ port[p].work
         /\ SameCount(p) /\ SameOpen(p) /\ port'[p].dying = port[p].dying
         /\ \/ UNCHANGED badAccess
            \/ port[p].work /\ badAccess' = (serial[p[1]].mem # "alive")
<1>1. port \in [Port -> TtyPort] /\ port[p] \in TtyPort
  BY DEF IInv, TypeOK
<1>2. CASE PortSoftint(p)
  BY <1>1, <1>2 DEF PortSoftint, OtherPorts, SameCount, SameOpen, TtyPort
<1>3. CASE PortWork(p)
  BY <1>1, <1>3 DEF PortWork, OtherPorts, SameCount, SameOpen, TtyPort, Use
<1> QED
  BY <1>2, <1>3

LEMMA DrainDoes ==
  ASSUME IInv, NEW t \in Thread, WaitUntilSent(t) \/ Drained(t), NEW s \in Serial, s = pc[t].s
  PROVE  /\ pc[t].at \in {"running", "drain"} /\ OthersKept(s)
         /\ SameName(s) /\ SameReserved(s) /\ SameKref(s) /\ SameState(s) /\ SamePower(s)
         /\ UNCHANGED <<table_lock, serial_minors, ttys, port, module, unplugged>>
         /\ badAccess' => serial[s].mem # "alive" \/ module.state = "gone"
         /\ \/ /\ pc[t].at = "running" /\ Moved(t, "drain") /\ ~serial[s].disconnected
               /\ serial[s].disc_mutex = NULL /\ serial'[s].disc_mutex = t
            \/ pc[t].at = "drain" /\ Moved(t, "running") /\ serial'[s].disc_mutex = NULL
<1>1. TypeOK /\ t \in Actor
  BY Constant DEF IInv
<1>2. CASE WaitUntilSent(t)
  <2>1. serial' = [serial EXCEPT ![s].disc_mutex = t] /\ Goto(t, "drain")
    BY <1>2 DEF WaitUntilSent
  <2>2. Moved(t, "drain")
    BY <1>1, <2>1, Moves, Names
  <2>3. /\ OthersKept(s) /\ serial'[s].disc_mutex = t
        /\ SameName(s) /\ SameReserved(s) /\ SameKref(s) /\ SameState(s) /\ SamePower(s)
    BY <1>1, <2>1, Changes
  <2>4. /\ pc[t].at = "running" /\ ~serial[s].disconnected /\ serial[s].disc_mutex = NULL
        /\ badAccess' => serial[s].mem # "alive" \/ module.state = "gone"
        /\ UNCHANGED <<table_lock, serial_minors, ttys, port, module, unplugged>>
    BY <1>2 DEF WaitUntilSent, At, Unlocked, UseDriver
  <2> QED
    BY ONLY <2>2, <2>3, <2>4
<1>3. CASE Drained(t)
  <2>1. serial' = [serial EXCEPT ![s].disc_mutex = NULL] /\ Goto(t, "running")
    BY <1>3 DEF Drained
  <2> QED
    BY <1>1, <1>3, <2>1, Changes, Moves, Names DEF Drained, At, UseDriver
<1> QED
  BY <1>2, <1>3

LEMMA CloseGoes ==
  ASSUME IInv, NEW t \in Thread, Close(t), NEW p, p = PortOf(t), NEW m \in Minor, m = pc[t].m
  PROVE  /\ pc[t].at \in {"running", "close"} /\ p \in Port /\ Became(t, Idle)
         /\ ttys[m].lock = NULL /\ OtherTtys(m) /\ OtherPorts(p)
         /\ badAccess' => serial[pc[t].s].mem # "alive" \/ module.state = "gone"
         /\ UNCHANGED <<table_lock, serial, serial_minors, module, unplugged>>
         /\ \/ /\ ttys[m].count = 1 /\ ttys'[m] = NULL
               /\ port'[p].dying = port[p].dying + 1
            \/ /\ ttys[m].count # 1 /\ ttys'[m] # NULL /\ ttys'[m].port = ttys[m].port
               /\ ttys'[m].count = ttys[m].count - 1 /\ ttys'[m].lock = NULL
               /\ port'[p].dying = port[p].dying
         /\ \/ /\ pc[t].hung /\ SameCount(p) /\ SameOpen(p) /\ SameUrbs(p)
            \/ /\ ~pc[t].hung /\ port[p].count = 1
               /\ port'[p].count = 0 /\ ~port'[p].tty /\ ~port'[p].initialized
               /\ port'[p].open => port[p].open /\ ~port[p].initialized
               /\ port'[p].urb => port[p].urb /\ ~port[p].initialized
               /\ port'[p].work => port[p].work \/ (port[p].initialized /\ port[p].urb)
            \/ /\ ~pc[t].hung /\ port[p].count # 1 /\ port'[p].count = port[p].count - 1
               /\ (port'[p].tty <=> port[p].tty) /\ SameOpen(p) /\ SameUrbs(p)
<1>1. TypeOK /\ pc[t].at \in {"running", "close"} /\ t \in Actor
  BY Constant DEF IInv, Close, At
<1>2. p \in Port /\ ttys[m] \in Tty
  BY <1>1, FileHas DEF FilePlaces
<1>3. port \in [Port -> TtyPort] /\ ttys \in [Minor -> Tty \union {NULL}]
  BY <1>1 DEF TypeOK
<1>4. Became(t, Idle)
  BY <1>1, Moves, Constant DEF Close
<1>5. PICK r \in TtyPort :
            /\ port' = [port EXCEPT ![p] = r]
            /\ r.dying = IF ttys[m].count = 1 THEN port[p].dying + 1 ELSE port[p].dying
            /\ \/ /\ pc[t].hung
                  /\ r.count = port[p].count /\ (r.tty <=> port[p].tty)
                  /\ (r.initialized <=> port[p].initialized) /\ (r.open <=> port[p].open)
                  /\ (r.urb <=> port[p].urb) /\ (r.work <=> port[p].work)
               \/ /\ ~pc[t].hung /\ port[p].count = 1
                  /\ r.count = 0 /\ ~r.tty /\ ~r.initialized
                  /\ r.open => port[p].open /\ ~port[p].initialized
                  /\ r.urb => port[p].urb /\ ~port[p].initialized
                  /\ r.work => port[p].work \/ (port[p].initialized /\ port[p].urb)
               \/ /\ ~pc[t].hung /\ port[p].count # 1
                  /\ r.count = port[p].count - 1 /\ (r.tty <=> port[p].tty)
                  /\ (r.initialized <=> port[p].initialized) /\ (r.open <=> port[p].open)
                  /\ (r.urb <=> port[p].urb) /\ (r.work <=> port[p].work)
  BY <1>2, CloseDoes
<1>6. port'[p] = r /\ OtherPorts(p)
  BY <1>2, <1>3, <1>5 DEF OtherPorts
<1>7. ttys' = [ttys EXCEPT ![m] = IF ttys[m].count = 1 THEN NULL
                                  ELSE [ttys[m] EXCEPT !.count = ttys[m].count - 1]]
  BY DEF Close
<1>8. OtherTtys(m)
  BY <1>3, <1>7 DEF OtherTtys
<1>9. \/ pc[t].hung /\ SameCount(p) /\ SameOpen(p) /\ SameUrbs(p)
      \/ /\ ~pc[t].hung /\ port[p].count = 1
         /\ port'[p].count = 0 /\ ~port'[p].tty /\ ~port'[p].initialized
         /\ port'[p].open => port[p].open /\ ~port[p].initialized
         /\ port'[p].urb => port[p].urb /\ ~port[p].initialized
         /\ port'[p].work => port[p].work \/ (port[p].initialized /\ port[p].urb)
      \/ /\ ~pc[t].hung /\ port[p].count # 1 /\ port'[p].count = port[p].count - 1
         /\ (port'[p].tty <=> port[p].tty) /\ SameOpen(p) /\ SameUrbs(p)
  BY <1>5, <1>6 DEF SameCount, SameOpen, SameUrbs
<1>10. /\ ttys[m].lock = NULL /\ UNCHANGED <<table_lock, serial, serial_minors, module, unplugged>>
       /\ badAccess' => serial[pc[t].s].mem # "alive" \/ module.state = "gone"
  BY DEF Close, UseDriver
<1>11. port'[p].dying = IF ttys[m].count = 1 THEN port[p].dying + 1 ELSE port[p].dying
  BY <1>5, <1>6
<1>12. CASE ttys[m].count = 1
  <2>1. ttys'[m] = NULL
    BY <1>3, <1>7, <1>12
  <2> QED
    BY <1>1, <1>2, <1>4, <1>6, <1>8, <1>12, <1>9, <1>10, <1>11, <2>1
<1>13. CASE ttys[m].count # 1
  <2> DEFINE q == [ttys[m] EXCEPT !.count = ttys[m].count - 1]
  <2>1. ttys'[m] = q
    BY <1>3, <1>7, <1>13
  <2>2. ttys[m].count - 1 \in Nat \ {0}
    BY <1>2, <1>13 DEF Tty
  <2>3. q \in Tty /\ q.port = ttys[m].port /\ q.count = ttys[m].count - 1 /\ q.lock = ttys[m].lock
    BY <1>2, <2>2 DEF Tty
  <2>4. q # NULL
    BY <2>3, SerialAssumption
  <2> HIDE DEF q
  <2> QED
    BY <1>1, <1>2, <1>4, <1>6, <1>8, <1>13, <1>9, <1>10, <1>11, <2>1, <2>3, <2>4
<1> QED
  BY <1>12, <1>13

(* tty_port_hangup, of a port that has a tty.                              *)
LEMMA HangUpGoes ==
  ASSUME TypeOK, NEW p \in Port, NEW m, HangUp(p, m)
  PROVE  /\ OtherPorts(p) /\ port'[p].count = 0 /\ ~port'[p].tty /\ port'[p].dying = port[p].dying
         /\ ~port'[p].initialized
         /\ port'[p].open => port[p].open /\ ~port[p].initialized
         /\ port'[p].urb => port[p].urb /\ ~port[p].initialized
         /\ port'[p].work => port[p].work \/ (port[p].initialized /\ port[p].urb)
         /\ badAccess' => serial[p[1]].mem # "alive" \/ module.state = "gone"
<1>1. port \in [Port -> TtyPort] /\ port[p] \in TtyPort
  BY DEF TypeOK
<1>2. port'[p] = Down(port[p]) /\ OtherPorts(p)
  BY <1>1, HangUpDoes DEF OtherPorts
<1>3. badAccess' => serial[p[1]].mem # "alive" \/ module.state = "gone"
  BY DEF HangUp, UseDriver
<1> DEFINE q == Down(port[p])
<1>4. /\ q.count = 0 /\ ~q.tty /\ q.dying = port[p].dying /\ ~q.initialized
      /\ q.open => port[p].open /\ ~port[p].initialized
      /\ q.urb => port[p].urb /\ ~port[p].initialized
      /\ q.work => port[p].work \/ (port[p].initialized /\ port[p].urb)
  BY <1>1, DownIs
<1> HIDE DEF q
<1>5. port'[p] = q
  BY <1>2 DEF q
<1> QED
  BY <1>2, <1>3, <1>4, <1>5

(* The files of a tty are hung up.                                         *)
HungUp(m) == \A t \in Thread : /\ pc'[t].at = pc[t].at /\ pc'[t].s = pc[t].s /\ pc'[t].i = pc[t].i
                               /\ pc'[t].m = pc[t].m /\ pc'[t].then = pc[t].then
                               /\ pc'[t].hung <=> pc[t].hung \/ t \in Files(m)

LEMMA HangupDoes ==
  ASSUME IInv, NEW m \in Minor, Hangup(m), NEW p, p = ttys[m].port
  PROVE  /\ p \in Port /\ ttys[m] # NULL /\ ttys[m].lock = NULL /\ HangUp(p, m) /\ HungUp(m)
         /\ pc'["hub"] = pc["hub"] /\ pc'["worker"] = pc["worker"]
         /\ UNCHANGED <<table_lock, serial, serial_minors, ttys, module, unplugged>>
<1>1. p \in Port
  BY Typed DEF Hangup, Tty, IInv
<1>2. pc' = [a \in Actor |-> IF a \in Files(m) THEN [pc[a] EXCEPT !.hung = TRUE] ELSE pc[a]]
  BY DEF Hangup
<1>3. pc \in [Actor -> Place]
  BY DEF IInv, TypeOK
<1>4. "hub" \notin Files(m) /\ "worker" \notin Files(m)
  BY Constant DEF Files
<1>5. pc'["hub"] = pc["hub"] /\ pc'["worker"] = pc["worker"]
  BY <1>2, <1>4, Constant
<1>6. HungUp(m)
  BY <1>2, <1>3, Constant DEF HungUp, Place
<1> QED
  BY <1>1, <1>5, <1>6 DEF Hangup

LEMMA CleanupDoes ==
  ASSUME IInv, NEW p \in Port, Cleanup(p), NEW s \in Serial, s = p[1]
  PROVE  /\ pc["worker"].at = "idle" /\ Others("worker") /\ pc'["worker"].at = "cleanup"
         /\ pc'["worker"].s = s /\ ~pc'["worker"].hung
         /\ port[p].dying > 0 /\ serial[s].disc_mutex = NULL
         /\ badAccess' = (serial[s].mem # "alive")
         /\ OtherPorts(p) /\ port'[p].dying = port[p].dying - 1
         /\ SameCount(p) /\ SameOpen(p) /\ SameUrbs(p)
         /\ OthersKept(s) /\ serial'[s].pm = IF serial[s].disconnected THEN serial[s].pm ELSE serial[s].pm - 1
         /\ (serial'[s].poisoned <=> serial[s].poisoned)
         /\ SameName(s) /\ SameReserved(s) /\ SameKref(s) /\ SameMutex(s) /\ SameState(s)
         /\ UNCHANGED <<table_lock, serial_minors, ttys, module, unplugged>>
<1>1. TypeOK /\ pc["worker"].at = "idle" /\ "worker" \in Actor
  BY Constant DEF IInv, Cleanup, At
<1>2. port \in [Port -> TtyPort] /\ port[p] \in TtyPort /\ serial \in [Serial -> Object]
      /\ serial[s] \in Object
  BY <1>1 DEF TypeOK
<1> DEFINE r == [Idle EXCEPT !.at = "cleanup", !.s = s]
<1>3. r \in Place /\ r.at = "cleanup" /\ r.s = s /\ ~r.hung
  BY Constant, Names DEF Idle, Place
<1>4. pc' = [pc EXCEPT !["worker"] = r]
  BY DEF Cleanup
<1> HIDE DEF r
<1>5. Others("worker") /\ pc'["worker"] = r
  BY <1>1, <1>3, <1>4, Moves DEF Became
<1>6. port' = [port EXCEPT ![p].dying = port[p].dying - 1]
  BY DEF Cleanup
<1>7. /\ OtherPorts(p) /\ port'[p].dying = port[p].dying - 1
      /\ SameCount(p) /\ SameOpen(p) /\ SameUrbs(p)
  BY <1>2, <1>6 DEF TtyPort, OtherPorts, SameCount, SameOpen, SameUrbs
<1> DEFINE k == IF serial[s].disconnected THEN serial[s].pm ELSE serial[s].pm - 1
<1>8. serial' = [serial EXCEPT ![s].pm = k]
  BY DEF Cleanup
<1> HIDE DEF k
<1>9. /\ OthersKept(s) /\ serial'[s].pm = k
      /\ (serial'[s].poisoned <=> serial[s].poisoned)
      /\ SameName(s) /\ SameReserved(s) /\ SameKref(s) /\ SameMutex(s) /\ SameState(s)
  BY <1>2, <1>8 DEF Object, OthersKept, SameName, SameReserved, SameKref, SameMutex, SameState
<1> QED
  BY <1>1, <1>3, <1>5, <1>7, <1>9 DEF Cleanup, Unlocked, Use, k

(* A put whose reference may be the last.                                  *)
LastPut(a, s) ==
    /\ Others(a) /\ pc'[a].s = s /\ (pc'[a].hung <=> pc[a].hung) /\ pc'[a].then = "module_put"
    /\ pc'[a].at = IF serial[s].kref = 1 THEN "destroy" ELSE "module_put"
    /\ serial[s].kref > 0 /\ OthersKept(s) /\ serial'[s].kref = serial[s].kref - 1
    /\ SameName(s) /\ SameReserved(s) /\ SameMutex(s) /\ SameState(s) /\ SamePower(s)
    /\ badAccess' = (serial[s].mem # "alive")

LEMMA LastPutDoes ==
  ASSUME TypeOK, NEW a \in Actor, NEW s \in Serial, s = pc[a].s, serial[s].kref > 0,
         Put(a, s, "module_put")
  PROVE  LastPut(a, s)
<1>1. /\ Others(a) /\ pc'[a].s = s /\ (pc'[a].hung <=> pc[a].hung) /\ pc'[a].then = "module_put"
      /\ pc'[a].at = IF serial[s].kref = 1 THEN "destroy" ELSE "module_put"
      /\ badAccess' = (serial[s].mem # "alive")
  <2>1. "module_put" \in Where
    BY Names
  <2> QED
    BY <2>1, PutDoes
<1>2. serial' = [serial EXCEPT ![s].kref = serial[s].kref - 1]
  BY DEF Put
<1>3. /\ OthersKept(s) /\ serial'[s].kref = serial[s].kref - 1
      /\ SameName(s) /\ SameReserved(s) /\ SameMutex(s) /\ SameState(s) /\ SamePower(s)
  BY <1>2, Changes
<1> QED
  BY <1>1, <1>3 DEF LastPut

LEMMA CleanupPutDoes ==
  ASSUME IInv, CleanupPut, NEW s \in Serial, s = pc["worker"].s
  PROVE  /\ pc["worker"].at = "cleanup" /\ LastPut("worker", s)
         /\ UNCHANGED <<table_lock, serial_minors, ttys, port, module, unplugged>>
<1>1. TypeOK /\ "worker" \in Actor /\ pc["worker"].at = "cleanup" /\ serial[s].kref > 0
  BY Constant, CleaningUpHas DEF IInv, CleanupPut, At, Its
<1> QED
  BY <1>1, LastPutDoes DEF CleanupPut

LEMMA ProbeErrorDoes ==
  ASSUME IInv, ProbeError, NEW s \in Serial, s = pc["hub"].s
  PROVE  /\ pc["hub"].at \in {"attach", "minors"} /\ serial[s].kref = 1 /\ LastPut("hub", s)
         /\ UNCHANGED <<table_lock, serial_minors, ttys, port, module, unplugged>>
<1>1. /\ TypeOK /\ "hub" \in Actor /\ pc["hub"].at \in {"attach", "minors"}
      /\ serial[s].kref = 1 /\ serial[s].kref > 0
  BY Constant DEF IInv, ProbeError, At, Hub, Its
<1> QED
  BY <1>1, LastPutDoes DEF ProbeError

LEMMA ProbeDoes ==
  ASSUME IInv, NEW s \in Serial, Probe(s)
  PROVE  /\ pc["hub"].at = "idle" /\ Bound = {} /\ module.state = "loaded"
         /\ serial[s].mem = "none"
         /\ module'.refs = module.refs + 1 /\ module'.state = "loaded"
         /\ UNCHANGED <<table_lock, serial_minors, ttys, port, badAccess>>
         /\ \/ /\ Others("hub") /\ pc'["hub"].at = "attach" /\ pc'["hub"].s = s
               /\ pc'["hub"].then = pc["hub"].then /\ OthersKept(s)
               /\ serial'[s] = [NoSerial EXCEPT !.mem = "alive", !.kref = 1]
            \/ Moved("hub", "module_put") /\ UNCHANGED serial
<1>1. TypeOK /\ pc["hub"].at = "idle" /\ "hub" \in Actor
  BY Constant DEF IInv, Probe, At
<1>2. module' = [module EXCEPT !.refs = module.refs + 1]
  BY DEF Probe
<1>3. module'.refs = module.refs + 1 /\ module'.state = module.state
  BY <1>1, <1>2 DEF TypeOK
<1>4. CASE Goto("hub", "module_put") /\ UNCHANGED serial
  BY <1>1, <1>3, <1>4, Moves, Names DEF Probe
<1>5. CASE /\ serial' = [serial EXCEPT ![s] = [NoSerial EXCEPT !.mem = "alive", !.kref = 1]]
           /\ pc' = [pc EXCEPT !["hub"].at = "attach", !["hub"].s = s]
  <2>1. pc \in [Actor -> Place]
    BY <1>1 DEF TypeOK
  <2>2. Others("hub") /\ pc'["hub"].at = "attach" /\ pc'["hub"].s = s /\ pc'["hub"].then = pc["hub"].then
    BY <1>1, <1>5, <2>1 DEF Others, Place
  <2>3. OthersKept(s) /\ serial'[s] = [NoSerial EXCEPT !.mem = "alive", !.kref = 1]
    BY <1>1, <1>5, Changes
  <2>4. /\ Bound = {} /\ module.state = "loaded" /\ serial[s].mem = "none"
        /\ UNCHANGED <<table_lock, serial_minors, ttys, port, badAccess>>
    BY DEF Probe
  <2> QED
    BY ONLY <1>1, <1>3, <2>2, <2>3, <2>4
<1> QED
  BY <1>4, <1>5 DEF Probe

LEMMA Probed == LET r == [NoSerial EXCEPT !.mem = "alive", !.kref = 1]
                IN  /\ r.mem = "alive" /\ r.kref = 1 /\ r.disc_mutex = NULL /\ ~r.disconnected
                    /\ ~r.minors_reserved /\ r.num_ports = 0 /\ ~r.bound /\ r.pm = 0 /\ ~r.poisoned
  BY DEF NoSerial

LEMMA AttachDoes ==
  ASSUME IInv, NEW n \in 0 .. MaxPorts, Attach(n), NEW s \in Serial, s = pc["hub"].s
  PROVE  /\ pc["hub"].at = "attach" /\ Moved("hub", IF n = 0 THEN "module_put" ELSE "minors")
         /\ OthersKept(s) /\ serial'[s].num_ports = n /\ (serial'[s].disconnected <=> n > 0)
         /\ (serial'[s].bound <=> n = 0) /\ serial'[s].mem = serial[s].mem
         /\ SameReserved(s) /\ SameKref(s) /\ SameMutex(s) /\ SamePower(s)
         /\ UNCHANGED <<table_lock, serial_minors, ttys, port, module, unplugged, badAccess>>
<1>1. TypeOK /\ pc["hub"].at = "attach" /\ "hub" \in Actor
  BY Constant DEF IInv, Attach, At
<1>2. serial \in [Serial -> Object] /\ serial[s] \in Object
  BY <1>1 DEF TypeOK
<1>3. Moved("hub", IF n = 0 THEN "module_put" ELSE "minors")
  <2>1. CASE n = 0
    BY <1>1, <2>1, Moves, Names DEF Attach
  <2>2. CASE n # 0
    BY <1>1, <2>2, Moves, Names DEF Attach
  <2> QED
    BY <2>1, <2>2
<1> DEFINE b == n > 0  c == n = 0
<1>4. serial' = [serial EXCEPT ![s].attached = TRUE, ![s].num_ports = n,
                               ![s].disconnected = b, ![s].bound = c]
  BY DEF Attach
<1>5. b \in BOOLEAN /\ c \in BOOLEAN
  OBVIOUS
<1> HIDE DEF b, c
<1>6. /\ OthersKept(s) /\ serial'[s].num_ports = n /\ (serial'[s].disconnected <=> b)
      /\ (serial'[s].bound <=> c) /\ serial'[s].mem = serial[s].mem
      /\ SameReserved(s) /\ SameKref(s) /\ SameMutex(s) /\ SamePower(s)
  BY <1>2, <1>4, <1>5 DEF OthersKept, Object, SameReserved, SameKref, SameMutex, SamePower
<1> QED
  BY <1>1, <1>3, <1>6 DEF Attach, b, c

LEMMA MinorsDoes ==
  ASSUME IInv, AllocateMinors \/ Register, NEW s \in Serial, s = pc["hub"].s
  PROVE  /\ OthersKept(s) /\ SameName(s) /\ SameKref(s) /\ SameMutex(s) /\ SamePower(s)
         /\ UNCHANGED <<table_lock, ttys, port, module, unplugged, badAccess>>
         /\ \/ /\ AllocateMinors /\ pc["hub"].at = "minors" /\ Moved("hub", "register")
               /\ SameState(s) /\ serial'[s].minors_reserved
            \/ /\ pc["hub"].at = "register" /\ Moved("hub", "module_put")
               /\ ~serial'[s].disconnected /\ serial'[s].bound /\ SameReserved(s)
               /\ UNCHANGED serial_minors
<1>1. TypeOK /\ "hub" \in Actor
  BY Constant DEF IInv
<1>2. serial \in [Serial -> Object] /\ serial[s] \in Object
  BY <1>1 DEF TypeOK
<1>3. CASE AllocateMinors
  <2>1. serial' = [serial EXCEPT ![s].minors_reserved = TRUE] /\ Goto("hub", "register")
    BY <1>3 DEF AllocateMinors
  <2> QED
    BY <1>1, <1>3, <2>1, Changes, Moves, Names DEF AllocateMinors, At
<1>4. CASE Register
  <2>1. serial' = [serial EXCEPT ![s].disconnected = FALSE, ![s].bound = TRUE]
    BY <1>4 DEF Register
  <2>2. /\ OthersKept(s) /\ SameName(s) /\ SameKref(s) /\ SameMutex(s) /\ SamePower(s)
        /\ ~serial'[s].disconnected /\ serial'[s].bound /\ SameReserved(s)
    BY <1>2, <2>1 DEF OthersKept, Object, SameName, SameKref, SameMutex, SamePower, SameReserved
  <2> QED
    BY <1>1, <1>4, <2>2, Moves, Names DEF Register, At
<1> QED
  BY <1>3, <1>4

LEMMA SuspendDoes ==
  ASSUME IInv, NEW s \in Serial, Suspend(s) \/ Resume(s)
  PROVE  /\ pc["hub"].at = "idle" /\ serial[s].bound
         /\ OthersKept(s) /\ serial'[s].pm = serial[s].pm
         /\ serial'[s].poisoned => serial[s].pm = 0
         /\ SameName(s) /\ SameReserved(s) /\ SameKref(s) /\ SameMutex(s) /\ SameState(s)
         /\ UNCHANGED <<table_lock, serial_minors, ttys, pc, module, unplugged, badAccess>>
         /\ \A p \in Port : /\ SameCount(p) /\ SameOpen(p) /\ port'[p].dying = port[p].dying
                            /\ port'[p].urb => port[p].urb
                            /\ port'[p].work => port[p].urb \/ port[p].work
<1>1. TypeOK
  BY DEF IInv
<1>2. port \in [Port -> TtyPort] /\ \A p \in Port : port[p] \in TtyPort
  BY <1>1 DEF TypeOK
<1>3. CASE Suspend(s)
  <2>1. serial' = [serial EXCEPT ![s].poisoned = TRUE]
    BY <1>3 DEF Suspend
  <2>2. port' = [p \in Port |-> IF p[1] = s /\ port[p].urb
                                THEN [port[p] EXCEPT !.urb = FALSE, !.work = TRUE] ELSE port[p]]
    BY <1>3 DEF Suspend
  <2>3. \A p \in Port : /\ SameCount(p) /\ SameOpen(p) /\ port'[p].dying = port[p].dying
                        /\ port'[p].urb => port[p].urb
                        /\ port'[p].work => port[p].urb \/ port[p].work
    BY <1>2, <2>2 DEF TtyPort, SameCount, SameOpen
  <2> QED
    BY <1>1, <1>3, <2>1, <2>3, Changes DEF Suspend, At
<1>4. CASE Resume(s)
  <2>1. serial' = [serial EXCEPT ![s].poisoned = FALSE]
    BY <1>4 DEF Resume
  <2> QED
    BY <1>1, <1>4, <2>1, Changes DEF Resume, At, SameCount, SameOpen
<1> QED
  BY <1>3, <1>4

LEMMA DisconnectDoes ==
  ASSUME IInv, NEW s \in Serial, Disconnect(s)
  PROVE  /\ pc["hub"].at = "idle" /\ serial[s].bound /\ serial[s].disc_mutex = NULL
         /\ Others("hub") /\ pc'["hub"].at = "hangup" /\ pc'["hub"].s = s /\ pc'["hub"].i = 1
         /\ OthersKept(s) /\ serial'[s].disconnected /\ serial'[s].bound
         /\ SameName(s) /\ SameReserved(s) /\ SameKref(s) /\ SameMutex(s) /\ SamePower(s)
         /\ badAccess' = (serial[s].mem # "alive")
         /\ UNCHANGED <<table_lock, serial_minors, ttys, port, module, unplugged>>
<1>1. TypeOK /\ "hub" \in Actor
  BY Constant DEF IInv
<1>2. serial \in [Serial -> Object] /\ serial[s] \in Object
  BY <1>1 DEF TypeOK
<1>3. serial' = [serial EXCEPT ![s].disconnected = TRUE]
  BY DEF Disconnect
<1>4. /\ OthersKept(s) /\ serial'[s].disconnected /\ (serial'[s].bound <=> serial[s].bound)
      /\ SameName(s) /\ SameReserved(s) /\ SameKref(s) /\ SameMutex(s) /\ SamePower(s)
  BY <1>2, <1>3 DEF OthersKept, Object, SameName, SameReserved, SameKref, SameMutex, SamePower
<1> DEFINE r == [Idle EXCEPT !.at = "hangup", !.s = s]
<1>5. r \in Place /\ r.at = "hangup" /\ r.s = s /\ r.i = 1
  BY Constant, Names DEF Idle, Place
<1>6. pc' = [pc EXCEPT !["hub"] = r]
  BY DEF Disconnect
<1> HIDE DEF r
<1>7. Others("hub") /\ pc'["hub"] = r
  BY <1>1, <1>5, <1>6, Moves DEF Became
<1> QED
  BY <1>4, <1>5, <1>7 DEF Disconnect, At, Unlocked, Use

LEMMA DisconnectHangupDoes ==
  ASSUME IInv, DisconnectHangup, NEW p, p = PortOf("hub"), NEW m, m = MinorOf(p)
  PROVE  /\ pc["hub"].at = "hangup" /\ pc["hub"].i <= Its("hub").num_ports /\ p \in Port
         /\ p[1] = pc["hub"].s /\ p[2] = pc["hub"].i
         /\ \/ port[p].tty /\ ttys[m].lock = NULL /\ HangUp(p, m) /\ HungUp(m)
            \/ /\ ~port[p].tty /\ UNCHANGED port /\ badAccess' = (serial[p[1]].mem # "alive")
               /\ \A t \in Thread : pc'[t] = pc[t]
         /\ pc'["hub"].at = "poison" /\ SameLocals("hub") /\ pc'["worker"] = pc["worker"]
         /\ UNCHANGED <<table_lock, serial, serial_minors, ttys, module, unplugged>>
<1>1. /\ pc["hub"].at = "hangup" /\ pc["hub"].i <= Its("hub").num_ports
      /\ p[1] = pc["hub"].s /\ p[2] = pc["hub"].i
  BY DEF DisconnectHangup, At, PortOf, Its
<1>2. p \in Port
  BY <1>1, HubPort
<1>3. pc \in [Actor -> Place]
  BY DEF IInv, TypeOK
<1> DEFINE files == IF port[p].tty THEN Files(m) ELSE {}
<1>4. pc' = [a \in Actor |-> IF a \in files THEN [pc[a] EXCEPT !.hung = TRUE]
                             ELSE IF a = "hub" THEN [pc[a] EXCEPT !.at = "poison"] ELSE pc[a]]
  BY DEF DisconnectHangup
<1>5. "hub" \notin files /\ "worker" \notin files
  BY Constant DEF Files
<1>6. pc'["hub"].at = "poison" /\ SameLocals("hub") /\ pc'["worker"] = pc["worker"]
  <2>1. pc'["hub"] = [pc["hub"] EXCEPT !.at = "poison"] /\ pc'["worker"] = pc["worker"]
    BY <1>4, <1>5, Constant
  <2> QED
    BY <1>3, <2>1, Constant DEF SameLocals, Place
<1>7. port[p].tty => HungUp(m)
  <2>1. ASSUME port[p].tty PROVE \A t \in Thread : pc'[t] = IF t \in Files(m) THEN [pc[t] EXCEPT !.hung = TRUE]
                                                             ELSE pc[t]
    BY <1>4, <2>1, Constant
  <2>2. \A t \in Thread : pc[t] \in Place
    BY <1>3, Constant
  <2> QED
    BY <2>1, <2>2 DEF HungUp, Place
<1>8. ~port[p].tty => \A t \in Thread : pc'[t] = pc[t]
  BY <1>4, Constant
<1> QED
  BY <1>1, <1>2, <1>6, <1>7, <1>8 DEF DisconnectHangup, Use

LEMMA DisconnectPoisonDoes ==
  ASSUME IInv, DisconnectPoison, NEW s \in Serial, s = pc["hub"].s, NEW p, p = PortOf("hub")
  PROVE  /\ pc["hub"].at = "poison" /\ p \in Port /\ Moved("hub", "cancel")
         /\ OthersKept(s) /\ serial'[s].pm = serial[s].pm /\ serial'[s].poisoned
         /\ SameName(s) /\ SameReserved(s) /\ SameKref(s) /\ SameMutex(s) /\ SameState(s)
         /\ OtherPorts(p) /\ SameCount(p) /\ SameOpen(p) /\ port'[p].dying = port[p].dying
         /\ ~port'[p].urb /\ (port'[p].work => port[p].urb \/ port[p].work)
         /\ UNCHANGED <<table_lock, serial_minors, ttys, module, unplugged, badAccess>>
<1>1. TypeOK /\ "hub" \in Actor /\ pc["hub"].at = "poison"
  BY Constant DEF IInv, DisconnectPoison, At
<1>2. p \in Port /\ p[1] = s
  BY <1>1, HubPort DEF IInv, Hub, PortOf
<1>3. serial' = [serial EXCEPT ![s].poisoned = TRUE] /\ Goto("hub", "cancel")
  BY <1>2 DEF DisconnectPoison
<1>4. port \in [Port -> TtyPort] /\ port[p] \in TtyPort
  BY <1>1, <1>2 DEF TypeOK
<1> DEFINE w == port[p].work \/ port[p].urb
<1>5. port' = [port EXCEPT ![p].urb = FALSE, ![p].work = w]
  BY DEF DisconnectPoison
<1>6. w \in BOOLEAN
  OBVIOUS
<1> HIDE DEF w
<1>7. /\ OtherPorts(p) /\ SameCount(p) /\ SameOpen(p) /\ port'[p].dying = port[p].dying
      /\ ~port'[p].urb /\ (port'[p].work <=> w)
  BY <1>2, <1>4, <1>5, <1>6 DEF TtyPort, OtherPorts, SameCount, SameOpen
<1> QED
  BY <1>1, <1>2, <1>3, <1>7, Changes, Moves, Names DEF DisconnectPoison, w

LEMMA DisconnectCancelDoes ==
  ASSUME IInv, DisconnectCancel, NEW p, p = PortOf("hub")
  PROVE  /\ pc["hub"].at = "cancel" /\ p \in Port /\ Others("hub")
         /\ pc'["hub"].at = "hangup" /\ pc'["hub"].s = pc["hub"].s /\ pc'["hub"].i = pc["hub"].i + 1
         /\ pc'["hub"].then = pc["hub"].then
         /\ OtherPorts(p) /\ SameCount(p) /\ SameOpen(p) /\ port'[p].dying = port[p].dying
         /\ (port'[p].urb <=> port[p].urb) /\ ~port'[p].work
         /\ UNCHANGED <<table_lock, serial, serial_minors, ttys, module, unplugged, badAccess>>
<1>1. TypeOK /\ "hub" \in Actor /\ pc["hub"].at = "cancel" /\ pc \in [Actor -> Place]
  BY Constant DEF IInv, TypeOK, DisconnectCancel, At
<1>2. p \in Port
  BY <1>1, HubPort DEF IInv, Hub
<1>3. port \in [Port -> TtyPort] /\ port[p] \in TtyPort
  BY <1>1, <1>2 DEF TypeOK
<1>4. port' = [port EXCEPT ![p].work = FALSE]
  BY DEF DisconnectCancel
<1>5. /\ OtherPorts(p) /\ SameCount(p) /\ SameOpen(p) /\ port'[p].dying = port[p].dying
      /\ (port'[p].urb <=> port[p].urb) /\ ~port'[p].work
  BY <1>2, <1>3, <1>4 DEF TtyPort, OtherPorts, SameCount, SameOpen
<1>6. pc' = [pc EXCEPT !["hub"].at = "hangup", !["hub"].i = pc["hub"].i + 1]
  BY DEF DisconnectCancel
<1>7. /\ Others("hub") /\ pc'["hub"].at = "hangup" /\ pc'["hub"].s = pc["hub"].s
      /\ pc'["hub"].i = pc["hub"].i + 1 /\ pc'["hub"].then = pc["hub"].then
  BY <1>1, <1>6 DEF Others, Place
<1> QED
  BY <1>1, <1>2, <1>5, <1>7 DEF DisconnectCancel

LEMMA DisconnectEndDoes ==
  ASSUME IInv, DisconnectEnd, NEW s \in Serial, s = pc["hub"].s
  PROVE  /\ pc["hub"].at = "hangup" /\ pc["hub"].i > serial[s].num_ports
         /\ Others("hub") /\ pc'["hub"].s = s /\ pc'["hub"].then = "idle"
         /\ pc'["hub"].at = IF serial[s].kref = 1 THEN "destroy" ELSE "idle"
         /\ OthersKept(s) /\ serial'[s].kref = serial[s].kref - 1 /\ ~serial'[s].bound
         /\ (serial'[s].disconnected <=> serial[s].disconnected)
         /\ SameName(s) /\ SameReserved(s) /\ SameMutex(s) /\ SamePower(s)
         /\ badAccess' => serial[s].mem # "alive" \/ module.state = "gone"
         /\ UNCHANGED <<table_lock, serial_minors, ttys, port, module, unplugged>>
<1>1. TypeOK /\ "hub" \in Actor /\ pc["hub"].at = "hangup"
  BY Constant DEF IInv, DisconnectEnd, At
<1>2. serial \in [Serial -> Object] /\ serial[s] \in Object
  BY <1>1 DEF TypeOK
<1>3. serial' = [serial EXCEPT ![s].bound = FALSE, ![s].kref = serial[s].kref - 1]
  BY DEF DisconnectEnd
<1>4. /\ OthersKept(s) /\ serial'[s].kref = serial[s].kref - 1 /\ ~serial'[s].bound
      /\ (serial'[s].disconnected <=> serial[s].disconnected)
      /\ SameName(s) /\ SameReserved(s) /\ SameMutex(s) /\ SamePower(s)
  BY <1>2, <1>3 DEF OthersKept, Object, SameName, SameReserved, SameMutex, SamePower
<1> DEFINE w == IF serial[s].kref = 1 THEN "destroy" ELSE "idle"
           r == [Idle EXCEPT !.s = s, !.at = w]
<1>5. w \in Where
  BY Names
<1>6. pc' = [pc EXCEPT !["hub"] = r]
  BY DEF DisconnectEnd
<1> HIDE DEF w
<1>7. r \in Place /\ r.s = s /\ r.at = w /\ r.then = "idle"
  BY <1>5, Constant, Names DEF Idle, Place
<1> HIDE DEF r
<1>8. Others("hub") /\ pc'["hub"] = r
  BY <1>1, <1>6, <1>7, Moves DEF Became
<1> QED
  BY <1>1, <1>4, <1>7, <1>8 DEF DisconnectEnd, UseDriver, w

-----------------------------------------------------------------------------
(* The parts of the invariant, step by step.                               *)

LEMMA NumbersStep ==
  ASSUME IInv, Next
  PROVE  Numbers'
<1>1. TypeOK /\ Numbers /\ Destroyers /\ Hub
  BY DEF IInv
<1>2. ASSUME NEW a \in Actor, ReleaseMinors(a) PROVE Numbers'
  BY <1>2, <1>1, Typed, Constant, ReleaseMinorsDoes DEF Numbers, OthersKept, SameName,
     SameReserved, SameState
<1>3. ASSUME NEW a \in Actor, DestroySerial(a) PROVE Numbers'
  <2> DEFINE s == pc[a].s
  <2>1. ~serial[s].minors_reserved
    BY <1>1, <1>3, DestroySerialDoes, Typed DEF Destroyers, Destroying, Its
  <2>2. \A m \in Minor : serial_minors[m] # NULL => serial_minors[m][1] # s
    BY <1>1, <2>1 DEF Numbers
  <2> QED
    BY <1>1, <1>3, <2>2, Typed, DestroySerialDoes DEF Numbers, OthersKept
<1>4. ASSUME NEW a \in Actor, ModulePut(a) PROVE Numbers'
  BY <1>4, <1>1, Typed, Constant, ModulePutDoes DEF Numbers, OthersKept, SameName,
     SameReserved, SameState
<1>5. ASSUME NEW t \in Thread, NEW m \in Minor, TtyOpen(t, m) PROVE Numbers'
  BY <1>5, <1>1, Typed, Constant, TtyOpenDoes DEF Numbers, OthersKept, SameName,
     SameReserved, SameState
<1>6. ASSUME NEW t \in Thread, NEW m \in Minor, ProcShow(t, m) PROVE Numbers'
  BY <1>6, <1>1, Typed, Constant, ProcShowDoes DEF Numbers, OthersKept, SameName,
     SameReserved, SameState
<1>7. ASSUME NEW t \in Thread, Find(t) PROVE Numbers'
  BY <1>7, <1>1, Typed, Constant, FindDoes DEF Numbers, OthersKept, SameName, SameReserved,
     SameState
<1>8. ASSUME NEW t \in Thread, GetByMinor(t) PROVE Numbers'
  BY <1>8, <1>1, Typed, Constant, GetByMinorDoes DEF Numbers, OthersKept, SameName,
     SameReserved, SameState
<1>9. ASSUME NEW t \in Thread, Install(t) PROVE Numbers'
  BY <1>9, <1>1, Typed, Constant, InstallDoes DEF Numbers, OthersKept, SameName,
     SameReserved, SameState
<1>10. ASSUME NEW t \in Thread, PutLocked(t) PROVE Numbers'
  BY <1>10, <1>1, Typed, Constant, PutLockedDoes DEF Numbers, OthersKept, SameName,
     SameReserved, SameState
<1>11. ASSUME NEW t \in Thread, UnlockDisc(t) PROVE Numbers'
  BY <1>11, <1>1, Typed, Constant, UnlockDiscDoes DEF Numbers, OthersKept, SameName,
     SameReserved, SameState
<1>12. ASSUME NEW t \in Thread, PortOpen(t) PROVE Numbers'
  BY <1>12, <1>1, Typed, Constant, PortOpenDoes DEF Numbers, OthersKept, SameName,
     SameReserved, SameState
<1>13. ASSUME NEW t \in Thread, PortActivate(t) PROVE Numbers'
  BY <1>13, <1>1, Typed, Constant, PortActivateDoes DEF Numbers, OthersKept, SameName,
     SameReserved, SameState
<1>14. ASSUME NEW t \in Thread, Write(t) PROVE Numbers'
  BY <1>14, <1>1, Typed, Constant, WriteDoes DEF Numbers, OthersKept, SameName,
     SameReserved, SameState
<1>15. ASSUME NEW p \in Port, PortSoftint(p) PROVE Numbers'
  BY <1>15, <1>1, Typed, Constant, SoftintDoes DEF Numbers, OthersKept, SameName,
     SameReserved, SameState
<1>16. ASSUME NEW p \in Port, PortWork(p) PROVE Numbers'
  BY <1>16, <1>1, Typed, Constant, SoftintDoes DEF Numbers, OthersKept, SameName,
     SameReserved, SameState
<1>17. ASSUME NEW t \in Thread, WaitUntilSent(t) PROVE Numbers'
  BY <1>17, <1>1, Typed, Constant, DrainDoes DEF Numbers, OthersKept, SameName,
     SameReserved, SameState
<1>18. ASSUME NEW t \in Thread, Drained(t) PROVE Numbers'
  BY <1>18, <1>1, Typed, Constant, DrainDoes DEF Numbers, OthersKept, SameName,
     SameReserved, SameState
<1>19. ASSUME NEW t \in Thread, Close(t) PROVE Numbers'
  BY <1>19, <1>1, Typed, Constant, CloseGoes DEF Numbers, OthersKept, SameName,
     SameReserved, SameState
<1>20. ASSUME NEW m \in Minor, Hangup(m) PROVE Numbers'
  BY <1>20, <1>1, Typed, Constant, HangupDoes, HangUpGoes DEF Numbers, OthersKept, SameName,
     SameReserved, SameState
<1>21. ASSUME NEW p \in Port, Cleanup(p) PROVE Numbers'
  BY <1>21, <1>1, Typed, Constant, CleanupDoes DEF Numbers, OthersKept, SameName,
     SameReserved, SameState
<1>22. CASE CleanupPut
  BY <1>22, <1>1, Typed, Constant, CleanupPutDoes DEF LastPut, Numbers, OthersKept, SameName,
     SameReserved, SameState
<1>23. ASSUME NEW s \in Serial, Probe(s) PROVE Numbers'
  BY <1>23, <1>1, Typed, Constant, ProbeDoes, Probed DEF Numbers, OthersKept, SameName,
     SameReserved, SameState
<1>24. ASSUME NEW n \in 0 .. MaxPorts, Attach(n) PROVE Numbers'
  <2> DEFINE s == pc["hub"].s
  <2>1. \A m \in Minor : serial_minors[m] # NULL => serial_minors[m][1] # s
    BY <1>1, <1>24, AttachDoes, Typed, Constant DEF Hub, Its, Numbers
  <2> QED
    BY <1>1, <1>24, <2>1, Typed, Constant, AttachDoes DEF Numbers, OthersKept
<1>25. CASE ProbeError
  BY <1>25, <1>1, Typed, Constant, ProbeErrorDoes DEF LastPut, Numbers, OthersKept, SameName,
     SameReserved, SameState
<1>26. CASE AllocateMinors
  <2> DEFINE s == pc["hub"].s
  <2>1. /\ s \in Serial /\ pc["hub"].at = "minors" /\ serial[s].mem = "alive"
        /\ ~serial[s].minors_reserved /\ serial[s].disconnected
    BY <1>1, <1>26, Typed, Constant DEF AllocateMinors, At, Hub, Its
  <2>2. /\ OthersKept(s) /\ SameName(s) /\ SameState(s) /\ serial'[s].minors_reserved
    BY <1>26, <2>1, MinorsDoes
  <2>3. ASSUME NEW m \in Minor, serial_minors'[m] # NULL
        PROVE  LET r == serial_minors'[m][1]
               IN  /\ serial'[r].mem = "alive" /\ serial'[r].minors_reserved
                   /\ serial_minors'[m][2] <= serial'[r].num_ports
                   /\ ~serial'[r].disconnected => serial'[r].bound
    <3>1. CASE serial_minors[m] # NULL
      <4>1. serial_minors'[m] = serial_minors[m]
        BY <1>26, <2>1, <3>1, AllocateDoes
      <4> QED
        BY <1>1, <2>2, <3>1, <4>1, Typed DEF Numbers, OthersKept, SameName, SameState
    <3>2. CASE serial_minors[m] = NULL
      <4>1. serial_minors'[m][1] = s /\ serial_minors'[m][2] <= serial[s].num_ports
        BY <1>26, <2>1, <2>3, <3>2, AllocateDoes
      <4> QED
        BY <2>1, <2>2, <4>1 DEF SameName, SameState
    <3> QED
      BY <3>1, <3>2
  <2>4. ASSUME NEW m \in Minor, NEW n \in Minor, serial_minors'[m] # NULL,
               serial_minors'[n] = serial_minors'[m]
        PROVE  n = m
    <3>1. \A k \in Minor : serial_minors[k] # NULL => /\ serial_minors'[k] = serial_minors[k]
                                                      /\ serial_minors[k][1] # s
      BY <1>1, <1>26, <2>1, AllocateDoes DEF Numbers
    <3>2. \A k \in Minor : serial_minors[k] = NULL /\ serial_minors'[k] # NULL => serial_minors'[k][1] = s
      BY <1>26, <2>1, AllocateDoes
    <3>3. CASE serial_minors[m] # NULL
      BY <1>1, <2>4, <3>1, <3>2, <3>3 DEF Numbers
    <3>4. CASE serial_minors[m] = NULL
      <4>1. serial_minors[n] = NULL
        BY <2>4, <3>1, <3>2, <3>4
      <4> QED
        BY <1>26, <2>1, <2>4, <3>4, <4>1, AllocateDoes
    <3> QED
      BY <3>3, <3>4
  <2> QED
    BY <2>3, <2>4 DEF Numbers
<1>27. CASE Register
  <2> DEFINE s == pc["hub"].s
  <2>1. pc["hub"].at = "register" /\ s \in Serial
    BY <1>1, <1>27, Typed, Constant DEF Register, At
  <2>2. /\ OthersKept(s) /\ SameName(s) /\ SameReserved(s) /\ serial'[s].bound /\ UNCHANGED serial_minors
    BY <1>27, <2>1, MinorsDoes
  <2> QED
    BY <1>1, <2>1, <2>2, Typed DEF Numbers, OthersKept, SameName, SameReserved
<1>28. ASSUME NEW s \in Serial, Suspend(s) PROVE Numbers'
  BY <1>28, <1>1, Typed, Constant, SuspendDoes DEF Numbers, OthersKept, SameName,
     SameReserved, SameState
<1>29. ASSUME NEW s \in Serial, Resume(s) PROVE Numbers'
  BY <1>29, <1>1, Typed, Constant, SuspendDoes DEF Numbers, OthersKept, SameName,
     SameReserved, SameState
<1>30. CASE Unplug
  BY <1>30, <1>1, Typed, Constant DEF Unplug, Numbers, OthersKept, SameName, SameReserved,
     SameState
<1>31. CASE Deregister
  BY <1>31, <1>1, Typed, Constant DEF Deregister, Numbers, OthersKept, SameName,
     SameReserved, SameState
<1>32. CASE DeregisterEnd
  BY <1>32, <1>1, Typed, Constant DEF DeregisterEnd, Numbers, OthersKept, SameName,
     SameReserved, SameState
<1>33. ASSUME NEW s \in Serial, Disconnect(s) PROVE Numbers'
  BY <1>33, <1>1, Typed, Constant, DisconnectDoes DEF Numbers, OthersKept, SameName,
     SameReserved, SameState
<1>34. CASE DisconnectHangup
  BY <1>34, <1>1, Typed, Constant, DisconnectHangupDoes, HangUpGoes DEF Numbers, OthersKept,
     SameName, SameReserved, SameState
<1>35. CASE DisconnectPoison
  BY <1>35, <1>1, Typed, Constant, DisconnectPoisonDoes DEF Numbers, OthersKept, SameName,
     SameReserved, SameState
<1>36. CASE DisconnectCancel
  BY <1>36, <1>1, Typed, Constant, DisconnectCancelDoes DEF Numbers, OthersKept, SameName,
     SameReserved, SameState
<1>37. CASE DisconnectEnd
  <2> DEFINE s == pc["hub"].s
  <2>1. pc["hub"].at = "hangup" /\ s \in Serial /\ serial[s].disconnected
    BY <1>1, <1>37, Typed, Constant DEF DisconnectEnd, At, Hub, Its
  <2>2. /\ OthersKept(s) /\ SameName(s) /\ SameReserved(s) /\ serial'[s].disconnected
        /\ UNCHANGED serial_minors
    BY <1>37, <2>1, DisconnectEndDoes
  <2> QED
    BY <1>1, <2>1, <2>2, Typed DEF Numbers, OthersKept, SameName, SameReserved
<1> QED
  BY <1>2, <1>3, <1>4, <1>5, <1>6, <1>7, <1>8, <1>9, <1>10, <1>11, <1>12, <1>13, <1>14,
     <1>15, <1>16, <1>17, <1>18, <1>19, <1>20, <1>21, <1>22, <1>23, <1>24, <1>25, <1>26,
     <1>27, <1>28, <1>29, <1>30, <1>31, <1>32, <1>33, <1>34, <1>35, <1>36, <1>37 DEF Next,
     ThreadStep, Destroy, DisconnectStep, ProbeStep

LEMMA PlacesStep ==
  ASSUME IInv, Next
  PROVE  Places'
<1>1. TypeOK /\ Places
  BY DEF IInv
<1>2. ASSUME NEW a \in Actor, ReleaseMinors(a) PROVE Places'
  BY <1>2, <1>1, Typed, Constant, ReleaseMinorsDoes DEF Places, Destroying, ThreadPlaces,
     FilePlaces, HubPlaces, WorkerPlaces, Files, Others, Moved, SameLocals, Became, Idle,
     HungUp
<1>3. ASSUME NEW a \in Actor, DestroySerial(a) PROVE Places'
  BY <1>3, <1>1, Typed, Constant, DestroySerialDoes DEF Places, Destroying, ThreadPlaces,
     FilePlaces, HubPlaces, WorkerPlaces, Files, Others, Moved, SameLocals, Became, Idle,
     HungUp
<1>4. ASSUME NEW a \in Actor, ModulePut(a) PROVE Places'
  BY <1>4, <1>1, Typed, Constant, ModulePutDoes DEF Places, Destroying, ThreadPlaces,
     FilePlaces, HubPlaces, WorkerPlaces, Files, Others, Moved, SameLocals, Became, Idle,
     HungUp
<1>5. ASSUME NEW t \in Thread, NEW m \in Minor, TtyOpen(t, m) PROVE Places'
  BY <1>5, <1>1, Typed, Constant, TtyOpenDoes DEF Places, Destroying, ThreadPlaces,
     FilePlaces, HubPlaces, WorkerPlaces, Files, Others, Moved, SameLocals, Became, Idle,
     HungUp
<1>6. ASSUME NEW t \in Thread, NEW m \in Minor, ProcShow(t, m) PROVE Places'
  BY <1>6, <1>1, Typed, Constant, ProcShowDoes DEF Places, Destroying, ThreadPlaces,
     FilePlaces, HubPlaces, WorkerPlaces, Files, Others, Moved, SameLocals, Became, Idle,
     HungUp
<1>7. ASSUME NEW t \in Thread, Find(t) PROVE Places'
  BY <1>7, <1>1, Typed, Constant, FindDoes DEF Places, Destroying, ThreadPlaces, FilePlaces,
     HubPlaces, WorkerPlaces, Files, Others, Moved, SameLocals, Became, Idle, HungUp
<1>8. ASSUME NEW t \in Thread, GetByMinor(t) PROVE Places'
  BY <1>8, <1>1, Typed, Constant, GetByMinorDoes DEF Places, Destroying, ThreadPlaces,
     FilePlaces, HubPlaces, WorkerPlaces, Files, Others, Moved, SameLocals, Became, Idle,
     HungUp
<1>9. ASSUME NEW t \in Thread, Install(t) PROVE Places'
  BY <1>9, <1>1, Typed, Constant, InstallDoes DEF Places, Destroying, ThreadPlaces,
     FilePlaces, HubPlaces, WorkerPlaces, Files, Others, Moved, SameLocals, Became, Idle,
     HungUp
<1>10. ASSUME NEW t \in Thread, PutLocked(t) PROVE Places'
  BY <1>10, <1>1, Typed, Constant, PutLockedDoes DEF Places, Destroying, ThreadPlaces,
     FilePlaces, HubPlaces, WorkerPlaces, Files, Others, Moved, SameLocals, Became, Idle,
     HungUp
<1>11. ASSUME NEW t \in Thread, UnlockDisc(t) PROVE Places'
  BY <1>11, <1>1, Typed, Constant, UnlockDiscDoes DEF Places, Destroying, ThreadPlaces,
     FilePlaces, HubPlaces, WorkerPlaces, Files, Others, Moved, SameLocals, Became, Idle,
     HungUp
<1>12. ASSUME NEW t \in Thread, PortOpen(t) PROVE Places'
  BY <1>12, <1>1, Typed, Constant, PortOpenDoes DEF Places, Destroying, ThreadPlaces,
     FilePlaces, HubPlaces, WorkerPlaces, Files, Others, Moved, SameLocals, Became, Idle,
     HungUp
<1>13. ASSUME NEW t \in Thread, PortActivate(t) PROVE Places'
  BY <1>13, <1>1, Typed, Constant, PortActivateDoes DEF Places, Destroying, ThreadPlaces,
     FilePlaces, HubPlaces, WorkerPlaces, Files, Others, Moved, SameLocals, Became, Idle,
     HungUp
<1>14. ASSUME NEW t \in Thread, Write(t) PROVE Places'
  BY <1>14, <1>1, Typed, Constant, WriteDoes DEF Places, Destroying, ThreadPlaces,
     FilePlaces, HubPlaces, WorkerPlaces, Files, Others, Moved, SameLocals, Became, Idle,
     HungUp
<1>15. ASSUME NEW p \in Port, PortSoftint(p) PROVE Places'
  BY <1>15, <1>1, Typed, Constant, SoftintDoes DEF Places, Destroying, ThreadPlaces,
     FilePlaces, HubPlaces, WorkerPlaces, Files, Others, Moved, SameLocals, Became, Idle,
     HungUp
<1>16. ASSUME NEW p \in Port, PortWork(p) PROVE Places'
  BY <1>16, <1>1, Typed, Constant, SoftintDoes DEF Places, Destroying, ThreadPlaces,
     FilePlaces, HubPlaces, WorkerPlaces, Files, Others, Moved, SameLocals, Became, Idle,
     HungUp
<1>17. ASSUME NEW t \in Thread, WaitUntilSent(t) PROVE Places'
  BY <1>17, <1>1, Typed, Constant, DrainDoes DEF Places, Destroying, ThreadPlaces,
     FilePlaces, HubPlaces, WorkerPlaces, Files, Others, Moved, SameLocals, Became, Idle,
     HungUp
<1>18. ASSUME NEW t \in Thread, Drained(t) PROVE Places'
  BY <1>18, <1>1, Typed, Constant, DrainDoes DEF Places, Destroying, ThreadPlaces,
     FilePlaces, HubPlaces, WorkerPlaces, Files, Others, Moved, SameLocals, Became, Idle,
     HungUp
<1>19. ASSUME NEW t \in Thread, Close(t) PROVE Places'
  BY <1>19, <1>1, Typed, Constant, CloseGoes DEF Places, Destroying, ThreadPlaces,
     FilePlaces, HubPlaces, WorkerPlaces, Files, Others, Moved, SameLocals, Became, Idle,
     HungUp
<1>20. ASSUME NEW m \in Minor, Hangup(m) PROVE Places'
  BY <1>20, <1>1, Typed, Constant, HangupDoes, HangUpGoes DEF Places, Destroying,
     ThreadPlaces, FilePlaces, HubPlaces, WorkerPlaces, Files, Others, Moved, SameLocals,
     Became, Idle, HungUp
<1>21. ASSUME NEW p \in Port, Cleanup(p) PROVE Places'
  BY <1>21, <1>1, Typed, Constant, CleanupDoes DEF Places, Destroying, ThreadPlaces,
     FilePlaces, HubPlaces, WorkerPlaces, Files, Others, Moved, SameLocals, Became, Idle,
     HungUp
<1>22. CASE CleanupPut
  BY <1>22, <1>1, Typed, Constant, CleanupPutDoes DEF LastPut, Places, Destroying, ThreadPlaces,
     FilePlaces, HubPlaces, WorkerPlaces, Files, Others, Moved, SameLocals, Became, Idle,
     HungUp
<1>23. ASSUME NEW s \in Serial, Probe(s) PROVE Places'
  BY <1>23, <1>1, Typed, Constant, ProbeDoes, Probed DEF Places, Destroying, ThreadPlaces,
     FilePlaces, HubPlaces, WorkerPlaces, Files, Others, Moved, SameLocals, Became, Idle,
     HungUp
<1>24. ASSUME NEW n \in 0 .. MaxPorts, Attach(n) PROVE Places'
  BY <1>24, <1>1, Typed, Constant, AttachDoes DEF Places, Destroying, ThreadPlaces,
     FilePlaces, HubPlaces, WorkerPlaces, Files, Others, Moved, SameLocals, Became, Idle,
     HungUp
<1>25. CASE ProbeError
  BY <1>25, <1>1, Typed, Constant, ProbeErrorDoes DEF LastPut, Places, Destroying, ThreadPlaces,
     FilePlaces, HubPlaces, WorkerPlaces, Files, Others, Moved, SameLocals, Became, Idle,
     HungUp
<1>26. CASE AllocateMinors
  BY <1>26, <1>1, Typed, Constant, MinorsDoes DEF Places, Destroying, ThreadPlaces,
     FilePlaces, HubPlaces, WorkerPlaces, Files, Others, Moved, SameLocals, Became, Idle,
     HungUp
<1>27. CASE Register
  BY <1>27, <1>1, Typed, Constant, MinorsDoes DEF Places, Destroying, ThreadPlaces,
     FilePlaces, HubPlaces, WorkerPlaces, Files, Others, Moved, SameLocals, Became, Idle,
     HungUp
<1>28. ASSUME NEW s \in Serial, Suspend(s) PROVE Places'
  BY <1>28, <1>1, Typed, Constant, SuspendDoes DEF Places, Destroying, ThreadPlaces,
     FilePlaces, HubPlaces, WorkerPlaces, Files, Others, Moved, SameLocals, Became, Idle,
     HungUp
<1>29. ASSUME NEW s \in Serial, Resume(s) PROVE Places'
  BY <1>29, <1>1, Typed, Constant, SuspendDoes DEF Places, Destroying, ThreadPlaces,
     FilePlaces, HubPlaces, WorkerPlaces, Files, Others, Moved, SameLocals, Became, Idle,
     HungUp
<1>30. CASE Unplug
  BY <1>30, <1>1, Typed, Constant DEF Unplug, Places, Destroying, ThreadPlaces, FilePlaces,
     HubPlaces, WorkerPlaces, Files, Others, Moved, SameLocals, Became, Idle, HungUp
<1>31. CASE Deregister
  BY <1>31, <1>1, Typed, Constant DEF Deregister, Places, Destroying, ThreadPlaces,
     FilePlaces, HubPlaces, WorkerPlaces, Files, Others, Moved, SameLocals, Became, Idle,
     HungUp
<1>32. CASE DeregisterEnd
  BY <1>32, <1>1, Typed, Constant DEF DeregisterEnd, Places, Destroying, ThreadPlaces,
     FilePlaces, HubPlaces, WorkerPlaces, Files, Others, Moved, SameLocals, Became, Idle,
     HungUp
<1>33. ASSUME NEW s \in Serial, Disconnect(s) PROVE Places'
  BY <1>33, <1>1, Typed, Constant, DisconnectDoes DEF Places, Destroying, ThreadPlaces,
     FilePlaces, HubPlaces, WorkerPlaces, Files, Others, Moved, SameLocals, Became, Idle,
     HungUp
<1>34. CASE DisconnectHangup
  BY <1>34, <1>1, Typed, Constant, DisconnectHangupDoes, HangUpGoes DEF Places, Destroying,
     ThreadPlaces, FilePlaces, HubPlaces, WorkerPlaces, Files, Others, Moved, SameLocals,
     Became, Idle, HungUp
<1>35. CASE DisconnectPoison
  BY <1>35, <1>1, Typed, Constant, DisconnectPoisonDoes DEF Places, Destroying,
     ThreadPlaces, FilePlaces, HubPlaces, WorkerPlaces, Files, Others, Moved, SameLocals,
     Became, Idle, HungUp
<1>36. CASE DisconnectCancel
  BY <1>36, <1>1, Typed, Constant, DisconnectCancelDoes DEF Places, Destroying,
     ThreadPlaces, FilePlaces, HubPlaces, WorkerPlaces, Files, Others, Moved, SameLocals,
     Became, Idle, HungUp
<1>37. CASE DisconnectEnd
  BY <1>37, <1>1, Typed, Constant, DisconnectEndDoes DEF Places, Destroying, ThreadPlaces,
     FilePlaces, HubPlaces, WorkerPlaces, Files, Others, Moved, SameLocals, Became, Idle,
     HungUp
<1> QED
  BY <1>2, <1>3, <1>4, <1>5, <1>6, <1>7, <1>8, <1>9, <1>10, <1>11, <1>12, <1>13, <1>14,
     <1>15, <1>16, <1>17, <1>18, <1>19, <1>20, <1>21, <1>22, <1>23, <1>24, <1>25, <1>26,
     <1>27, <1>28, <1>29, <1>30, <1>31, <1>32, <1>33, <1>34, <1>35, <1>36, <1>37 DEF Next,
     ThreadStep, Destroy, DisconnectStep, ProbeStep

LEMMA DestroyersStep ==
  ASSUME IInv, Next
  PROVE  Destroyers'
<1>1. TypeOK /\ Destroyers /\ Places /\ Hub /\ Counts
  BY DEF IInv
<1>2. ASSUME NEW a \in Actor, ReleaseMinors(a) PROVE Destroyers'
  BY <1>2, <1>1, Typed, Constant, ReleaseMinorsDoes DEF Destroyers, Destroying, Its, Others,
     Moved, SameLocals, Became, Idle, HungUp, OthersKept, SameName, SameReserved, SameKref
<1>3. ASSUME NEW a \in Actor, DestroySerial(a) PROVE Destroyers'
  <2> DEFINE s == pc[a].s
  <2>1. s \in Serial
    BY <1>1, Typed
  <2>2. a \in {"hub", "worker"} /\ Destroying(a) /\ Others(a) /\ OthersKept(s) /\ pc'[a].at = pc[a].then
    BY <1>3, <2>1, DestroySerialDoes DEF Moved, Destroying
  <2>3. ~Destroying(a)'
    BY <1>1, <2>2 DEF Places, Destroying
  <2>4. ASSUME NEW b \in {"hub", "worker"}, b # a, Destroying(b)
        PROVE  pc'[b] = pc[b] /\ serial'[pc[b].s] = serial[pc[b].s]
    <3>1. pc[b].s \in Serial /\ pc[b].s # s /\ b \in Actor
      BY <1>1, <2>2, <2>4, Typed, Constant DEF Destroyers
    <3> QED
      BY <2>2, <2>4, <3>1 DEF Others, OthersKept
  <2>5. \A b \in {"hub", "worker"} : b # a => pc'[b] = pc[b]
    BY <2>2, Constant DEF Others
  <2> QED
    BY <1>1, <2>2, <2>3, <2>4, <2>5 DEF Destroyers, Destroying, Its
<1>4. ASSUME NEW a \in Actor, ModulePut(a) PROVE Destroyers'
  BY <1>4, <1>1, Typed, Constant, ModulePutDoes DEF Destroyers, Destroying, Its, Others,
     Moved, SameLocals, Became, Idle, HungUp, OthersKept, SameName, SameReserved, SameKref
<1>5. ASSUME NEW t \in Thread, NEW m \in Minor, TtyOpen(t, m) PROVE Destroyers'
  BY <1>5, <1>1, Typed, Constant, TtyOpenDoes DEF Destroyers, Destroying, Its, Others,
     Moved, SameLocals, Became, Idle, HungUp, OthersKept, SameName, SameReserved, SameKref
<1>6. ASSUME NEW t \in Thread, NEW m \in Minor, ProcShow(t, m) PROVE Destroyers'
  BY <1>6, <1>1, Typed, Constant, ProcShowDoes DEF Destroyers, Destroying, Its, Others,
     Moved, SameLocals, Became, Idle, HungUp, OthersKept, SameName, SameReserved, SameKref
<1>7. ASSUME NEW t \in Thread, Find(t) PROVE Destroyers'
  BY <1>7, <1>1, Typed, Constant, FindDoes DEF Destroyers, Destroying, Its, Others, Moved,
     SameLocals, Became, Idle, HungUp, OthersKept, SameName, SameReserved, SameKref
<1>8. ASSUME NEW t \in Thread, GetByMinor(t) PROVE Destroyers'
  <2> DEFINE s == pc[t].s
  <2>1. s \in Serial /\ pc["hub"].s \in Serial /\ pc["worker"].s \in Serial /\ pc[t].at = "get"
    BY <1>1, <1>8, Typed, Constant DEF GetByMinor, At
  <2>2. pc'["hub"] = pc["hub"] /\ pc'["worker"] = pc["worker"]
    BY <1>8, <2>1, GetByMinorDoes, Constant DEF Moved, Became, Others
  <2>3. CASE UNCHANGED serial
    BY <1>1, <2>2, <2>3 DEF Destroyers, Destroying, Its
  <2>4. CASE ~serial[s].disconnected /\ OthersKept(s)
    <3>1. serial[s].kref > 0
      BY <2>1, <2>4, LookupFinds DEF Its
    <3>2. \A a \in {"hub", "worker"} : Destroying(a) => pc[a].s # s
      BY <1>1, <3>1 DEF Destroyers, Its
    <3> QED
      BY <1>1, <2>1, <2>2, <2>4, <3>2 DEF Destroyers, Destroying, Its, OthersKept
  <2> QED
    BY <1>8, <2>1, <2>3, <2>4, GetByMinorDoes
<1>9. ASSUME NEW t \in Thread, Install(t) PROVE Destroyers'
  BY <1>9, <1>1, Typed, Constant, InstallDoes DEF Destroyers, Destroying, Its, Others,
     Moved, SameLocals, Became, Idle, HungUp, OthersKept, SameName, SameReserved, SameKref
<1>10. ASSUME NEW t \in Thread, PutLocked(t) PROVE Destroyers'
  BY <1>10, <1>1, Typed, Constant, PutLockedDoes DEF Destroyers, Destroying, Its, Others,
     Moved, SameLocals, Became, Idle, HungUp, OthersKept, SameName, SameReserved, SameKref
<1>11. ASSUME NEW t \in Thread, UnlockDisc(t) PROVE Destroyers'
  BY <1>11, <1>1, Typed, Constant, UnlockDiscDoes DEF Destroyers, Destroying, Its, Others,
     Moved, SameLocals, Became, Idle, HungUp, OthersKept, SameName, SameReserved, SameKref
<1>12. ASSUME NEW t \in Thread, PortOpen(t) PROVE Destroyers'
  BY <1>12, <1>1, Typed, Constant, PortOpenDoes DEF Destroyers, Destroying, Its, Others,
     Moved, SameLocals, Became, Idle, HungUp, OthersKept, SameName, SameReserved, SameKref
<1>13. ASSUME NEW t \in Thread, PortActivate(t) PROVE Destroyers'
  BY <1>13, <1>1, Typed, Constant, PortActivateDoes DEF Destroyers, Destroying, Its, Others,
     Moved, SameLocals, Became, Idle, HungUp, OthersKept, SameName, SameReserved, SameKref
<1>14. ASSUME NEW t \in Thread, Write(t) PROVE Destroyers'
  BY <1>14, <1>1, Typed, Constant, WriteDoes DEF Destroyers, Destroying, Its, Others, Moved,
     SameLocals, Became, Idle, HungUp, OthersKept, SameName, SameReserved, SameKref
<1>15. ASSUME NEW p \in Port, PortSoftint(p) PROVE Destroyers'
  BY <1>15, <1>1, Typed, Constant, SoftintDoes DEF Destroyers, Destroying, Its, Others,
     Moved, SameLocals, Became, Idle, HungUp, OthersKept, SameName, SameReserved, SameKref
<1>16. ASSUME NEW p \in Port, PortWork(p) PROVE Destroyers'
  BY <1>16, <1>1, Typed, Constant, SoftintDoes DEF Destroyers, Destroying, Its, Others,
     Moved, SameLocals, Became, Idle, HungUp, OthersKept, SameName, SameReserved, SameKref
<1>17. ASSUME NEW t \in Thread, WaitUntilSent(t) PROVE Destroyers'
  BY <1>17, <1>1, Typed, Constant, DrainDoes DEF Destroyers, Destroying, Its, Others, Moved,
     SameLocals, Became, Idle, HungUp, OthersKept, SameName, SameReserved, SameKref
<1>18. ASSUME NEW t \in Thread, Drained(t) PROVE Destroyers'
  BY <1>18, <1>1, Typed, Constant, DrainDoes DEF Destroyers, Destroying, Its, Others, Moved,
     SameLocals, Became, Idle, HungUp, OthersKept, SameName, SameReserved, SameKref
<1>19. ASSUME NEW t \in Thread, Close(t) PROVE Destroyers'
  BY <1>19, <1>1, Typed, Constant, CloseGoes DEF Destroyers, Destroying, Its, Others, Moved,
     SameLocals, Became, Idle, HungUp, OthersKept, SameName, SameReserved, SameKref
<1>20. ASSUME NEW m \in Minor, Hangup(m) PROVE Destroyers'
  BY <1>20, <1>1, Typed, Constant, HangupDoes, HangUpGoes DEF Destroyers, Destroying, Its,
     Others, Moved, SameLocals, Became, Idle, HungUp, OthersKept, SameName, SameReserved,
     SameKref
<1>21. ASSUME NEW p \in Port, Cleanup(p) PROVE Destroyers'
  BY <1>21, <1>1, Typed, Constant, CleanupDoes DEF Destroyers, Destroying, Its, Others,
     Moved, SameLocals, Became, Idle, HungUp, OthersKept, SameName, SameReserved, SameKref
<1>22. CASE CleanupPut
  <2> DEFINE s == pc["worker"].s
  <2>1. s \in Serial /\ pc["hub"].s \in Serial
    BY <1>1, Typed, Constant
  <2>2. /\ Others("worker") /\ pc'["worker"].s = s
        /\ pc'["worker"].at = IF serial[s].kref = 1 THEN "destroy" ELSE "module_put"
        /\ serial[s].kref > 0 /\ OthersKept(s) /\ serial'[s].kref = serial[s].kref - 1
        /\ serial'[s].mem = serial[s].mem
    BY <1>22, <2>1, CleanupPutDoes DEF SameName, LastPut
  <2>3. serial[s].mem = "alive"
    BY <1>1, <2>1, <2>2 DEF Counts
  <2>4. Destroying("hub") => pc["hub"].s # s
    BY <1>1, <2>2 DEF Destroyers, Its
  <2>5. pc'["hub"] = pc["hub"]
    BY <2>2, Constant DEF Others
  <2>6. Destroying("hub") => serial'[pc["hub"].s] = serial[pc["hub"].s]
    BY <2>1, <2>2, <2>4 DEF OthersKept
  <2> QED
    BY <1>1, <2>1, <2>2, <2>3, <2>4, <2>5, <2>6 DEF Destroyers, Destroying, Its
<1>23. ASSUME NEW s \in Serial, Probe(s) PROVE Destroyers'
  BY <1>23, <1>1, Typed, Constant, ProbeDoes, Probed DEF Destroyers, Destroying, Its,
     Others, Moved, SameLocals, Became, Idle, HungUp, OthersKept, SameName, SameReserved,
     SameKref
<1>24. ASSUME NEW n \in 0 .. MaxPorts, Attach(n) PROVE Destroyers'
  BY <1>24, <1>1, Typed, Constant, AttachDoes DEF Destroyers, Destroying, Its, Others,
     Moved, SameLocals, Became, Idle, HungUp, OthersKept, SameName, SameReserved, SameKref
<1>25. CASE ProbeError
  <2> DEFINE s == pc["hub"].s
  <2>1. s \in Serial /\ pc["worker"].s \in Serial
    BY <1>1, Typed, Constant
  <2>2. /\ Others("hub") /\ pc'["hub"].s = s
        /\ pc'["hub"].at = IF serial[s].kref = 1 THEN "destroy" ELSE "module_put"
        /\ serial[s].kref > 0 /\ OthersKept(s) /\ serial'[s].kref = serial[s].kref - 1
        /\ serial'[s].mem = serial[s].mem
    BY <1>25, <2>1, ProbeErrorDoes DEF SameName, LastPut
  <2>3. serial[s].mem = "alive"
    BY <1>1, <2>1, <2>2 DEF Counts
  <2>4. Destroying("worker") => pc["worker"].s # s
    BY <1>1, <2>2 DEF Destroyers, Its
  <2>5. pc'["worker"] = pc["worker"]
    BY <2>2, Constant DEF Others
  <2>6. Destroying("worker") => serial'[pc["worker"].s] = serial[pc["worker"].s]
    BY <2>1, <2>2, <2>4 DEF OthersKept
  <2> QED
    BY <1>1, <2>1, <2>2, <2>3, <2>4, <2>5, <2>6 DEF Destroyers, Destroying, Its
<1>26. CASE AllocateMinors
  <2> DEFINE s == pc["hub"].s
  <2>1. s \in Serial /\ serial[s].kref = 1 /\ pc["worker"].s \in Serial
    BY <1>1, <1>26, Typed, Constant DEF AllocateMinors, At, Hub, Its
  <2>2. Destroying("worker") => pc["worker"].s # s
    BY <1>1, <2>1 DEF Destroyers, Its
  <2>3. OthersKept(s) /\ Others("hub") /\ pc'["hub"].at \in {"register", "module_put"}
    BY <1>26, <2>1, MinorsDoes DEF Moved
  <2>4. pc'["worker"] = pc["worker"] /\ ~Destroying("hub")'
    BY <2>3, Constant DEF Others, Destroying
  <2>5. Destroying("worker") => serial'[pc["worker"].s] = serial[pc["worker"].s]
    BY <2>1, <2>2, <2>3 DEF OthersKept
  <2> QED
    BY <1>1, <2>4, <2>5 DEF Destroyers, Destroying, Its
<1>27. CASE Register
  <2> DEFINE s == pc["hub"].s
  <2>1. s \in Serial /\ serial[s].kref = 1 /\ pc["worker"].s \in Serial
    BY <1>1, <1>27, Typed, Constant DEF Register, At, Hub, Its
  <2>2. Destroying("worker") => pc["worker"].s # s
    BY <1>1, <2>1 DEF Destroyers, Its
  <2>3. OthersKept(s) /\ Others("hub") /\ pc'["hub"].at \in {"register", "module_put"}
    BY <1>27, <2>1, MinorsDoes DEF Moved
  <2>4. pc'["worker"] = pc["worker"] /\ ~Destroying("hub")'
    BY <2>3, Constant DEF Others, Destroying
  <2>5. Destroying("worker") => serial'[pc["worker"].s] = serial[pc["worker"].s]
    BY <2>1, <2>2, <2>3 DEF OthersKept
  <2> QED
    BY <1>1, <2>4, <2>5 DEF Destroyers, Destroying, Its
<1>28. ASSUME NEW s \in Serial, Suspend(s) PROVE Destroyers'
  BY <1>28, <1>1, Typed, Constant, SuspendDoes DEF Destroyers, Destroying, Its, Others,
     Moved, SameLocals, Became, Idle, HungUp, OthersKept, SameName, SameReserved, SameKref
<1>29. ASSUME NEW s \in Serial, Resume(s) PROVE Destroyers'
  BY <1>29, <1>1, Typed, Constant, SuspendDoes DEF Destroyers, Destroying, Its, Others,
     Moved, SameLocals, Became, Idle, HungUp, OthersKept, SameName, SameReserved, SameKref
<1>30. CASE Unplug
  BY <1>30, <1>1, Typed, Constant DEF Unplug, Destroyers, Destroying, Its, Others, Moved,
     SameLocals, Became, Idle, HungUp, OthersKept, SameName, SameReserved, SameKref
<1>31. CASE Deregister
  BY <1>31, <1>1, Typed, Constant DEF Deregister, Destroyers, Destroying, Its, Others,
     Moved, SameLocals, Became, Idle, HungUp, OthersKept, SameName, SameReserved, SameKref
<1>32. CASE DeregisterEnd
  BY <1>32, <1>1, Typed, Constant DEF DeregisterEnd, Destroyers, Destroying, Its, Others,
     Moved, SameLocals, Became, Idle, HungUp, OthersKept, SameName, SameReserved, SameKref
<1>33. ASSUME NEW s \in Serial, Disconnect(s) PROVE Destroyers'
  BY <1>33, <1>1, Typed, Constant, DisconnectDoes DEF Destroyers, Destroying, Its, Others,
     Moved, SameLocals, Became, Idle, HungUp, OthersKept, SameName, SameReserved, SameKref
<1>34. CASE DisconnectHangup
  BY <1>34, <1>1, Typed, Constant, DisconnectHangupDoes, HangUpGoes DEF Destroyers,
     Destroying, Its, Others, Moved, SameLocals, Became, Idle, HungUp, OthersKept, SameName,
     SameReserved, SameKref
<1>35. CASE DisconnectPoison
  BY <1>35, <1>1, Typed, Constant, DisconnectPoisonDoes DEF Destroyers, Destroying, Its,
     Others, Moved, SameLocals, Became, Idle, HungUp, OthersKept, SameName, SameReserved,
     SameKref
<1>36. CASE DisconnectCancel
  BY <1>36, <1>1, Typed, Constant, DisconnectCancelDoes DEF Destroyers, Destroying, Its,
     Others, Moved, SameLocals, Became, Idle, HungUp, OthersKept, SameName, SameReserved,
     SameKref
<1>37. CASE DisconnectEnd
  <2> DEFINE s == pc["hub"].s
  <2>1. s \in Serial /\ pc["worker"].s \in Serial /\ serial[s].bound
    BY <1>1, <1>37, Typed, Constant DEF DisconnectEnd, At, Hub, Its
  <2>2. /\ Others("hub") /\ pc'["hub"].s = s
        /\ pc'["hub"].at = IF serial[s].kref = 1 THEN "destroy" ELSE "idle"
        /\ OthersKept(s) /\ serial'[s].kref = serial[s].kref - 1
        /\ serial'[s].mem = serial[s].mem
    BY <1>37, <2>1, DisconnectEndDoes DEF SameName
  <2>3. serial[s].mem = "alive" /\ serial[s].kref > 0
    BY <2>1, BoundAlive
  <2>4. Destroying("worker") => pc["worker"].s # s
    BY <1>1, <2>3 DEF Destroyers, Its
  <2>5. pc'["worker"] = pc["worker"]
    BY <2>2, Constant DEF Others
  <2>6. Destroying("worker") => serial'[pc["worker"].s] = serial[pc["worker"].s]
    BY <2>1, <2>2, <2>4 DEF OthersKept
  <2> QED
    BY <1>1, <2>1, <2>2, <2>3, <2>4, <2>5, <2>6 DEF Destroyers, Destroying, Its
<1> QED
  BY <1>2, <1>3, <1>4, <1>5, <1>6, <1>7, <1>8, <1>9, <1>10, <1>11, <1>12, <1>13, <1>14,
     <1>15, <1>16, <1>17, <1>18, <1>19, <1>20, <1>21, <1>22, <1>23, <1>24, <1>25, <1>26,
     <1>27, <1>28, <1>29, <1>30, <1>31, <1>32, <1>33, <1>34, <1>35, <1>36, <1>37 DEF Next,
     ThreadStep, Destroy, DisconnectStep, ProbeStep

LEMMA SafeStep ==
  ASSUME IInv, Next
  PROVE  ~badAccess'
<1>1. /\ TypeOK /\ ~badAccess /\ Counts /\ Destroyers /\ Numbers /\ Locks /\ Ttys /\ Ports /\ Hub
      /\ Module
  BY DEF IInv
<1>2. ASSUME NEW a \in Actor, ReleaseMinors(a) PROVE ~badAccess'
  BY <1>2, <1>1, Typed, Constant, FileHas, BoundAlive, ReleaseMinorsDoes DEF FilePlaces, Its
<1>3. ASSUME NEW a \in Actor, DestroySerial(a) PROVE ~badAccess'
  <2> DEFINE s == pc[a].s
  <2>1. s \in Serial
    BY <1>1, Typed
  <2>2. /\ a \in {"hub", "worker"} /\ pc[a].at = "free"
        /\ badAccess' => serial[s].mem # "alive" \/ module.state = "gone"
    BY <1>3, <2>1, DestroySerialDoes
  <2>3. serial[s].mem = "alive"
    BY <1>1, <2>2 DEF Destroyers, Destroying, Its
  <2>4. module.state # "gone"
    <3>1. CASE a = "hub"
      BY <1>1, <2>2, <3>1 DEF Module
    <3>2. CASE a = "worker"
      BY <1>1, <2>2, <3>2, ModuleHeld
    <3> QED
      BY <2>2, <3>1, <3>2
  <2> QED
    BY <2>2, <2>3, <2>4
<1>4. ASSUME NEW a \in Actor, ModulePut(a) PROVE ~badAccess'
  BY <1>4, <1>1, Typed, Constant, FileHas, BoundAlive, ModulePutDoes DEF FilePlaces, Its
<1>5. ASSUME NEW t \in Thread, NEW m \in Minor, TtyOpen(t, m) PROVE ~badAccess'
  BY <1>5, <1>1, Typed, Constant, FileHas, BoundAlive, TtyOpenDoes DEF FilePlaces, Its
<1>6. ASSUME NEW t \in Thread, NEW m \in Minor, ProcShow(t, m) PROVE ~badAccess'
  BY <1>6, <1>1, Typed, Constant, FileHas, BoundAlive, ProcShowDoes DEF FilePlaces, Its
<1>7. ASSUME NEW t \in Thread, Find(t) PROVE ~badAccess'
  BY <1>7, <1>1, Typed, Constant, FileHas, BoundAlive, FindDoes DEF FilePlaces, Its
<1>8. ASSUME NEW t \in Thread, GetByMinor(t) PROVE ~badAccess'
  <2>1. t \in Actor /\ pc[t].s \in Serial
    BY <1>1, Typed, Constant
  <2>2. pc[t].at = "get" /\ badAccess' = (serial[pc[t].s].mem # "alive")
    BY <1>8, <2>1, GetByMinorDoes
  <2>3. serial[pc[t].s].mem = "alive"
    BY <2>2, LookupFinds DEF Its
  <2> QED
    BY ONLY <2>2, <2>3
<1>9. ASSUME NEW t \in Thread, Install(t) PROVE ~badAccess'
  <2>1. /\ pc[t].s \in Serial /\ pc[t].m \in Minor /\ pc[t].at = "install"
        /\ badAccess' = (serial[pc[t].s].mem # "alive")
    BY <1>1, <1>9, Typed, Constant, InstallDoes
  <2>2. serial[pc[t].s].mem = "alive"
    BY <2>1, LookupHas DEF Its
  <2> QED
    BY <2>1, <2>2
<1>10. ASSUME NEW t \in Thread, PutLocked(t) PROVE ~badAccess'
  <2>1. /\ pc[t].s \in Serial /\ pc[t].m \in Minor /\ pc[t].at = "put"
        /\ badAccess' = (serial[pc[t].s].mem # "alive")
    BY <1>1, <1>10, Typed, Constant, PutLockedDoes
  <2>2. serial[pc[t].s].mem = "alive"
    BY <2>1, LookupHas DEF Its
  <2> QED
    BY <2>1, <2>2
<1>11. ASSUME NEW t \in Thread, UnlockDisc(t) PROVE ~badAccess'
  <2>1. pc[t].s \in Serial /\ pc[t].at = "unlock" /\ badAccess' = (serial[pc[t].s].mem # "alive")
    BY <1>1, <1>11, Typed, Constant, UnlockDiscDoes
  <2>2. serial[pc[t].s].bound
    BY <1>1, <2>1 DEF Locks, LocksOf, Holding, Its
  <2> QED
    BY <2>1, <2>2, BoundAlive
<1>12. ASSUME NEW t \in Thread, PortOpen(t) PROVE ~badAccess'
  BY <1>12, <1>1, Typed, Constant, FileHas, BoundAlive, PortOpenDoes DEF FilePlaces, Its
<1>13. ASSUME NEW t \in Thread, PortActivate(t) PROVE ~badAccess'
  BY <1>13, <1>1, Typed, Constant, FileHas, BoundAlive, PortActivateDoes DEF FilePlaces, Its
<1>14. ASSUME NEW t \in Thread, Write(t) PROVE ~badAccess'
  BY <1>14, <1>1, Typed, Constant, FileHas, BoundAlive, WriteDoes DEF FilePlaces, Its
<1>15. ASSUME NEW p \in Port, PortSoftint(p) PROVE ~badAccess'
  <2>1. /\ p[1] \in Serial
        /\ UNCHANGED badAccess \/ (port[p].work /\ badAccess' = (serial[p[1]].mem # "alive"))
    BY <1>1, <1>15, Typed, SoftintDoes
  <2>2. port[p].work => serial[p[1]].mem = "alive"
    BY <1>1, <2>1, BoundAlive DEF Ports
  <2> QED
    BY <1>1, <2>1, <2>2
<1>16. ASSUME NEW p \in Port, PortWork(p) PROVE ~badAccess'
  <2>1. /\ p[1] \in Serial
        /\ UNCHANGED badAccess \/ (port[p].work /\ badAccess' = (serial[p[1]].mem # "alive"))
    BY <1>1, <1>16, Typed, SoftintDoes
  <2>2. port[p].work => serial[p[1]].mem = "alive"
    BY <1>1, <2>1, BoundAlive DEF Ports
  <2> QED
    BY <1>1, <2>1, <2>2
<1>17. ASSUME NEW t \in Thread, WaitUntilSent(t) PROVE ~badAccess'
  BY <1>17, <1>1, Typed, Constant, FileHas, BoundAlive, DrainDoes DEF FilePlaces, Its
<1>18. ASSUME NEW t \in Thread, Drained(t) PROVE ~badAccess'
  BY <1>18, <1>1, Typed, Constant, FileHas, BoundAlive, DrainDoes DEF FilePlaces, Its
<1>19. ASSUME NEW t \in Thread, Close(t) PROVE ~badAccess'
  BY <1>19, <1>1, Typed, Constant, FileHas, BoundAlive, CloseGoes DEF FilePlaces, Its
<1>20. ASSUME NEW m \in Minor, Hangup(m) PROVE ~badAccess'
  <2> DEFINE p == ttys[m].port
  <2>1. p \in Port /\ p[1] \in Serial /\ ttys[m] # NULL /\ HangUp(p, m)
    BY <1>1, <1>20, Typed, HangupDoes
  <2>2. serial_minors[m] = p /\ p # NULL
    BY <1>1, <2>1, SerialAssumption DEF Ttys
  <2>3. serial[p[1]].mem = "alive" /\ module.state # "gone"
    BY <1>1, <2>1, <2>2, ModuleHeld DEF Numbers
  <2> QED
    BY <1>1, <2>1, <2>3, HangUpGoes
<1>21. ASSUME NEW p \in Port, Cleanup(p) PROVE ~badAccess'
  <2> DEFINE s == p[1]
  <2>1. s \in Serial /\ port[p].dying > 0 /\ badAccess' = (serial[s].mem # "alive")
    BY <1>1, <1>21, Typed, CleanupDoes
  <2>2. Installed(PortsOf(s)) > 0
    BY <1>1, <2>1, Referenced
  <2>3. One(CleaningUp(s)) \in {0, 1} /\ One(serial[s].bound \/ Probing(s)) \in {0, 1}
    BY DEF One
  <2>4. serial[s].kref > 0
    BY <1>1, <2>1, <2>2, <2>3, RefsParts
  <2>5. serial[s].mem = "alive"
    BY <1>1, <2>1, <2>4 DEF Counts
  <2> QED
    BY <2>1, <2>5
<1>22. CASE CleanupPut
  BY <1>1, <1>22, Typed, Constant, CleanupPutDoes, CleaningUpHas DEF LastPut, Its
<1>23. ASSUME NEW s \in Serial, Probe(s) PROVE ~badAccess'
  BY <1>23, <1>1, Typed, Constant, FileHas, BoundAlive, ProbeDoes, Probed DEF FilePlaces,
     Its
<1>24. ASSUME NEW n \in 0 .. MaxPorts, Attach(n) PROVE ~badAccess'
  BY <1>24, <1>1, Typed, Constant, FileHas, BoundAlive, AttachDoes DEF FilePlaces, Its
<1>25. CASE ProbeError
  BY <1>1, <1>25, Typed, Constant, ProbeErrorDoes DEF LastPut, Counts
<1>26. CASE AllocateMinors
  BY <1>26, <1>1, Typed, Constant, FileHas, BoundAlive, MinorsDoes DEF FilePlaces, Its
<1>27. CASE Register
  BY <1>27, <1>1, Typed, Constant, FileHas, BoundAlive, MinorsDoes DEF FilePlaces, Its
<1>28. ASSUME NEW s \in Serial, Suspend(s) PROVE ~badAccess'
  BY <1>28, <1>1, Typed, Constant, FileHas, BoundAlive, SuspendDoes DEF FilePlaces, Its
<1>29. ASSUME NEW s \in Serial, Resume(s) PROVE ~badAccess'
  BY <1>29, <1>1, Typed, Constant, FileHas, BoundAlive, SuspendDoes DEF FilePlaces, Its
<1>30. CASE Unplug
  BY <1>30, <1>1, Typed, Constant, FileHas, BoundAlive DEF Unplug, FilePlaces, Its
<1>31. CASE Deregister
  BY <1>31, <1>1, Typed, Constant, FileHas, BoundAlive DEF Deregister, FilePlaces, Its
<1>32. CASE DeregisterEnd
  BY <1>32, <1>1, Typed, Constant, FileHas, BoundAlive DEF DeregisterEnd, FilePlaces, Its
<1>33. ASSUME NEW s \in Serial, Disconnect(s) PROVE ~badAccess'
  BY <1>33, <1>1, Typed, Constant, FileHas, BoundAlive, DisconnectDoes DEF FilePlaces, Its
<1>34. CASE DisconnectHangup
  <2> DEFINE p == PortOf("hub")  m == MinorOf(p)
  <2>1. p \in Port /\ p[1] \in Serial /\ p[1] = pc["hub"].s /\ pc["hub"].at = "hangup"
    BY <1>1, <1>34, Typed, DisconnectHangupDoes
  <2>2. serial[p[1]].mem = "alive" /\ module.state # "gone"
    BY <1>1, <2>1, BoundAlive DEF Hub, Its
  <2>3. HangUp(p, m) \/ badAccess' = (serial[p[1]].mem # "alive")
    BY <1>34, DisconnectHangupDoes
  <2>4. HangUp(p, m) => ~badAccess'
    BY <1>1, <2>1, <2>2, HangUpGoes
  <2> QED
    BY <2>2, <2>3, <2>4
<1>35. CASE DisconnectPoison
  BY <1>35, <1>1, Typed, Constant, FileHas, BoundAlive, DisconnectPoisonDoes DEF FilePlaces,
     Its
<1>36. CASE DisconnectCancel
  BY <1>36, <1>1, Typed, Constant, FileHas, BoundAlive, DisconnectCancelDoes DEF FilePlaces,
     Its
<1>37. CASE DisconnectEnd
  <2> DEFINE s == pc["hub"].s
  <2>1. s \in Serial /\ serial[s].bound
    BY <1>1, <1>37, Typed, Constant DEF DisconnectEnd, At, Hub, Its
  <2> QED
    BY <1>37, <2>1, BoundAlive, DisconnectEndDoes
<1> QED
  BY <1>2, <1>3, <1>4, <1>5, <1>6, <1>7, <1>8, <1>9, <1>10, <1>11, <1>12, <1>13, <1>14,
     <1>15, <1>16, <1>17, <1>18, <1>19, <1>20, <1>21, <1>22, <1>23, <1>24, <1>25, <1>26,
     <1>27, <1>28, <1>29, <1>30, <1>31, <1>32, <1>33, <1>34, <1>35, <1>36, <1>37 DEF Next,
     ThreadStep, Destroy, DisconnectStep, ProbeStep

LEMMA ModuleStep ==
  ASSUME IInv, Next
  PROVE  Module'
<1>1. TypeOK /\ Module /\ Counts
  BY DEF IInv
<1>2. ASSUME NEW a \in Actor, ReleaseMinors(a) PROVE Module'
  BY <1>2, <1>1, Typed, Constant, ReleaseMinorsDoes DEF Module, Bound, LastPut, Others,
     Moved, SameLocals, Became, Idle, HungUp, OthersKept, SameName, SameReserved, SameKref,
     SameMutex, SameState, SamePower
<1>3. ASSUME NEW a \in Actor, DestroySerial(a) PROVE Module'
  BY <1>3, <1>1, Typed, Constant, DestroySerialDoes DEF Module, Bound, LastPut, Others,
     Moved, SameLocals, Became, Idle, HungUp, OthersKept, SameName, SameReserved, SameKref,
     SameMutex, SameState, SamePower
<1>4. ASSUME NEW a \in Actor, ModulePut(a) PROVE Module'
  <2>1. module.state = "loaded"
    <3>1. a \in {"hub", "worker"} /\ pc[a].at = "module_put"
      BY <1>4, ModulePutDoes
    <3>2. pc["worker"].at # "idle" \/ ProbeHoldsModule
      BY <3>1 DEF ProbeHoldsModule
    <3> QED
      BY <1>1, <3>2, ModuleHeld
  <2> QED
    BY <1>4, <2>1, ModulePutDoes DEF Module
<1>5. ASSUME NEW t \in Thread, NEW m \in Minor, TtyOpen(t, m) PROVE Module'
  BY <1>5, <1>1, Typed, Constant, TtyOpenDoes DEF Module, Bound, LastPut, Others, Moved,
     SameLocals, Became, Idle, HungUp, OthersKept, SameName, SameReserved, SameKref,
     SameMutex, SameState, SamePower
<1>6. ASSUME NEW t \in Thread, NEW m \in Minor, ProcShow(t, m) PROVE Module'
  BY <1>6, <1>1, Typed, Constant, ProcShowDoes DEF Module, Bound, LastPut, Others, Moved,
     SameLocals, Became, Idle, HungUp, OthersKept, SameName, SameReserved, SameKref,
     SameMutex, SameState, SamePower
<1>7. ASSUME NEW t \in Thread, Find(t) PROVE Module'
  BY <1>7, <1>1, Typed, Constant, FindDoes DEF Module, Bound, LastPut, Others, Moved,
     SameLocals, Became, Idle, HungUp, OthersKept, SameName, SameReserved, SameKref,
     SameMutex, SameState, SamePower
<1>8. ASSUME NEW t \in Thread, GetByMinor(t) PROVE Module'
  BY <1>8, <1>1, Typed, Constant, GetByMinorDoes DEF Module, Bound, LastPut, Others, Moved,
     SameLocals, Became, Idle, HungUp, OthersKept, SameName, SameReserved, SameKref,
     SameMutex, SameState, SamePower
<1>9. ASSUME NEW t \in Thread, Install(t) PROVE Module'
  BY <1>9, <1>1, Typed, Constant, InstallDoes DEF Module, Bound, LastPut, Others, Moved,
     SameLocals, Became, Idle, HungUp, OthersKept, SameName, SameReserved, SameKref,
     SameMutex, SameState, SamePower
<1>10. ASSUME NEW t \in Thread, PutLocked(t) PROVE Module'
  BY <1>10, <1>1, Typed, Constant, PutLockedDoes DEF Module, Bound, LastPut, Others, Moved,
     SameLocals, Became, Idle, HungUp, OthersKept, SameName, SameReserved, SameKref,
     SameMutex, SameState, SamePower
<1>11. ASSUME NEW t \in Thread, UnlockDisc(t) PROVE Module'
  BY <1>11, <1>1, Typed, Constant, UnlockDiscDoes DEF Module, Bound, LastPut, Others, Moved,
     SameLocals, Became, Idle, HungUp, OthersKept, SameName, SameReserved, SameKref,
     SameMutex, SameState, SamePower
<1>12. ASSUME NEW t \in Thread, PortOpen(t) PROVE Module'
  BY <1>12, <1>1, Typed, Constant, PortOpenDoes DEF Module, Bound, LastPut, Others, Moved,
     SameLocals, Became, Idle, HungUp, OthersKept, SameName, SameReserved, SameKref,
     SameMutex, SameState, SamePower
<1>13. ASSUME NEW t \in Thread, PortActivate(t) PROVE Module'
  BY <1>13, <1>1, Typed, Constant, PortActivateDoes DEF Module, Bound, LastPut, Others,
     Moved, SameLocals, Became, Idle, HungUp, OthersKept, SameName, SameReserved, SameKref,
     SameMutex, SameState, SamePower
<1>14. ASSUME NEW t \in Thread, Write(t) PROVE Module'
  BY <1>14, <1>1, Typed, Constant, WriteDoes DEF Module, Bound, LastPut, Others, Moved,
     SameLocals, Became, Idle, HungUp, OthersKept, SameName, SameReserved, SameKref,
     SameMutex, SameState, SamePower
<1>15. ASSUME NEW p \in Port, PortSoftint(p) PROVE Module'
  BY <1>15, <1>1, Typed, Constant, SoftintDoes DEF Module, Bound, LastPut, Others, Moved,
     SameLocals, Became, Idle, HungUp, OthersKept, SameName, SameReserved, SameKref,
     SameMutex, SameState, SamePower
<1>16. ASSUME NEW p \in Port, PortWork(p) PROVE Module'
  BY <1>16, <1>1, Typed, Constant, SoftintDoes DEF Module, Bound, LastPut, Others, Moved,
     SameLocals, Became, Idle, HungUp, OthersKept, SameName, SameReserved, SameKref,
     SameMutex, SameState, SamePower
<1>17. ASSUME NEW t \in Thread, WaitUntilSent(t) PROVE Module'
  BY <1>17, <1>1, Typed, Constant, DrainDoes DEF Module, Bound, LastPut, Others, Moved,
     SameLocals, Became, Idle, HungUp, OthersKept, SameName, SameReserved, SameKref,
     SameMutex, SameState, SamePower
<1>18. ASSUME NEW t \in Thread, Drained(t) PROVE Module'
  BY <1>18, <1>1, Typed, Constant, DrainDoes DEF Module, Bound, LastPut, Others, Moved,
     SameLocals, Became, Idle, HungUp, OthersKept, SameName, SameReserved, SameKref,
     SameMutex, SameState, SamePower
<1>19. ASSUME NEW t \in Thread, Close(t) PROVE Module'
  BY <1>19, <1>1, Typed, Constant, CloseGoes DEF Module, Bound, LastPut, Others, Moved,
     SameLocals, Became, Idle, HungUp, OthersKept, SameName, SameReserved, SameKref,
     SameMutex, SameState, SamePower
<1>20. ASSUME NEW m \in Minor, Hangup(m) PROVE Module'
  BY <1>20, <1>1, Typed, Constant, HangupDoes, HangUpGoes DEF Module, Bound, LastPut,
     Others, Moved, SameLocals, Became, Idle, HungUp, OthersKept, SameName, SameReserved,
     SameKref, SameMutex, SameState, SamePower
<1>21. ASSUME NEW p \in Port, Cleanup(p) PROVE Module'
  BY <1>21, <1>1, Typed, Constant, CleanupDoes DEF Module, Bound, LastPut, Others, Moved,
     SameLocals, Became, Idle, HungUp, OthersKept, SameName, SameReserved, SameKref,
     SameMutex, SameState, SamePower
<1>22. CASE CleanupPut
  BY <1>22, <1>1, Typed, Constant, CleanupPutDoes DEF Module, Bound, LastPut, Others, Moved,
     SameLocals, Became, Idle, HungUp, OthersKept, SameName, SameReserved, SameKref,
     SameMutex, SameState, SamePower
<1>23. ASSUME NEW s \in Serial, Probe(s) PROVE Module'
  BY <1>23, <1>1, Typed, Constant, ProbeDoes, Probed DEF Module, Bound, LastPut, Others,
     Moved, SameLocals, Became, Idle, HungUp, OthersKept, SameName, SameReserved, SameKref,
     SameMutex, SameState, SamePower
<1>24. ASSUME NEW n \in 0 .. MaxPorts, Attach(n) PROVE Module'
  BY <1>24, <1>1, Typed, Constant, AttachDoes DEF Module, Bound, LastPut, Others, Moved,
     SameLocals, Became, Idle, HungUp, OthersKept, SameName, SameReserved, SameKref,
     SameMutex, SameState, SamePower
<1>25. CASE ProbeError
  BY <1>25, <1>1, Typed, Constant, ProbeErrorDoes DEF Module, Bound, LastPut, Others, Moved,
     SameLocals, Became, Idle, HungUp, OthersKept, SameName, SameReserved, SameKref,
     SameMutex, SameState, SamePower
<1>26. CASE AllocateMinors
  BY <1>26, <1>1, Typed, Constant, MinorsDoes DEF Module, Bound, LastPut, Others, Moved,
     SameLocals, Became, Idle, HungUp, OthersKept, SameName, SameReserved, SameKref,
     SameMutex, SameState, SamePower
<1>27. CASE Register
  BY <1>27, <1>1, Typed, Constant, MinorsDoes DEF Module, Bound, LastPut, Others, Moved,
     SameLocals, Became, Idle, HungUp, OthersKept, SameName, SameReserved, SameKref,
     SameMutex, SameState, SamePower
<1>28. ASSUME NEW s \in Serial, Suspend(s) PROVE Module'
  BY <1>28, <1>1, Typed, Constant, SuspendDoes DEF Module, Bound, LastPut, Others, Moved,
     SameLocals, Became, Idle, HungUp, OthersKept, SameName, SameReserved, SameKref,
     SameMutex, SameState, SamePower
<1>29. ASSUME NEW s \in Serial, Resume(s) PROVE Module'
  BY <1>29, <1>1, Typed, Constant, SuspendDoes DEF Module, Bound, LastPut, Others, Moved,
     SameLocals, Became, Idle, HungUp, OthersKept, SameName, SameReserved, SameKref,
     SameMutex, SameState, SamePower
<1>30. CASE Unplug
  BY <1>30, <1>1, Typed, Constant DEF Unplug, Module, Bound, LastPut, Others, Moved,
     SameLocals, Became, Idle, HungUp, OthersKept, SameName, SameReserved, SameKref,
     SameMutex, SameState, SamePower
<1>31. CASE Deregister
  <2>1. module' = [module EXCEPT !.state = "going"] /\ module.refs = 0
    BY <1>31 DEF Deregister
  <2>2. module'.state = "going" /\ module'.refs = 0
    BY <1>1, <2>1 DEF TypeOK
  <2> QED
    BY <2>2 DEF Module
<1>32. CASE DeregisterEnd
  BY <1>1, <1>32 DEF DeregisterEnd, Module, At, Bound
<1>33. ASSUME NEW s \in Serial, Disconnect(s) PROVE Module'
  BY <1>33, <1>1, Typed, Constant, DisconnectDoes DEF Module, Bound, LastPut, Others, Moved,
     SameLocals, Became, Idle, HungUp, OthersKept, SameName, SameReserved, SameKref,
     SameMutex, SameState, SamePower
<1>34. CASE DisconnectHangup
  BY <1>34, <1>1, Typed, Constant, DisconnectHangupDoes, HangUpGoes DEF Module, Bound,
     LastPut, Others, Moved, SameLocals, Became, Idle, HungUp, OthersKept, SameName,
     SameReserved, SameKref, SameMutex, SameState, SamePower
<1>35. CASE DisconnectPoison
  BY <1>35, <1>1, Typed, Constant, DisconnectPoisonDoes DEF Module, Bound, LastPut, Others,
     Moved, SameLocals, Became, Idle, HungUp, OthersKept, SameName, SameReserved, SameKref,
     SameMutex, SameState, SamePower
<1>36. CASE DisconnectCancel
  BY <1>36, <1>1, Typed, Constant, DisconnectCancelDoes DEF Module, Bound, LastPut, Others,
     Moved, SameLocals, Became, Idle, HungUp, OthersKept, SameName, SameReserved, SameKref,
     SameMutex, SameState, SamePower
<1>37. CASE DisconnectEnd
  BY <1>37, <1>1, Typed, Constant, DisconnectEndDoes DEF Module, Bound, LastPut, Others,
     Moved, SameLocals, Became, Idle, HungUp, OthersKept, SameName, SameReserved, SameKref,
     SameMutex, SameState, SamePower
<1> QED
  BY <1>2, <1>3, <1>4, <1>5, <1>6, <1>7, <1>8, <1>9, <1>10, <1>11, <1>12, <1>13, <1>14,
     <1>15, <1>16, <1>17, <1>18, <1>19, <1>20, <1>21, <1>22, <1>23, <1>24, <1>25, <1>26,
     <1>27, <1>28, <1>29, <1>30, <1>31, <1>32, <1>33, <1>34, <1>35, <1>36, <1>37 DEF Next,
     ThreadStep, Destroy, DisconnectStep, ProbeStep

(* A thread that stays where it is, with its locks, keeps them; one that    *)
(* goes where none is needed has none to keep.                              *)
StillAt(u) == /\ pc'[u].at = pc[u].at /\ pc'[u].s = pc[u].s /\ pc'[u].i = pc[u].i
              /\ pc'[u].m = pc[u].m
Locking == {"get", "install", "put", "unlock", "drain"}

LEMMA LocksKept ==
  ASSUME IInv, NEW u \in Thread
  PROVE  /\ pc'[u].at \notin Locking => LocksOf(u)'
         /\ /\ StillAt(u) /\ (pc[u].at = "get" => table_lock' = table_lock)
            /\ pc[u].at \in {"get", "install"} => serial_minors'[pc[u].m] = serial_minors[pc[u].m]
            /\ Holding(u) => \A s \in Serial : s = pc[u].s => SameMutex(s) /\ SameState(s)
            => LocksOf(u)'
<1>1. pc[u].s \in Serial /\ u \in Actor
  BY Typed, Constant DEF IInv
<1>2. LocksOf(u)
  BY DEF IInv, Locks
<1>3. pc'[u].at \notin Locking => LocksOf(u)'
  BY DEF Locking, LocksOf, Holding
<1>4. ASSUME StillAt(u), pc[u].at = "get" => table_lock' = table_lock,
             pc[u].at \in {"get", "install"} => serial_minors'[pc[u].m] = serial_minors[pc[u].m],
             Holding(u) => \A s \in Serial : s = pc[u].s => SameMutex(s) /\ SameState(s)
      PROVE  LocksOf(u)'
  <2>1. PortOf(u)' = PortOf(u) /\ Holding(u)' = Holding(u)
    BY <1>4 DEF PortOf, Holding, StillAt
  <2>2. Holding(u) => SameMutex(pc[u].s) /\ SameState(pc[u].s)
    BY <1>1, <1>4
  <2> QED
    BY <1>2, <1>4, <2>1, <2>2 DEF LocksOf, StillAt, Its, SameMutex, SameState
<1> QED
  BY <1>3, <1>4

LEMMA LocksStep ==
  ASSUME IInv, Next
  PROVE  Locks'
<1>1. TypeOK /\ Locks /\ Hub /\ Places
  BY DEF IInv
<1> SUFFICES ASSUME NEW u \in Thread PROVE LocksOf(u)'
  BY DEF Locks
<1>2. LocksOf(u)
  BY <1>1 DEF Locks
<1>3. ASSUME NEW a \in Actor, ReleaseMinors(a) PROVE LocksOf(u)'
  <2> DEFINE s == pc[a].s
  <2>1. s \in Serial /\ a \in {"hub", "worker"} /\ Destroying(a)
    BY <1>1, <1>3, Typed, ReleaseMinorsDoes DEF Destroying
  <2>2. /\ OthersKept(s) /\ SameMutex(s) /\ SameState(s) /\ Others(a) /\ UNCHANGED table_lock
        /\ \A m \in Minor : serial_minors[m] # NULL /\ serial_minors[m][1] # s
                             => serial_minors'[m] = serial_minors[m]
    BY <1>3, <2>1, ReleaseMinorsDoes DEF Moved
  <2>3. StillAt(u)
    BY <2>1, <2>2, Constant DEF Others, StillAt
  <2>4. \A r \in Serial : SameMutex(r) /\ SameState(r)
    BY <2>2 DEF OthersKept, SameMutex, SameState
  <2>5. ASSUME pc[u].at \in {"get", "install"}
        PROVE  serial_minors'[pc[u].m] = serial_minors[pc[u].m]
    <3>1. /\ serial_minors[pc[u].m] = PortOf(u) /\ PortOf(u) \in Port /\ Its(u).minors_reserved
          /\ pc[u].m \in Minor
      BY <1>1, <2>5, LookupFinds, Typed, Constant
    <3>2. pc[u].s # s
      <4>1. CASE pc[u].at = "install"
        BY <2>1, <4>1, DestroyingAlone, Constant
      <4>2. CASE pc[u].at = "get"
        <5>1. table_lock = u /\ u # NULL
          BY <1>1, <4>2, Constant, SerialAssumption DEF Locks, LocksOf
        <5>2. serial[s].minors_reserved => table_lock = NULL
          BY <1>3 DEF ReleaseMinors
        <5> QED
          BY <3>1, <5>1, <5>2 DEF Its
      <4> QED
        BY <2>5, <4>1, <4>2
    <3>3. PortOf(u) # NULL /\ PortOf(u)[1] = pc[u].s
      BY <3>1, SerialAssumption DEF PortOf
    <3> QED
      BY <2>2, <3>1, <3>2, <3>3
  <2> QED
    BY <2>2, <2>3, <2>4, <2>5, LocksKept
<1>4. ASSUME NEW a \in Actor, DestroySerial(a) PROVE LocksOf(u)'
  BY <1>4, <1>1, <1>2, Typed, Constant, DestroySerialDoes DEF LocksOf, Holding, Its, PortOf,
     LastPut, Others, Moved, SameLocals, Became, Idle, HungUp, OthersKept, SameName,
     SameReserved, SameKref, SameMutex, SameState, SamePower
<1>5. ASSUME NEW a \in Actor, ModulePut(a) PROVE LocksOf(u)'
  BY <1>5, <1>1, <1>2, Typed, Constant, ModulePutDoes DEF LocksOf, Holding, Its, PortOf,
     LastPut, Others, Moved, SameLocals, Became, Idle, HungUp, OthersKept, SameName,
     SameReserved, SameKref, SameMutex, SameState, SamePower
<1>6. ASSUME NEW t \in Thread, NEW m \in Minor, TtyOpen(t, m) PROVE LocksOf(u)'
  BY <1>6, <1>1, <1>2, Typed, Constant, TtyOpenDoes DEF LocksOf, Holding, Its, PortOf,
     LastPut, Others, Moved, SameLocals, Became, Idle, HungUp, OthersKept, SameName,
     SameReserved, SameKref, SameMutex, SameState, SamePower
<1>7. ASSUME NEW t \in Thread, NEW m \in Minor, ProcShow(t, m) PROVE LocksOf(u)'
  BY <1>7, <1>1, <1>2, Typed, Constant, ProcShowDoes DEF LocksOf, Holding, Its, PortOf,
     LastPut, Others, Moved, SameLocals, Became, Idle, HungUp, OthersKept, SameName,
     SameReserved, SameKref, SameMutex, SameState, SamePower
<1>8. ASSUME NEW t \in Thread, Find(t) PROVE LocksOf(u)'
  <2> DEFINE m == pc[t].m
  <2>1. /\ t \in Actor /\ m \in Minor /\ table_lock = NULL /\ UNCHANGED <<serial, serial_minors>>
    BY <1>1, <1>8, Typed, Constant DEF Find
  <2>2. Others(t)
    BY <1>8, <2>1, FindDoes DEF Became
  <2>3. CASE u # t
    <3>1. StillAt(u) /\ pc[u].at # "get"
      BY <1>1, <2>1, <2>2, <2>3, Constant, SerialAssumption DEF Others, StillAt, Locks, LocksOf
    <3> QED
      BY <2>1, <3>1, LocksKept DEF SameMutex, SameState
  <2>4. CASE u = t /\ Became(t, Idle)
    BY <2>4, LocksKept DEF Became, Idle, Locking
  <2>5. CASE /\ u = t /\ serial_minors[m] # NULL /\ table_lock' = t /\ pc'[t].at = "get"
             /\ pc'[t].s = serial_minors[m][1] /\ pc'[t].i = serial_minors[m][2] /\ pc'[t].m = m
    <3>1. serial_minors[m] \in Port /\ serial_minors[m] = <<serial_minors[m][1], serial_minors[m][2]>>
      BY <1>1, <2>1, <2>5, Typed
    <3> QED
      BY <2>1, <2>5, <3>1 DEF LocksOf, Holding, PortOf
  <2> QED
    BY <1>8, <2>1, <2>3, <2>4, <2>5, FindDoes
<1>9. ASSUME NEW t \in Thread, GetByMinor(t) PROVE LocksOf(u)'
  <2> DEFINE s == pc[t].s
  <2>1. /\ t \in Actor /\ s \in Serial /\ pc[t].m \in Minor /\ pc[t].at = "get"
        /\ serial[s].disc_mutex = NULL /\ table_lock = t /\ UNCHANGED serial_minors
        /\ pc[t].then \in {"install", "put"}
    BY <1>1, <1>9, Typed, Constant DEF GetByMinor, At, Unlocked, Locks, LocksOf, Places
  <2>2. Others(t)
    BY <1>9, <2>1, GetByMinorDoes DEF Moved, Became
  <2>3. CASE u # t
    <3>1. StillAt(u) /\ pc[u].at # "get" /\ (Holding(u) => pc[u].s # s /\ pc[u].s \in Serial)
      BY <1>1, <2>1, <2>2, <2>3, Typed, Constant, SerialAssumption
         DEF Others, StillAt, Locks, LocksOf, Its, Actor
    <3>2. Holding(u) => \A r \in Serial : r = pc[u].s => SameMutex(r) /\ SameState(r)
      BY <1>9, <2>1, <3>1, GetByMinorDoes DEF OthersKept, SameMutex, SameState
    <3> QED
      BY <2>1, <3>1, <3>2, LocksKept
  <2>4. CASE u = t /\ Became(t, Idle)
    BY <2>4, LocksKept DEF Became, Idle, Locking
  <2>5. CASE /\ u = t /\ ~serial[s].disconnected /\ Moved(t, pc[t].then)
             /\ serial'[s].disc_mutex = t /\ SameState(s)
    <3>1. serial[s].bound /\ PortOf(t) \in Port /\ serial_minors[pc[t].m] = PortOf(t)
      BY <2>1, <2>5, LookupFinds DEF Its
    <3> QED
      BY <2>1, <2>5, <3>1 DEF LocksOf, Its, Holding, SameState, Moved, SameLocals, PortOf
  <2> QED
    BY <1>9, <2>1, <2>3, <2>4, <2>5, GetByMinorDoes
<1>10. ASSUME NEW t \in Thread, Install(t) PROVE LocksOf(u)'
  <2> DEFINE s == pc[t].s
  <2>1. t \in Actor /\ s \in Serial /\ pc[t].m \in Minor /\ serial[s].disc_mutex = t
        /\ pc[t].at = "install" /\ serial[s].bound /\ ~serial[s].disconnected
    BY <1>1, <1>10, Typed, Constant DEF Install, At, Locks, LocksOf, Holding, Its
  <2>2. Others(t) /\ UNCHANGED <<table_lock, serial_minors>>
    BY <1>10, <2>1, InstallDoes DEF Moved
  <2>3. u # t => StillAt(u) /\ (Holding(u) => pc[u].s # s /\ pc[u].s \in Serial)
    BY <1>1, <2>1, <2>2, Typed, Constant DEF Others, StillAt, Locks, LocksOf, Its
  <2>4. CASE OthersKept(s) /\ pc'[t].at = "port_open"
    <3>1. u # t /\ Holding(u) => \A r \in Serial : r = pc[u].s => SameMutex(r) /\ SameState(r)
      BY <2>3, <2>4 DEF OthersKept, SameMutex, SameState
    <3>2. CASE u = t
      BY <2>4, <3>2, LocksKept DEF Locking
    <3>3. CASE u # t
      BY <2>2, <2>3, <3>1, <3>3, LocksKept
    <3> QED
      BY <3>2, <3>3
  <2>5. CASE Moved(t, "put") /\ UNCHANGED serial
    <3>1. CASE u = t
      BY <2>1, <2>2, <2>5, <3>1 DEF LocksOf, Moved, SameLocals, Its, Holding
    <3>2. CASE u # t
      BY <2>2, <2>3, <2>5, <3>2, LocksKept DEF SameMutex, SameState
    <3> QED
      BY <3>1, <3>2
  <2> QED
    BY <1>10, <2>1, <2>4, <2>5, InstallDoes DEF Moved
<1>11. ASSUME NEW t \in Thread, PutLocked(t) PROVE LocksOf(u)'
  BY <1>11, <1>1, <1>2, Typed, Constant, PutLockedDoes DEF LocksOf, Holding, Its, PortOf,
     LastPut, Others, Moved, SameLocals, Became, Idle, HungUp, OthersKept, SameName,
     SameReserved, SameKref, SameMutex, SameState, SamePower
<1>12. ASSUME NEW t \in Thread, UnlockDisc(t) PROVE LocksOf(u)'
  <2> DEFINE s == pc[t].s
  <2>1. t \in Actor /\ s \in Serial /\ pc[t].m \in Minor /\ serial[s].disc_mutex = t
    BY <1>1, <1>12, Typed, Constant DEF UnlockDisc, At, Locks, LocksOf, Holding, Its
  <2>2. Others(t) /\ OthersKept(s) /\ SameState(s) /\ UNCHANGED <<table_lock, serial_minors>>
        /\ pc'[t].at \notin Locking
    BY <1>12, <2>1, UnlockDiscDoes DEF Became, Idle, Locking
  <2>3. u # t => StillAt(u) /\ (Holding(u) => pc[u].s # s /\ pc[u].s \in Serial)
    BY <1>1, <2>1, <2>2, Typed, Constant DEF Others, StillAt, Locks, LocksOf, Its
  <2>4. u # t /\ Holding(u) => \A r \in Serial : r = pc[u].s => SameMutex(r) /\ SameState(r)
    BY <2>2, <2>3 DEF OthersKept, SameMutex, SameState
  <2>5. CASE u = t
    BY <2>2, <2>5, LocksKept
  <2>6. CASE u # t
    BY <2>2, <2>3, <2>4, <2>6, LocksKept
  <2> QED
    BY <2>5, <2>6
<1>13. ASSUME NEW t \in Thread, PortOpen(t) PROVE LocksOf(u)'
  <2>1. t \in Actor /\ pc[t].s \in Serial /\ pc[t].m \in Minor
    BY <1>1, Typed, Constant
  <2>2. Others(t) /\ pc'[t].at \notin Locking
    BY <1>13, <2>1, PortOpenDoes DEF Moved, Became, Idle, Locking
  <2>3. u # t => StillAt(u)
    BY <2>2, Constant DEF Others, StillAt
  <2> QED
    BY <1>13, <2>1, <2>2, <2>3, PortOpenDoes, LocksKept DEF SameMutex, SameState
<1>14. ASSUME NEW t \in Thread, PortActivate(t) PROVE LocksOf(u)'
  <2>1. t \in Actor /\ pc[t].s \in Serial /\ pc[t].m \in Minor
    BY <1>1, Typed, Constant
  <2>2. Others(t) /\ pc'[t].at \notin Locking
    BY <1>14, <2>1, PortActivateDoes DEF Moved, Became, Idle, Locking
  <2>3. u # t => StillAt(u)
    BY <2>2, Constant DEF Others, StillAt
  <2> QED
    BY <1>14, <2>1, <2>2, <2>3, PortActivateDoes, LocksKept DEF SameMutex, SameState
<1>15. ASSUME NEW t \in Thread, Write(t) PROVE LocksOf(u)'
  BY <1>15, <1>1, <1>2, Typed, Constant, WriteDoes DEF LocksOf, Holding, Its, PortOf,
     LastPut, Others, Moved, SameLocals, Became, Idle, HungUp, OthersKept, SameName,
     SameReserved, SameKref, SameMutex, SameState, SamePower
<1>16. ASSUME NEW p \in Port, PortSoftint(p) PROVE LocksOf(u)'
  BY <1>16, <1>1, <1>2, Typed, Constant, SoftintDoes DEF LocksOf, Holding, Its, PortOf,
     LastPut, Others, Moved, SameLocals, Became, Idle, HungUp, OthersKept, SameName,
     SameReserved, SameKref, SameMutex, SameState, SamePower
<1>17. ASSUME NEW p \in Port, PortWork(p) PROVE LocksOf(u)'
  BY <1>17, <1>1, <1>2, Typed, Constant, SoftintDoes DEF LocksOf, Holding, Its, PortOf,
     LastPut, Others, Moved, SameLocals, Became, Idle, HungUp, OthersKept, SameName,
     SameReserved, SameKref, SameMutex, SameState, SamePower
<1>18. ASSUME NEW t \in Thread, WaitUntilSent(t) PROVE LocksOf(u)'
  <2> DEFINE s == pc[t].s
  <2>1. t \in Actor /\ s \in Serial /\ pc[t].at = "running" /\ serial[s].disc_mutex = NULL
        /\ ~serial[s].disconnected
    BY <1>1, <1>18, Typed, Constant DEF WaitUntilSent, At, Unlocked
  <2>2. /\ Others(t) /\ OthersKept(s) /\ SameState(s) /\ UNCHANGED <<table_lock, serial_minors>>
        /\ serial'[s].disc_mutex = t /\ pc'[t].at = "drain" /\ pc'[t].s = s
    BY <1>18, <2>1, DrainDoes DEF Moved, SameLocals
  <2>3. serial[s].bound
    BY <2>1, FileHas DEF Its, FilePlaces
  <2>4. CASE u = t
    BY <2>1, <2>2, <2>3, <2>4 DEF LocksOf, Its, Holding, SameState
  <2>5. CASE u # t
    <3>1. StillAt(u) /\ (Holding(u) => pc[u].s # s /\ pc[u].s \in Serial)
      BY <1>1, <2>1, <2>2, <2>5, Typed, Constant, SerialAssumption
         DEF Others, StillAt, Locks, LocksOf, Its, Actor
    <3>2. Holding(u) => \A r \in Serial : r = pc[u].s => SameMutex(r) /\ SameState(r)
      BY <2>2, <3>1 DEF OthersKept, SameMutex, SameState
    <3> QED
      BY <2>2, <3>1, <3>2, LocksKept
  <2> QED
    BY <2>4, <2>5
<1>19. ASSUME NEW t \in Thread, Drained(t) PROVE LocksOf(u)'
  <2> DEFINE s == pc[t].s
  <2>1. t \in Actor /\ s \in Serial /\ pc[t].m \in Minor /\ serial[s].disc_mutex = t
    BY <1>1, <1>19, Typed, Constant DEF Drained, At, Locks, LocksOf, Holding, Its
  <2>2. Others(t) /\ OthersKept(s) /\ SameState(s) /\ UNCHANGED <<table_lock, serial_minors>>
        /\ pc'[t].at \notin Locking
    BY <1>19, <2>1, DrainDoes DEF Moved, Locking, At, Drained
  <2>3. u # t => StillAt(u) /\ (Holding(u) => pc[u].s # s /\ pc[u].s \in Serial)
    BY <1>1, <2>1, <2>2, Typed, Constant DEF Others, StillAt, Locks, LocksOf, Its
  <2>4. u # t /\ Holding(u) => \A r \in Serial : r = pc[u].s => SameMutex(r) /\ SameState(r)
    BY <2>2, <2>3 DEF OthersKept, SameMutex, SameState
  <2>5. CASE u = t
    BY <2>2, <2>5, LocksKept
  <2>6. CASE u # t
    BY <2>2, <2>3, <2>4, <2>6, LocksKept
  <2> QED
    BY <2>5, <2>6
<1>20. ASSUME NEW t \in Thread, Close(t) PROVE LocksOf(u)'
  <2>1. t \in Actor /\ pc[t].s \in Serial /\ pc[t].m \in Minor
    BY <1>1, Typed, Constant
  <2>2. Others(t) /\ pc'[t].at \notin Locking
    BY <1>20, <2>1, CloseGoes DEF Moved, Became, Idle, Locking
  <2>3. u # t => StillAt(u)
    BY <2>2, Constant DEF Others, StillAt
  <2> QED
    BY <1>20, <2>1, <2>2, <2>3, CloseGoes, LocksKept DEF SameMutex, SameState
<1>21. ASSUME NEW m \in Minor, Hangup(m) PROVE LocksOf(u)'
  BY <1>21, <1>1, <1>2, Typed, Constant, HangupDoes, HangUpGoes DEF LocksOf, Holding, Its,
     PortOf, LastPut, Others, Moved, SameLocals, Became, Idle, HungUp, OthersKept, SameName,
     SameReserved, SameKref, SameMutex, SameState, SamePower
<1>22. ASSUME NEW p \in Port, Cleanup(p) PROVE LocksOf(u)'
  BY <1>22, <1>1, <1>2, Typed, Constant, CleanupDoes DEF LocksOf, Holding, Its, PortOf,
     LastPut, Others, Moved, SameLocals, Became, Idle, HungUp, OthersKept, SameName,
     SameReserved, SameKref, SameMutex, SameState, SamePower
<1>23. CASE CleanupPut
  BY <1>23, <1>1, <1>2, Typed, Constant, CleanupPutDoes DEF LocksOf, Holding, Its, PortOf,
     LastPut, Others, Moved, SameLocals, Became, Idle, HungUp, OthersKept, SameName,
     SameReserved, SameKref, SameMutex, SameState, SamePower
<1>24. ASSUME NEW s \in Serial, Probe(s) PROVE LocksOf(u)'
  <2>1. Holding(u) => pc[u].s # s
    BY <1>1, <1>24, BoundAlive, Typed, Constant DEF Probe, Its, Locks, LocksOf
  <2>2. UNCHANGED <<table_lock, serial_minors>> /\ Others("hub") /\ (UNCHANGED serial \/ OthersKept(s))
    BY <1>24, ProbeDoes DEF Moved
  <2>3. StillAt(u)
    BY <2>2, Constant DEF Others, StillAt
  <2>4. Holding(u) => \A r \in Serial : r = pc[u].s => SameMutex(r) /\ SameState(r)
    BY <2>1, <2>2 DEF OthersKept, SameMutex, SameState
  <2> QED
    BY <2>2, <2>3, <2>4, LocksKept
<1>25. ASSUME NEW n \in 0 .. MaxPorts, Attach(n) PROVE LocksOf(u)'
  <2> DEFINE s == pc["hub"].s
  <2>1. s \in Serial /\ (Holding(u) => pc[u].s # s)
    BY <1>1, <1>25, Typed, Constant DEF Attach, At, Hub, Its, Locks, LocksOf
  <2>2. OthersKept(s) /\ Others("hub") /\ UNCHANGED <<table_lock, serial_minors>>
    BY <1>25, <2>1, AttachDoes DEF Moved
  <2>3. StillAt(u)
    BY <2>2, Constant DEF Others, StillAt
  <2>4. Holding(u) => \A r \in Serial : r = pc[u].s => SameMutex(r) /\ SameState(r)
    BY <2>1, <2>2 DEF OthersKept, SameMutex, SameState
  <2> QED
    BY <2>2, <2>3, <2>4, LocksKept
<1>26. CASE ProbeError
  BY <1>26, <1>1, <1>2, Typed, Constant, ProbeErrorDoes DEF LocksOf, Holding, Its, PortOf,
     LastPut, Others, Moved, SameLocals, Became, Idle, HungUp, OthersKept, SameName,
     SameReserved, SameKref, SameMutex, SameState, SamePower
<1>27. CASE AllocateMinors
  <2> DEFINE s == pc["hub"].s
  <2>1. s \in Serial /\ table_lock = NULL
    BY <1>1, <1>27, Typed, Constant DEF AllocateMinors
  <2>2. /\ OthersKept(s) /\ SameMutex(s) /\ SameState(s) /\ Others("hub") /\ UNCHANGED table_lock
    <3>1. pc["hub"].at # "register"
      BY <1>27 DEF AllocateMinors, At
    <3> QED
      BY <1>27, <2>1, <3>1, MinorsDoes DEF Moved
  <2>3. StillAt(u)
    BY <2>2, Constant DEF Others, StillAt
  <2>4. \A r \in Serial : SameMutex(r) /\ SameState(r)
    BY <2>2 DEF OthersKept, SameMutex, SameState
  <2>5. ASSUME pc[u].at \in {"get", "install"}
        PROVE  serial_minors'[pc[u].m] = serial_minors[pc[u].m]
    <3>1. /\ serial_minors[pc[u].m] = PortOf(u) /\ PortOf(u) \in Port /\ pc[u].m \in Minor
      BY <1>1, <2>5, LookupFinds, Typed, Constant
    <3>2. serial_minors[pc[u].m] # NULL
      BY <3>1, SerialAssumption
    <3> QED
      BY <1>27, <2>1, <3>1, <3>2, AllocateDoes
  <2> QED
    BY <2>2, <2>3, <2>4, <2>5, LocksKept
<1>28. CASE Register
  <2> DEFINE s == pc["hub"].s
  <2>1. s \in Serial /\ (Holding(u) => pc[u].s # s)
    BY <1>1, <1>28, Typed, Constant DEF Register, At, Hub, Its, Locks, LocksOf
  <2>2. OthersKept(s) /\ Others("hub") /\ UNCHANGED <<table_lock, serial_minors>>
    BY <1>28, <2>1, MinorsDoes DEF Moved, Register
  <2>3. StillAt(u)
    BY <2>2, Constant DEF Others, StillAt
  <2>4. Holding(u) => \A r \in Serial : r = pc[u].s => SameMutex(r) /\ SameState(r)
    BY <2>1, <2>2 DEF OthersKept, SameMutex, SameState
  <2> QED
    BY <2>2, <2>3, <2>4, LocksKept
<1>29. ASSUME NEW s \in Serial, Suspend(s) PROVE LocksOf(u)'
  BY <1>29, <1>1, <1>2, Typed, Constant, SuspendDoes DEF LocksOf, Holding, Its, PortOf,
     LastPut, Others, Moved, SameLocals, Became, Idle, HungUp, OthersKept, SameName,
     SameReserved, SameKref, SameMutex, SameState, SamePower
<1>30. ASSUME NEW s \in Serial, Resume(s) PROVE LocksOf(u)'
  BY <1>30, <1>1, <1>2, Typed, Constant, SuspendDoes DEF LocksOf, Holding, Its, PortOf,
     LastPut, Others, Moved, SameLocals, Became, Idle, HungUp, OthersKept, SameName,
     SameReserved, SameKref, SameMutex, SameState, SamePower
<1>31. CASE Unplug
  BY <1>31, <1>1, <1>2, Typed, Constant DEF Unplug, LocksOf, Holding, Its, PortOf, LastPut,
     Others, Moved, SameLocals, Became, Idle, HungUp, OthersKept, SameName, SameReserved,
     SameKref, SameMutex, SameState, SamePower
<1>32. CASE Deregister
  BY <1>32, <1>1, <1>2, Typed, Constant DEF Deregister, LocksOf, Holding, Its, PortOf,
     LastPut, Others, Moved, SameLocals, Became, Idle, HungUp, OthersKept, SameName,
     SameReserved, SameKref, SameMutex, SameState, SamePower
<1>33. CASE DeregisterEnd
  BY <1>33, <1>1, <1>2, Typed, Constant DEF DeregisterEnd, LocksOf, Holding, Its, PortOf,
     LastPut, Others, Moved, SameLocals, Became, Idle, HungUp, OthersKept, SameName,
     SameReserved, SameKref, SameMutex, SameState, SamePower
<1>34. ASSUME NEW s \in Serial, Disconnect(s) PROVE LocksOf(u)'
  <2>1. serial[s].disc_mutex = NULL
    BY <1>34, DisconnectDoes
  <2>2. Holding(u) => pc[u].s # s
    BY <1>1, <2>1, Constant, SerialAssumption DEF Its, Locks, LocksOf
  <2>3. OthersKept(s) /\ Others("hub") /\ UNCHANGED <<table_lock, serial_minors>>
    BY <1>34, DisconnectDoes
  <2>4. StillAt(u)
    BY <2>3, Constant DEF Others, StillAt
  <2>5. Holding(u) => \A r \in Serial : r = pc[u].s => SameMutex(r) /\ SameState(r)
    BY <2>2, <2>3 DEF OthersKept, SameMutex, SameState
  <2> QED
    BY <2>3, <2>4, <2>5, LocksKept
<1>35. CASE DisconnectHangup
  <2>1. /\ \/ HungUp(MinorOf(PortOf("hub"))) \/ \A t \in Thread : pc'[t] = pc[t]
        /\ UNCHANGED <<table_lock, serial, serial_minors>>
    BY <1>35, DisconnectHangupDoes
  <2>2. StillAt(u)
    BY <2>1 DEF HungUp, StillAt
  <2>3. \A r \in Serial : SameMutex(r) /\ SameState(r)
    BY <2>1 DEF SameMutex, SameState
  <2> QED
    BY <2>1, <2>2, <2>3, LocksKept
<1>36. CASE DisconnectPoison
  <2> DEFINE s == pc["hub"].s
  <2>1. s \in Serial
    BY <1>1, Typed, Constant
  <2>2. OthersKept(s) /\ SameMutex(s) /\ SameState(s) /\ Others("hub") /\ UNCHANGED <<table_lock, serial_minors>>
    BY <1>36, <2>1, DisconnectPoisonDoes DEF Moved
  <2>3. StillAt(u)
    BY <2>2, Constant DEF Others, StillAt
  <2>4. \A r \in Serial : SameMutex(r) /\ SameState(r)
    BY <2>2 DEF OthersKept, SameMutex, SameState
  <2> QED
    BY <2>2, <2>3, <2>4, LocksKept
<1>37. CASE DisconnectCancel
  BY <1>37, <1>1, <1>2, Typed, Constant, DisconnectCancelDoes DEF LocksOf, Holding, Its,
     PortOf, LastPut, Others, Moved, SameLocals, Became, Idle, HungUp, OthersKept, SameName,
     SameReserved, SameKref, SameMutex, SameState, SamePower
<1>38. CASE DisconnectEnd
  <2> DEFINE s == pc["hub"].s
  <2>1. s \in Serial /\ (Holding(u) => pc[u].s # s)
    BY <1>1, <1>38, Typed, Constant DEF DisconnectEnd, At, Hub, Its, Locks, LocksOf
  <2>2. OthersKept(s) /\ Others("hub") /\ UNCHANGED <<table_lock, serial_minors>>
    BY <1>38, <2>1, DisconnectEndDoes DEF Moved
  <2>3. StillAt(u)
    BY <2>2, Constant DEF Others, StillAt
  <2>4. Holding(u) => \A r \in Serial : r = pc[u].s => SameMutex(r) /\ SameState(r)
    BY <2>1, <2>2 DEF OthersKept, SameMutex, SameState
  <2> QED
    BY <2>2, <2>3, <2>4, LocksKept
<1> QED
  BY <1>3, <1>4, <1>5, <1>6, <1>7, <1>8, <1>9, <1>10, <1>11, <1>12, <1>13, <1>14, <1>15,
     <1>16, <1>17, <1>18, <1>19, <1>20, <1>21, <1>22, <1>23, <1>24, <1>25, <1>26, <1>27,
     <1>28, <1>29, <1>30, <1>31, <1>32, <1>33, <1>34, <1>35, <1>36, <1>37, <1>38 DEF Next,
     ThreadStep, Destroy, DisconnectStep, ProbeStep

(* While the hub stays where it is, its object and the ports it has been   *)
(* through stay as they are.                                               *)
Probes == pc["hub"].at \in {"attach", "minors", "register"}
Disconnects == pc["hub"].at \in {"hangup", "poison", "cancel"}
NoneOpens(p) == /\ port'[p].open => port[p].open
                /\ port'[p].work => port[p].work \/ port[p].open

LEMMA HubKept ==
  ASSUME IInv, NEW s \in Serial, s = pc["hub"].s, StillAt("hub"),
         Probes => /\ SameName(s) /\ SameReserved(s) /\ SameKref(s) /\ SameState(s)
                   /\ serial'[s].pm = serial[s].pm,
         Disconnects => SameName(s) /\ SameState(s) /\ \A p \in PortsOf(s) : NoneOpens(p)
  PROVE  Hub'
<1>1. Hub
  BY DEF IInv
<1>2. CASE Probes
  BY <1>1, <1>2 DEF Hub, Its, StillAt, Probes, SameName, SameReserved, SameKref, SameState
<1>3. CASE Disconnects
  <2>1. PortsOf(s)' = PortsOf(s) /\ PortOf("hub")' = PortOf("hub")
    BY <1>3 DEF PortsOf, PortOf, StillAt
  <2>2. \A p \in PortsOf(s) : Quiet(p) => Quiet(p)'
    BY <1>3 DEF Quiet, NoneOpens
  <2> QED
    BY <1>1, <1>3, <2>1, <2>2 DEF Hub, Its, StillAt, Disconnects, SameName, SameState, NoneOpens
<1>4. CASE ~Probes /\ ~Disconnects
  BY <1>4 DEF Hub, StillAt, Probes, Disconnects
<1> QED
  BY <1>2, <1>3, <1>4

LEMMA HubStays ==
  ASSUME IInv, StillAt("hub"), \A q \in Port : NoneOpens(q),
         Probes => serial'[pc["hub"].s] = serial[pc["hub"].s],
         SameName(pc["hub"].s), SameState(pc["hub"].s)
  PROVE  Hub'
<1>1. pc["hub"].s \in Serial /\ PortsOf(pc["hub"].s) \in SUBSET Port
  BY Typed, Constant DEF IInv
<1>2. \A p \in PortsOf(pc["hub"].s) : NoneOpens(p)
  BY <1>1
<1> QED
  BY <1>1, <1>2, HubKept DEF SameName, SameReserved, SameKref, SameState

LEMMA HubStep ==
  ASSUME IInv, Next
  PROVE  Hub'
<1>1. TypeOK /\ Hub /\ Ports /\ Places
  BY DEF IInv
<1>2. pc["hub"].s \in Serial
  BY <1>1, Typed, Constant
<1>3. ASSUME NEW a \in Actor, ReleaseMinors(a) PROVE Hub'
  BY <1>3, <1>1, <1>2, Typed, Constant, ReleaseMinorsDoes DEF Hub, Its, Quiet, PortsOf,
     PortOf, LastPut, Others, Moved, SameLocals, Became, Idle, HungUp, OthersKept, SameName,
     SameReserved, SameKref, SameMutex, SameState, SamePower, OtherPorts, SameCount,
     SameOpen, SameUrbs
<1>4. ASSUME NEW a \in Actor, DestroySerial(a) PROVE Hub'
  <2> DEFINE s == pc[a].s
  <2>1. s \in Serial
    BY <1>1, Typed
  <2>2. /\ a \in {"hub", "worker"} /\ pc[a].at = "free" /\ Others(a) /\ pc'[a].at = pc[a].then
        /\ OthersKept(s) /\ UNCHANGED port
    BY <1>4, <2>1, DestroySerialDoes DEF Moved
  <2>3. CASE a = "hub"
    <3>1. pc'["hub"].at \in {"idle", "module_put"}
      BY <1>1, <2>2, <2>3 DEF Places, Destroying
    <3> QED
      BY <3>1 DEF Hub
  <2>4. CASE a = "worker"
    <3>1. serial[s].kref = 0 /\ ~serial[s].bound
      BY <2>1, <2>2, DestroyingAlone DEF Destroying
    <3>2. Probes \/ Disconnects => pc["hub"].s # s
      BY <1>1, <3>1 DEF Probes, Disconnects, Hub, Its
    <3>3. Probes \/ Disconnects => serial'[pc["hub"].s] = serial[pc["hub"].s]
      BY <1>2, <2>2, <3>2 DEF OthersKept
    <3>4. StillAt("hub")
      BY <2>2, <2>4, Constant DEF Others, StillAt
    <3> QED
      BY <1>2, <2>2, <3>3, <3>4, HubKept DEF SameName, SameReserved, SameKref, SameState, NoneOpens
  <2> QED
    BY <2>2, <2>3, <2>4
<1>5. ASSUME NEW a \in Actor, ModulePut(a) PROVE Hub'
  BY <1>5, <1>1, <1>2, Typed, Constant, ModulePutDoes DEF Hub, Its, Quiet, PortsOf, PortOf,
     LastPut, Others, Moved, SameLocals, Became, Idle, HungUp, OthersKept, SameName,
     SameReserved, SameKref, SameMutex, SameState, SamePower, OtherPorts, SameCount,
     SameOpen, SameUrbs
<1>6. ASSUME NEW t \in Thread, NEW m \in Minor, TtyOpen(t, m) PROVE Hub'
  BY <1>6, <1>1, <1>2, Typed, Constant, TtyOpenDoes DEF Hub, Its, Quiet, PortsOf, PortOf,
     LastPut, Others, Moved, SameLocals, Became, Idle, HungUp, OthersKept, SameName,
     SameReserved, SameKref, SameMutex, SameState, SamePower, OtherPorts, SameCount,
     SameOpen, SameUrbs
<1>7. ASSUME NEW t \in Thread, NEW m \in Minor, ProcShow(t, m) PROVE Hub'
  BY <1>7, <1>1, <1>2, Typed, Constant, ProcShowDoes DEF Hub, Its, Quiet, PortsOf, PortOf,
     LastPut, Others, Moved, SameLocals, Became, Idle, HungUp, OthersKept, SameName,
     SameReserved, SameKref, SameMutex, SameState, SamePower, OtherPorts, SameCount,
     SameOpen, SameUrbs
<1>8. ASSUME NEW t \in Thread, Find(t) PROVE Hub'
  BY <1>8, <1>1, <1>2, Typed, Constant, FindDoes DEF Hub, Its, Quiet, PortsOf, PortOf,
     LastPut, Others, Moved, SameLocals, Became, Idle, HungUp, OthersKept, SameName,
     SameReserved, SameKref, SameMutex, SameState, SamePower, OtherPorts, SameCount,
     SameOpen, SameUrbs
<1>9. ASSUME NEW t \in Thread, GetByMinor(t) PROVE Hub'
  <2> DEFINE s == pc[t].s
  <2>1. s \in Serial /\ pc[t].m \in Minor /\ pc[t].at = "get"
    BY <1>1, <1>9, Typed, Constant DEF GetByMinor, At
  <2>2. /\ Others(t) /\ UNCHANGED port
        /\ UNCHANGED serial \/ (OthersKept(s) /\ SameName(s) /\ SameState(s) /\ ~serial[s].disconnected)
    BY <1>9, <2>1, GetByMinorDoes DEF Moved, Became
  <2>3. ~serial[s].disconnected => serial[s].bound
    BY <2>1, LookupFinds DEF Its
  <2>4. Probes => ~serial[pc["hub"].s].bound
    BY <1>1 DEF Probes, Hub, Its
  <2>5. Probes => UNCHANGED serial \/ serial'[pc["hub"].s] = serial[pc["hub"].s]
    BY <1>2, <2>2, <2>3, <2>4 DEF OthersKept
  <2>6. SameName(pc["hub"].s) /\ SameState(pc["hub"].s) /\ StillAt("hub")
    BY <1>2, <2>2, Constant DEF OthersKept, SameName, SameState, Others, StillAt
  <2> QED
    BY <1>2, <2>2, <2>5, <2>6, HubKept DEF SameName, SameReserved, SameKref, SameState, NoneOpens
<1>10. ASSUME NEW t \in Thread, Install(t) PROVE Hub'
  <2> DEFINE s == pc[t].s
  <2>1. s \in Serial /\ pc[t].m \in Minor /\ pc[t].at = "install"
    BY <1>1, <1>10, Typed, Constant DEF Install, At
  <2>2. /\ Others(t) /\ UNCHANGED port
        /\ UNCHANGED serial \/ (OthersKept(s) /\ SameName(s) /\ SameState(s))
    BY <1>10, <2>1, InstallDoes DEF Moved
  <2>3. Probes => pc["hub"].s # s
    BY <1>1, <2>1, LookupHas DEF Probes, Hub, Its
  <2>4. Probes => UNCHANGED serial \/ serial'[pc["hub"].s] = serial[pc["hub"].s]
    BY <1>2, <2>2, <2>3 DEF OthersKept
  <2>5. SameName(pc["hub"].s) /\ SameState(pc["hub"].s) /\ StillAt("hub")
    BY <1>2, <2>2, Constant DEF OthersKept, SameName, SameState, Others, StillAt
  <2> QED
    BY <1>2, <2>2, <2>4, <2>5, HubKept DEF SameName, SameReserved, SameKref, SameState, NoneOpens
<1>11. ASSUME NEW t \in Thread, PutLocked(t) PROVE Hub'
  BY <1>11, <1>1, <1>2, Typed, Constant, PutLockedDoes DEF Hub, Its, Quiet, PortsOf, PortOf,
     LastPut, Others, Moved, SameLocals, Became, Idle, HungUp, OthersKept, SameName,
     SameReserved, SameKref, SameMutex, SameState, SamePower, OtherPorts, SameCount,
     SameOpen, SameUrbs
<1>12. ASSUME NEW t \in Thread, UnlockDisc(t) PROVE Hub'
  BY <1>12, <1>1, <1>2, Typed, Constant, UnlockDiscDoes DEF Hub, Its, Quiet, PortsOf,
     PortOf, LastPut, Others, Moved, SameLocals, Became, Idle, HungUp, OthersKept, SameName,
     SameReserved, SameKref, SameMutex, SameState, SamePower, OtherPorts, SameCount,
     SameOpen, SameUrbs
<1>13. ASSUME NEW t \in Thread, PortOpen(t) PROVE Hub'
  <2> DEFINE p == PortOf(t)
  <2>1. p \in Port /\ Others(t) /\ OtherPorts(p) /\ SameOpen(p) /\ SameUrbs(p) /\ UNCHANGED serial
    BY <1>1, <1>13, Typed, Constant, PortOpenDoes DEF Moved
  <2>2. StillAt("hub")
    BY <2>1, Constant DEF Others, StillAt
  <2>3. \A q \in Port : NoneOpens(q)
    BY <2>1 DEF NoneOpens, OtherPorts, SameOpen, SameUrbs
  <2> QED
    BY <2>1, <2>2, <2>3, HubStays DEF SameName, SameState
<1>14. ASSUME NEW t \in Thread, PortActivate(t) PROVE Hub'
  <2> DEFINE p == PortOf(t)
  <2>1. p \in Port /\ Others(t) /\ UNCHANGED serial /\ p[1] = pc[t].s
        /\ (UNCHANGED port \/ (OtherPorts(p) /\ ~serial[pc[t].s].disconnected))
    BY <1>1, <1>14, Typed, Constant, PortActivateDoes DEF Moved, PortOf
  <2>2. StillAt("hub")
    BY <2>1, Constant DEF Others, StillAt
  <2>3. Disconnects => \A q \in PortsOf(pc["hub"].s) : NoneOpens(q)
    <3>1. Disconnects => serial[pc["hub"].s].disconnected
      BY <1>1 DEF Disconnects, Hub, Its
    <3> QED
      BY <2>1, <3>1 DEF NoneOpens, OtherPorts, PortsOf
  <2> QED
    BY <1>2, <2>1, <2>2, <2>3, HubKept DEF SameName, SameReserved, SameKref, SameState
<1>15. ASSUME NEW t \in Thread, Write(t) PROVE Hub'
  BY <1>15, <1>1, <1>2, Typed, Constant, WriteDoes DEF Hub, Its, Quiet, PortsOf, PortOf,
     LastPut, Others, Moved, SameLocals, Became, Idle, HungUp, OthersKept, SameName,
     SameReserved, SameKref, SameMutex, SameState, SamePower, OtherPorts, SameCount,
     SameOpen, SameUrbs
<1>16. ASSUME NEW p \in Port, PortSoftint(p) PROVE Hub'
  <2>1. /\ OtherPorts(p) /\ SameOpen(p) /\ (port'[p].work => port[p].urb \/ port[p].work)
        /\ UNCHANGED <<serial, pc>>
    BY <1>1, <1>16, SoftintDoes
  <2>2. StillAt("hub")
    BY <2>1 DEF StillAt
  <2>3. \A q \in Port : NoneOpens(q)
    BY <1>1, <2>1 DEF NoneOpens, OtherPorts, SameOpen, Ports
  <2> QED
    BY <2>1, <2>2, <2>3, HubStays DEF SameName, SameState
<1>17. ASSUME NEW p \in Port, PortWork(p) PROVE Hub'
  <2>1. /\ OtherPorts(p) /\ SameOpen(p) /\ (port'[p].work => port[p].urb \/ port[p].work)
        /\ UNCHANGED <<serial, pc>>
    BY <1>1, <1>17, SoftintDoes
  <2>2. StillAt("hub")
    BY <2>1 DEF StillAt
  <2>3. \A q \in Port : NoneOpens(q)
    BY <1>1, <2>1 DEF NoneOpens, OtherPorts, SameOpen, Ports
  <2> QED
    BY <2>1, <2>2, <2>3, HubStays DEF SameName, SameState
<1>18. ASSUME NEW t \in Thread, WaitUntilSent(t) PROVE Hub'
  BY <1>18, <1>1, <1>2, Typed, Constant, DrainDoes DEF Hub, Its, Quiet, PortsOf, PortOf,
     LastPut, Others, Moved, SameLocals, Became, Idle, HungUp, OthersKept, SameName,
     SameReserved, SameKref, SameMutex, SameState, SamePower, OtherPorts, SameCount,
     SameOpen, SameUrbs
<1>19. ASSUME NEW t \in Thread, Drained(t) PROVE Hub'
  BY <1>19, <1>1, <1>2, Typed, Constant, DrainDoes DEF Hub, Its, Quiet, PortsOf, PortOf,
     LastPut, Others, Moved, SameLocals, Became, Idle, HungUp, OthersKept, SameName,
     SameReserved, SameKref, SameMutex, SameState, SamePower, OtherPorts, SameCount,
     SameOpen, SameUrbs
<1>20. ASSUME NEW t \in Thread, Close(t) PROVE Hub'
  <2> DEFINE p == PortOf(t)
  <2>1. p \in Port /\ Became(t, Idle) /\ OtherPorts(p) /\ UNCHANGED serial
    BY <1>1, <1>20, Typed, Constant, CloseGoes
  <2>2. NoneOpens(p)
    <3>1. port[p].urb => port[p].open
      BY <1>1, <2>1 DEF Ports
    <3> QED
      BY <1>1, <1>20, <3>1, Typed, Constant, CloseGoes DEF NoneOpens, SameOpen, SameUrbs
  <2>3. StillAt("hub")
    BY <2>1, Constant DEF Became, Others, StillAt
  <2>4. \A q \in Port : NoneOpens(q)
    BY <2>1, <2>2 DEF NoneOpens, OtherPorts
  <2> QED
    BY <2>1, <2>3, <2>4, HubStays DEF SameName, SameState
<1>21. ASSUME NEW m \in Minor, Hangup(m) PROVE Hub'
  <2> DEFINE p == ttys[m].port
  <2>1. p \in Port /\ HangUp(p, m) /\ pc'["hub"] = pc["hub"] /\ UNCHANGED serial
    BY <1>1, <1>21, HangupDoes
  <2>2. StillAt("hub")
    BY <2>1 DEF StillAt
  <2>3. \A q \in Port : NoneOpens(q)
    BY <1>1, <2>1, HangUpGoes DEF NoneOpens, OtherPorts, Ports
  <2> QED
    BY <2>1, <2>2, <2>3, HubStays DEF SameName, SameState
<1>22. ASSUME NEW p \in Port, Cleanup(p) PROVE Hub'
  <2> DEFINE s == p[1]
  <2>1. s \in Serial
    BY <1>1, Typed
  <2>2. /\ Others("worker") /\ OtherPorts(p) /\ SameOpen(p) /\ SameUrbs(p) /\ port[p].dying > 0
        /\ OthersKept(s) /\ SameName(s) /\ SameState(s)
    BY <1>22, <2>1, CleanupDoes
  <2>3. Probes => pc["hub"].s # s
    BY <1>2, <2>2, ProbingAlone DEF Probes
  <2>4. Probes => serial'[pc["hub"].s] = serial[pc["hub"].s]
    BY <1>2, <2>2, <2>3 DEF OthersKept
  <2>5. SameName(pc["hub"].s) /\ SameState(pc["hub"].s) /\ StillAt("hub")
    BY <1>2, <2>2, Constant DEF OthersKept, SameName, SameState, Others, StillAt
  <2>6. \A q \in Port : NoneOpens(q)
    BY <2>2 DEF NoneOpens, OtherPorts, SameOpen, SameUrbs
  <2> QED
    BY <2>4, <2>5, <2>6, HubStays
<1>23. CASE CleanupPut
  <2> DEFINE s == pc["worker"].s
  <2>1. s \in Serial
    BY <1>1, Typed, Constant
  <2>2. /\ Others("worker") /\ UNCHANGED port /\ pc["worker"].at = "cleanup"
        /\ OthersKept(s) /\ SameName(s) /\ SameState(s)
    BY <1>23, <2>1, CleanupPutDoes DEF LastPut
  <2>3. Probes => pc["hub"].s # s
    BY <1>2, <2>2, ProbingAlone DEF Probes, CleaningUp
  <2>4. Probes => serial'[pc["hub"].s] = serial[pc["hub"].s]
    BY <1>2, <2>2, <2>3 DEF OthersKept
  <2>5. SameName(pc["hub"].s) /\ SameState(pc["hub"].s) /\ StillAt("hub")
    BY <1>2, <2>2, Constant DEF OthersKept, SameName, SameState, Others, StillAt
  <2> QED
    BY <1>2, <2>2, <2>4, <2>5, HubKept DEF SameName, SameReserved, SameKref, SameState, NoneOpens
<1>24. ASSUME NEW s \in Serial, Probe(s) PROVE Hub'
  <2>1. CASE pc'["hub"].at = "module_put"
    BY <2>1 DEF Hub
  <2>2. CASE /\ pc'["hub"].at = "attach" /\ pc'["hub"].s = s
             /\ serial'[s] = [NoSerial EXCEPT !.mem = "alive", !.kref = 1]
    BY <2>2, Probed DEF Hub, Its
  <2> QED
    BY <1>24, <2>1, <2>2, ProbeDoes DEF Moved
<1>25. ASSUME NEW n \in 0 .. MaxPorts, Attach(n) PROVE Hub'
  BY <1>25, <1>1, <1>2, Typed, Constant, AttachDoes DEF Hub, Its, Quiet, PortsOf, PortOf,
     LastPut, Others, Moved, SameLocals, Became, Idle, HungUp, OthersKept, SameName,
     SameReserved, SameKref, SameMutex, SameState, SamePower, OtherPorts, SameCount,
     SameOpen, SameUrbs
<1>26. CASE ProbeError
  <2>1. pc'["hub"].at \in {"destroy", "module_put"}
    BY <1>2, <1>26, ProbeErrorDoes DEF LastPut
  <2> QED
    BY <2>1 DEF Hub
<1>27. CASE AllocateMinors
  BY <1>27, <1>1, <1>2, Typed, Constant, MinorsDoes DEF Hub, Its, Quiet, PortsOf, PortOf,
     LastPut, Others, Moved, SameLocals, Became, Idle, HungUp, OthersKept, SameName,
     SameReserved, SameKref, SameMutex, SameState, SamePower, OtherPorts, SameCount,
     SameOpen, SameUrbs
<1>28. CASE Register
  BY <1>28, <1>1, <1>2, Typed, Constant, MinorsDoes DEF Hub, Its, Quiet, PortsOf, PortOf,
     LastPut, Others, Moved, SameLocals, Became, Idle, HungUp, OthersKept, SameName,
     SameReserved, SameKref, SameMutex, SameState, SamePower, OtherPorts, SameCount,
     SameOpen, SameUrbs
<1>29. ASSUME NEW s \in Serial, Suspend(s) PROVE Hub'
  BY <1>29, <1>1, <1>2, Typed, Constant, SuspendDoes DEF Hub, Its, Quiet, PortsOf, PortOf,
     LastPut, Others, Moved, SameLocals, Became, Idle, HungUp, OthersKept, SameName,
     SameReserved, SameKref, SameMutex, SameState, SamePower, OtherPorts, SameCount,
     SameOpen, SameUrbs
<1>30. ASSUME NEW s \in Serial, Resume(s) PROVE Hub'
  BY <1>30, <1>1, <1>2, Typed, Constant, SuspendDoes DEF Hub, Its, Quiet, PortsOf, PortOf,
     LastPut, Others, Moved, SameLocals, Became, Idle, HungUp, OthersKept, SameName,
     SameReserved, SameKref, SameMutex, SameState, SamePower, OtherPorts, SameCount,
     SameOpen, SameUrbs
<1>31. CASE Unplug
  BY <1>31, <1>1, <1>2, Typed, Constant DEF Unplug, Hub, Its, Quiet, PortsOf, PortOf,
     LastPut, Others, Moved, SameLocals, Became, Idle, HungUp, OthersKept, SameName,
     SameReserved, SameKref, SameMutex, SameState, SamePower, OtherPorts, SameCount,
     SameOpen, SameUrbs
<1>32. CASE Deregister
  BY <1>32, <1>1, <1>2, Typed, Constant DEF Deregister, Hub, Its, Quiet, PortsOf, PortOf,
     LastPut, Others, Moved, SameLocals, Became, Idle, HungUp, OthersKept, SameName,
     SameReserved, SameKref, SameMutex, SameState, SamePower, OtherPorts, SameCount,
     SameOpen, SameUrbs
<1>33. CASE DeregisterEnd
  BY <1>33, <1>1, <1>2, Typed, Constant DEF DeregisterEnd, Hub, Its, Quiet, PortsOf, PortOf,
     LastPut, Others, Moved, SameLocals, Became, Idle, HungUp, OthersKept, SameName,
     SameReserved, SameKref, SameMutex, SameState, SamePower, OtherPorts, SameCount,
     SameOpen, SameUrbs
<1>34. ASSUME NEW s \in Serial, Disconnect(s) PROVE Hub'
  <2>1. /\ pc'["hub"].at = "hangup" /\ pc'["hub"].s = s /\ pc'["hub"].i = 1
        /\ serial'[s].disconnected /\ serial'[s].bound
    BY <1>34, DisconnectDoes
  <2>2. \A p \in Port : ~(p[2] < 1)
    BY DEF Port
  <2> QED
    BY <2>1, <2>2 DEF Hub, Its, PortsOf
<1>35. CASE DisconnectHangup
  <2> DEFINE p == PortOf("hub")  s == pc["hub"].s  m == MinorOf(p)
  <2>1. /\ pc["hub"].at = "hangup" /\ pc["hub"].i <= serial[s].num_ports /\ p \in Port
        /\ p[1] = s /\ p[2] = pc["hub"].i /\ pc'["hub"].at = "poison" /\ pc'["hub"].s = s
        /\ pc'["hub"].i = pc["hub"].i /\ UNCHANGED serial
    BY <1>35, DisconnectHangupDoes DEF Its, SameLocals
  <2>2. HangUp(p, m) \/ (~port[p].tty /\ UNCHANGED port)
    BY <1>35, DisconnectHangupDoes
  <2>3. ~port'[p].open /\ \A q \in Port : NoneOpens(q)
    <3>1. CASE HangUp(p, m)
      BY <1>1, <2>1, <3>1, HangUpGoes DEF NoneOpens, OtherPorts, Ports
    <3>2. CASE ~port[p].tty /\ UNCHANGED port
      BY <1>1, <2>1, <3>2 DEF NoneOpens, Ports
    <3> QED
      BY <2>2, <3>1, <3>2
  <2>4. PortOf("hub")' = p /\ PortsOf(s)' = PortsOf(s) /\ PortsOf(s) \in SUBSET Port
    BY <2>1 DEF PortOf, PortsOf
  <2>5. \A q \in PortsOf(s) : q[2] < pc["hub"].i => ~port'[q].open /\ ~port'[q].work
    BY <1>1, <2>1, <2>3, <2>4 DEF Hub, Quiet, NoneOpens
  <2>6. serial[s].bound /\ serial[s].disconnected /\ pc["hub"].i >= 1
    BY <1>1, <2>1 DEF Hub, Its
  <2> QED
    BY <2>1, <2>3, <2>4, <2>5, <2>6 DEF Hub, Its, Quiet
<1>36. CASE DisconnectPoison
  <2> DEFINE p == PortOf("hub")  s == pc["hub"].s
  <2>1. /\ pc["hub"].at = "poison" /\ p \in Port /\ pc'["hub"].at = "cancel" /\ pc'["hub"].s = s
        /\ pc'["hub"].i = pc["hub"].i
        /\ SameName(s) /\ SameState(s) /\ OtherPorts(p) /\ SameOpen(p)
    BY <1>2, <1>36, DisconnectPoisonDoes DEF Moved, SameLocals
  <2>2. /\ serial[s].bound /\ serial[s].disconnected /\ pc["hub"].i >= 1
        /\ pc["hub"].i <= serial[s].num_ports /\ ~port[p].open
    <3>1. p \in PortsOf(s)
      BY <2>1 DEF PortsOf, PortOf
    <3> QED
      BY <1>1, <2>1, <3>1 DEF Hub, Its
  <2>3. PortOf("hub")' = p /\ PortsOf(s)' = PortsOf(s) /\ PortsOf(s) \in SUBSET Port
    BY <2>1 DEF PortOf, PortsOf
  <2>4. \A q \in PortsOf(s) : q[2] < pc["hub"].i => q # p /\ ~port[q].open /\ ~port[q].work
    <3>1. p[2] = pc["hub"].i /\ pc["hub"].i \in Nat
      BY <1>1, Typed, Constant DEF PortOf
    <3> QED
      BY <1>1, <2>1, <3>1 DEF Hub, Quiet
  <2>5. \A q \in PortsOf(s) : q[2] < pc["hub"].i => ~port'[q].open /\ ~port'[q].work
    BY <2>1, <2>3, <2>4 DEF OtherPorts
  <2> QED
    BY <2>1, <2>2, <2>3, <2>5 DEF Hub, Its, Quiet, SameName, SameState, SameOpen
<1>37. CASE DisconnectCancel
  <2> DEFINE p == PortOf("hub")  s == pc["hub"].s  i == pc["hub"].i
  <2>1. /\ pc["hub"].at = "cancel" /\ p \in Port /\ pc'["hub"].at = "hangup" /\ pc'["hub"].s = s
        /\ pc'["hub"].i = i + 1 /\ OtherPorts(p) /\ SameOpen(p) /\ ~port'[p].work
        /\ UNCHANGED serial
    BY <1>37, DisconnectCancelDoes
  <2>2. p[2] = i /\ i \in Nat /\ p[1] = s /\ p \in PortsOf(s) /\ PortsOf(s) \in SUBSET Port
    BY <1>1, <2>1, Typed, Constant DEF PortOf, PortsOf
  <2>3. /\ serial[s].bound /\ serial[s].disconnected /\ i >= 1 /\ ~port[p].open
    BY <1>1, <2>1, <2>2 DEF Hub, Its
  <2>4. PortsOf(s)' = PortsOf(s)
    BY <2>1 DEF PortsOf
  <2>5. \A q \in PortsOf(s) : q[2] < i => q # p /\ ~port[q].open /\ ~port[q].work
    BY <1>1, <2>1, <2>2 DEF Hub, Quiet
  <2>6. \A q \in PortsOf(s) : q[2] < i + 1 => q[2] < i \/ q = p
    <3>1. \A q \in PortsOf(s) : q[2] \in Nat /\ q = <<s, q[2]>>
      BY <1>1, Typed DEF PortsOf
    <3>2. p = <<s, i>>
      BY DEF PortOf
    <3> QED
      BY <2>2, <3>1, <3>2
  <2>7. \A q \in PortsOf(s) : q[2] < i + 1 => ~port'[q].open /\ ~port'[q].work
    BY <2>1, <2>2, <2>3, <2>5, <2>6 DEF OtherPorts, SameOpen
  <2>8. i + 1 >= 1
    BY <2>2
  <2> HIDE DEF i
  <2> QED
    BY <2>1, <2>3, <2>4, <2>7, <2>8 DEF Hub, Its, Quiet
<1>38. CASE DisconnectEnd
  BY <1>38, <1>1, <1>2, Typed, Constant, DisconnectEndDoes DEF Hub, Its, Quiet, PortsOf,
     PortOf, LastPut, Others, Moved, SameLocals, Became, Idle, HungUp, OthersKept, SameName,
     SameReserved, SameKref, SameMutex, SameState, SamePower, OtherPorts, SameCount,
     SameOpen, SameUrbs
<1> QED
  BY <1>3, <1>4, <1>5, <1>6, <1>7, <1>8, <1>9, <1>10, <1>11, <1>12, <1>13, <1>14, <1>15,
     <1>16, <1>17, <1>18, <1>19, <1>20, <1>21, <1>22, <1>23, <1>24, <1>25, <1>26, <1>27,
     <1>28, <1>29, <1>30, <1>31, <1>32, <1>33, <1>34, <1>35, <1>36, <1>37, <1>38 DEF Next,
     ThreadStep, Destroy, DisconnectStep, ProbeStep

(* The ttys, while the threads stay where they are, and when one moves.    *)
TtyStill(t) == /\ pc'[t].at \in FilePlaces <=> pc[t].at \in FilePlaces
               /\ pc[t].at \in FilePlaces => pc'[t].s = pc[t].s /\ pc'[t].i = pc[t].i /\ pc'[t].m = pc[t].m
               /\ pc'[t].at \in {"port_open", "activate"} => pc[t].at \in {"port_open", "activate"}
               /\ Installing(t)' => /\ Installing(t) /\ pc'[t].m = pc[t].m
                                    /\ pc'[t].at # "put" => pc[t].at # "put"
NumbersStay == \A m \in Minor : ttys[m] # NULL => serial_minors'[m] = serial_minors[m]

LEMMA TtysKept ==
  ASSUME IInv, UNCHANGED ttys, NumbersStay, \A t \in Thread : TtyStill(t)
  PROVE  Ttys'
<1>1. Ttys
  BY DEF IInv
<1>2. \A m \in Minor : FilesAt(m)' = FilesAt(m)
  BY DEF FilesAt, TtyStill
<1>3. \A m \in Minor : ttys'[m] # NULL => /\ serial_minors'[m] = ttys'[m].port
                                          /\ ttys'[m].count = Cardinality(FilesAt(m)')
  BY <1>1, <1>2 DEF Ttys, NumbersStay
<1>4. \A t \in Thread : pc'[t].at \in FilePlaces =>
         /\ ttys'[pc'[t].m] # NULL /\ ttys'[pc'[t].m].port = PortOf(t)'
         /\ pc'[t].at \in {"port_open", "activate"} => ttys'[pc'[t].m].lock = t
  BY <1>1 DEF Ttys, TtyStill, PortOf
<1>5. \A t \in Thread : Installing(t)' =>
         /\ pc'[t].at # "put" => ttys'[pc'[t].m] = NULL
         /\ \A u \in Thread : Installing(u)' => t = u
  BY <1>1 DEF Ttys, TtyStill
<1> QED
  BY <1>3, <1>4, <1>5 DEF Ttys

LEMMA TtysOne ==
  ASSUME IInv, NEW t \in Thread, NEW m \in Minor, Others(t), OtherTtys(m), NumbersStay,
         pc[t].at \in FilePlaces => pc[t].m = m, pc'[t].at \in FilePlaces => pc'[t].m = m,
         ttys'[m] # NULL => /\ serial_minors'[m] = ttys'[m].port
                            /\ ttys'[m].count = Cardinality(FilesAt(m)'),
         \A u \in Thread : pc'[u].at \in FilePlaces /\ pc'[u].m = m =>
             /\ ttys'[m] # NULL /\ ttys'[m].port = PortOf(u)'
             /\ pc'[u].at \in {"port_open", "activate"} => ttys'[m].lock = u,
         \A u \in Thread : Installing(u)' =>
             /\ pc'[u].at # "put" => ttys'[pc'[u].m] = NULL
             /\ \A v \in Thread : Installing(v)' => u = v
  PROVE  Ttys'
<1>1. Ttys /\ t \in Actor
  BY Constant DEF IInv
<1>2. \A n \in Minor : n # m => FilesAt(n)' = FilesAt(n)
  BY <1>1, Constant DEF FilesAt, Others
<1>3. \A n \in Minor : ttys'[n] # NULL => /\ serial_minors'[n] = ttys'[n].port
                                          /\ ttys'[n].count = Cardinality(FilesAt(n)')
  BY <1>1, <1>2 DEF Ttys, NumbersStay, OtherTtys
<1>4. \A u \in Thread : pc'[u].at \in FilePlaces =>
         /\ ttys'[pc'[u].m] # NULL /\ ttys'[pc'[u].m].port = PortOf(u)'
         /\ pc'[u].at \in {"port_open", "activate"} => ttys'[pc'[u].m].lock = u
  <2> SUFFICES ASSUME NEW u \in Thread, pc'[u].at \in FilePlaces
               PROVE  /\ ttys'[pc'[u].m] # NULL /\ ttys'[pc'[u].m].port = PortOf(u)'
                      /\ pc'[u].at \in {"port_open", "activate"} => ttys'[pc'[u].m].lock = u
    OBVIOUS
  <2>1. CASE pc'[u].m = m
    BY <2>1
  <2>2. CASE pc'[u].m # m
    <3>1. u # t /\ u \in Actor
      BY <2>2, Constant
    <3>2. pc'[u] = pc[u] /\ pc[u].m \in Minor
      BY <3>1, Typed DEF Others, IInv
    <3>3. PortOf(u)' = PortOf(u) /\ ttys'[pc[u].m] = ttys[pc[u].m]
      BY <2>2, <3>2 DEF PortOf, OtherTtys
    <3> QED
      BY <1>1, <3>2, <3>3 DEF Ttys
  <2> QED
    BY <2>1, <2>2
<1> QED
  BY <1>3, <1>4 DEF Ttys

(* A thread that installs nothing leaves the installing to the others.     *)
LEMMA InstallingKept ==
  ASSUME IInv, NEW t \in Thread, Others(t), ~Installing(t)',
         \A n \in Minor : ttys[n] = NULL => ttys'[n] = NULL
  PROVE  \A u \in Thread : Installing(u)' => /\ pc'[u].at # "put" => ttys'[pc'[u].m] = NULL
                                             /\ \A v \in Thread : Installing(v)' => u = v
<1>1. Ttys /\ \A u \in Thread : /\ Installing(u)' => u # t
                                /\ u \in Actor /\ pc[u].m \in Minor
  BY Constant, Typed DEF IInv
<1>2. \A u \in Thread : Installing(u)' => u # t /\ pc'[u] = pc[u] /\ Installing(u)
  BY <1>1 DEF Others, Installing
<1> QED
  BY <1>1, <1>2 DEF Ttys

(* A thread comes to have the tty m, or is done with it.                   *)
LEMMA FilesChange ==
  ASSUME IInv, NEW t \in Thread, NEW m \in Minor, Others(t)
  PROVE  /\ IsFiniteSet(FilesAt(m))
         /\ pc'[t].at \in FilePlaces /\ pc'[t].m = m => FilesAt(m)' = FilesAt(m) \union {t}
         /\ pc'[t].at \notin FilePlaces => FilesAt(m)' = FilesAt(m) \ {t}
         /\ \A u \in FilesAt(m) : ttys[m] # NULL /\ ttys[m].port = PortOf(u)
                                  /\ (pc[u].at \in {"port_open", "activate"} => ttys[m].lock = u)
         /\ \A u \in FilesAt(m)' : u # t => u \in FilesAt(m) /\ pc'[u] = pc[u] /\ PortOf(u)' = PortOf(u)
<1>1. IsFiniteSet(FilesAt(m))
  BY Finite, FS_Subset DEF FilesAt
<1>2. \A u \in Thread : u # t => pc'[u] = pc[u]
  BY Constant DEF Others
<1>3. \A u \in Thread : u # t => (u \in FilesAt(m)' <=> u \in FilesAt(m))
  BY <1>2 DEF FilesAt
<1>4. FilesAt(m) \subseteq Thread /\ FilesAt(m)' \subseteq Thread
      /\ (t \in FilesAt(m)' <=> pc'[t].at \in FilePlaces /\ pc'[t].m = m)
  BY DEF FilesAt
<1>5. pc'[t].at \in FilePlaces /\ pc'[t].m = m => FilesAt(m)' = FilesAt(m) \union {t}
  BY <1>3, <1>4
<1>6. pc'[t].at \notin FilePlaces => FilesAt(m)' = FilesAt(m) \ {t}
  BY <1>3, <1>4
<1>7. \A u \in FilesAt(m)' : u # t => u \in FilesAt(m) /\ pc'[u] = pc[u] /\ PortOf(u)' = PortOf(u)
  BY <1>2, <1>3, <1>4 DEF PortOf
<1>8. \A u \in FilesAt(m) : ttys[m] # NULL /\ ttys[m].port = PortOf(u)
                            /\ (pc[u].at \in {"port_open", "activate"} => ttys[m].lock = u)
  BY DEF FilesAt, IInv, Ttys
<1> QED
  BY <1>1, <1>5, <1>6, <1>7, <1>8


LEMMA TtysStep ==
  ASSUME IInv, Next
  PROVE  Ttys'
<1>1. TypeOK /\ Ttys /\ Places
  BY DEF IInv
<1>2. ASSUME NEW a \in Actor, ReleaseMinors(a) PROVE Ttys'
  <2>1. Others(a) /\ a \notin Thread /\ UNCHANGED ttys
    BY <1>2, ReleaseMinorsDoes, Typed, Constant, <1>1 DEF Moved
  <2>2. pc[a].s \in Serial /\ Destroying(a)
    BY <1>1, <1>2, Typed, ReleaseMinorsDoes DEF Destroying
  <2>3. \A m \in Minor : ttys[m] # NULL => ttys[m].port[1] # pc[a].s
    BY <2>2, DestroyingAlone
  <2>4. \A m \in Minor : ttys[m] # NULL => serial_minors[m] = ttys[m].port /\ serial_minors[m] # NULL
    BY <1>1, Typed, SerialAssumption DEF Ttys, Tty
  <2>5. \A m \in Minor : serial_minors[m] # NULL /\ serial_minors[m][1] # pc[a].s
                         => serial_minors'[m] = serial_minors[m]
    BY <1>2, <2>2, ReleaseMinorsDoes
  <2>6. NumbersStay
    BY <2>3, <2>4, <2>5 DEF NumbersStay
  <2>7. \A u \in Thread : TtyStill(u)
    BY <2>1, Constant DEF TtyStill, Others, Installing
  <2> QED
    BY <2>1, <2>6, <2>7, TtysKept
<1>3. ASSUME NEW a \in Actor, DestroySerial(a) PROVE Ttys'
  <2>1. UNCHANGED ttys /\ NumbersStay /\ \A u \in Thread : TtyStill(u)
    BY <1>1, <1>3, Typed, Constant, DestroySerialDoes DEF NumbersStay, TtyStill, Installing,
       FilePlaces, LastPut, Others, Moved, SameLocals, Became, Idle, HungUp
  <2> QED
    BY <2>1, TtysKept
<1>4. ASSUME NEW a \in Actor, ModulePut(a) PROVE Ttys'
  <2>1. UNCHANGED ttys /\ NumbersStay /\ \A u \in Thread : TtyStill(u)
    BY <1>1, <1>4, Typed, Constant, ModulePutDoes DEF NumbersStay, TtyStill, Installing,
       FilePlaces, LastPut, Others, Moved, SameLocals, Became, Idle, HungUp
  <2> QED
    BY <2>1, TtysKept
<1>5. ASSUME NEW t \in Thread, NEW m \in Minor, TtyOpen(t, m) PROVE Ttys'
  <2>1. t \in Actor /\ pc[t].at = "idle" /\ Others(t) /\ NumbersStay
    BY <1>5, TtyOpenDoes, Constant DEF NumbersStay
  <2>2. \A u \in Thread : ~Installing(u)
    BY <1>5, TtyOpenDoes
  <2>3. CASE /\ ttys[m] = NULL /\ UNCHANGED ttys
             /\ pc'[t].at = "find" /\ pc'[t].then = "install" /\ pc'[t].m = m
    <3>1. \A u \in Thread : u # t => pc'[u] = pc[u]
      BY <2>1, Constant DEF Others
    <3>2. \A u \in Thread : Installing(u)' => u = t
      BY <2>2, <3>1 DEF Installing
    <3>3. FilesAt(m)' = FilesAt(m)
      BY <2>1, <2>3, <3>1 DEF FilesAt, FilePlaces
    <3>4. \A u \in Thread : ~(pc'[u].at \in FilePlaces /\ pc'[u].m = m)
      BY <1>1, <2>3, <3>1 DEF Ttys, FilePlaces
    <3> QED
      BY <2>1, <2>3, <3>2, <3>3, <3>4, TtysOne DEF FilePlaces, OtherTtys
  <2>4. CASE /\ ttys[m] # NULL /\ ttys[m].lock = NULL /\ OtherTtys(m) /\ pc'[t].m = m
             /\ ttys'[m] # NULL /\ ttys'[m].port = ttys[m].port
             /\ ttys'[m].count = ttys[m].count + 1 /\ ttys'[m].lock = t
             /\ pc'[t].at = "port_open" /\ pc'[t].s = ttys[m].port[1] /\ pc'[t].i = ttys[m].port[2]
    <3>1. FilesAt(m)' = FilesAt(m) \union {t} /\ IsFiniteSet(FilesAt(m)) /\ t \notin FilesAt(m)
      BY <2>1, <2>4, FilesChange DEF FilesAt, FilePlaces
    <3>2. Cardinality(FilesAt(m)') = Cardinality(FilesAt(m)) + 1
      BY <3>1, OneMore
    <3>3. serial_minors'[m] = ttys'[m].port /\ ttys'[m].count = Cardinality(FilesAt(m)')
      BY <1>1, <2>1, <2>4, <3>2 DEF Ttys, NumbersStay
    <3>4. PortOf(t)' = ttys[m].port
      BY <1>1, <2>4, Typed DEF PortOf, Tty
    <3>5. ASSUME NEW u \in Thread, pc'[u].at \in FilePlaces, pc'[u].m = m
          PROVE  /\ ttys'[m] # NULL /\ ttys'[m].port = PortOf(u)'
                 /\ pc'[u].at \in {"port_open", "activate"} => ttys'[m].lock = u
      <4>1. CASE u = t
        BY <2>4, <3>4, <4>1
      <4>2. CASE u # t
        <5>1. u \in FilesAt(m)'
          BY <3>5 DEF FilesAt
        <5>2. u \in FilesAt(m) /\ pc'[u] = pc[u] /\ PortOf(u)' = PortOf(u)
          BY <2>1, <4>2, <5>1, FilesChange
        <5>3. ttys[m].port = PortOf(u) /\ (pc[u].at \in {"port_open", "activate"} => ttys[m].lock = u)
          BY <2>1, <5>2, FilesChange
        <5>4. u # NULL
          BY SerialAssumption, Constant
        <5> QED
          BY <2>4, <5>2, <5>3, <5>4
      <4> QED
        BY <4>1, <4>2
    <3>6. \A u \in Thread : ~Installing(u)'
      BY <2>1, <2>2, <2>4, Constant DEF Installing, Others
    <3> QED
      BY <2>1, <2>4, <3>3, <3>5, <3>6, TtysOne DEF FilePlaces
  <2> QED
    BY <1>5, <2>3, <2>4, TtyOpenDoes DEF OtherTtys
<1>6. ASSUME NEW t \in Thread, NEW m \in Minor, ProcShow(t, m) PROVE Ttys'
  <2>1. UNCHANGED ttys /\ NumbersStay /\ \A u \in Thread : TtyStill(u)
    BY <1>1, <1>6, Typed, Constant, ProcShowDoes DEF NumbersStay, TtyStill, Installing,
       FilePlaces, LastPut, Others, Moved, SameLocals, Became, Idle, HungUp
  <2> QED
    BY <2>1, TtysKept
<1>7. ASSUME NEW t \in Thread, Find(t) PROVE Ttys'
  <2>1. UNCHANGED ttys /\ NumbersStay /\ \A u \in Thread : TtyStill(u)
    BY <1>1, <1>7, Typed, Constant, FindDoes DEF NumbersStay, TtyStill, Installing,
       FilePlaces, LastPut, Others, Moved, SameLocals, Became, Idle, HungUp
  <2> QED
    BY <2>1, TtysKept
<1>8. ASSUME NEW t \in Thread, GetByMinor(t) PROVE Ttys'
  <2>1. /\ pc[t].s \in Serial /\ t \in Actor /\ pc[t].at = "get"
        /\ UNCHANGED <<ttys, serial_minors>>
        /\ (Became(t, Idle) \/ Moved(t, pc[t].then)) /\ pc[t].then \in {"install", "put"}
    BY <1>1, <1>8, Typed, Constant, GetByMinorDoes DEF Places
  <2>2. Others(t) /\ TtyStill(t)
    BY <2>1 DEF TtyStill, Installing, FilePlaces, Became, Moved, SameLocals, Idle
  <2>3. NumbersStay /\ \A u \in Thread : TtyStill(u)
    BY <2>1, <2>2, Constant DEF NumbersStay, TtyStill, Others, Installing
  <2> QED
    BY <2>1, <2>3, TtysKept
<1>9. ASSUME NEW t \in Thread, Install(t) PROVE Ttys'
  <2>0. PICK m \in Minor : m = pc[t].m
    BY <1>1, Typed, Constant
  <2>1. /\ m = pc[t].m /\ t \in Actor /\ m \in Minor /\ pc[t].s \in Serial /\ pc[t].at = "install"
        /\ PortOf(t) \in Port /\ serial_minors[m] = PortOf(t) /\ Installing(t) /\ ttys[m] = NULL
    <3>1. t \in Actor /\ m \in Minor /\ pc[t].s \in Serial /\ pc[t].at = "install"
      BY <1>1, <1>9, <2>0, Typed, Constant DEF Install, At
    <3>2. PortOf(t) \in Port /\ serial_minors[m] = PortOf(t) /\ Installing(t)
      BY <1>1, <2>0, <3>1, LookupFinds DEF Places, Installing
    <3> QED
      BY <1>1, <2>0, <3>1, <3>2 DEF Ttys
  <2>2. CASE Moved(t, "put") /\ UNCHANGED <<ttys, serial_minors>>
    <3>1. NumbersStay /\ \A u \in Thread : TtyStill(u)
      BY <2>1, <2>2, Constant DEF NumbersStay, TtyStill, Installing, FilePlaces, Moved, Others,
         SameLocals
    <3> QED
      BY <2>2, <3>1, TtysKept
  <2>3. CASE /\ Moved(t, "port_open") /\ OtherTtys(m) /\ UNCHANGED serial_minors
             /\ ttys'[m] # NULL /\ ttys'[m].port = PortOf(t) /\ ttys'[m].count = 1
             /\ ttys'[m].lock = t
    <3>1. Others(t) /\ NumbersStay /\ pc'[t].at = "port_open" /\ pc'[t].m = m /\ PortOf(t)' = PortOf(t)
      BY <2>1, <2>3 DEF Moved, SameLocals, NumbersStay, PortOf
    <3>2. FilesAt(m) = {}
      BY <2>1, <3>1, FilesChange
    <3>3. FilesAt(m)' = {t}
      BY <2>1, <3>1, <3>2, FilesChange DEF FilePlaces
    <3>4. Cardinality(FilesAt(m)') = 1
      BY <3>3, FS_Singleton, Zenon
    <3>5. \A u \in Thread : pc'[u].at \in FilePlaces /\ pc'[u].m = m => u = t
      BY <3>3 DEF FilesAt
    <3>6. \A u \in Thread : ~Installing(u)'
      <4>1. \A u \in Thread : u # t => ~Installing(u)
        BY <1>1, <2>1 DEF Ttys
      <4> QED
        BY <3>1, <4>1, Constant DEF Installing, Others
    <3> QED
      BY <2>1, <2>3, <3>1, <3>4, <3>5, <3>6, TtysOne DEF FilePlaces
  <2> QED
    BY <1>9, <2>1, <2>2, <2>3, InstallDoes DEF OtherTtys
<1>10. ASSUME NEW t \in Thread, PutLocked(t) PROVE Ttys'
  <2>1. UNCHANGED ttys /\ NumbersStay /\ \A u \in Thread : TtyStill(u)
    BY <1>1, <1>10, Typed, Constant, PutLockedDoes DEF NumbersStay, TtyStill, Installing,
       FilePlaces, LastPut, Others, Moved, SameLocals, Became, Idle, HungUp
  <2> QED
    BY <2>1, TtysKept
<1>11. ASSUME NEW t \in Thread, UnlockDisc(t) PROVE Ttys'
  <2>1. UNCHANGED ttys /\ NumbersStay /\ \A u \in Thread : TtyStill(u)
    BY <1>1, <1>11, Typed, Constant, UnlockDiscDoes DEF NumbersStay, TtyStill, Installing,
       FilePlaces, LastPut, Others, Moved, SameLocals, Became, Idle, HungUp
  <2> QED
    BY <2>1, TtysKept
<1>12. ASSUME NEW t \in Thread, PortOpen(t) PROVE Ttys'
  <2>0. PICK m \in Minor : m = pc[t].m
    BY <1>1, Typed, Constant
  <2>1. /\ m = pc[t].m /\ t \in Actor /\ m \in Minor /\ pc[t].at = "port_open" /\ ttys[m] # NULL
        /\ ttys[m].port = PortOf(t) /\ serial_minors[m] = ttys[m].port /\ ttys[m].lock = t
    BY <1>1, <1>12, <2>0, Typed, Constant, PortOpenDoes DEF Ttys, FilePlaces
  <2>2. /\ Others(t) /\ SameLocals(t) /\ UNCHANGED serial_minors
        /\ \/ /\ pc'[t].at \in {"running"} /\ OtherTtys(m) /\ ttys'[m] # NULL
              /\ ttys'[m].port = ttys[m].port /\ ttys'[m].count = ttys[m].count
           \/ pc'[t].at = "activate" /\ UNCHANGED ttys
    BY <1>12, <2>1, PortOpenDoes DEF Moved
  <2>3. CASE pc'[t].at = "activate" /\ UNCHANGED ttys
    <3>1. NumbersStay /\ \A u \in Thread : TtyStill(u)
      BY <2>1, <2>2, <2>3, Constant DEF NumbersStay, TtyStill, Installing, FilePlaces, Others,
         SameLocals
    <3> QED
      BY <2>3, <3>1, TtysKept
  <2>4. CASE /\ pc'[t].at \in {"running"} /\ OtherTtys(m) /\ ttys'[m] # NULL
             /\ ttys'[m].port = ttys[m].port /\ ttys'[m].count = ttys[m].count
    <3>1. FilesAt(m)' = FilesAt(m)
      <4>1. t \in FilesAt(m) /\ pc'[t].at \in FilePlaces /\ pc'[t].m = m
        BY <2>1, <2>2, <2>4 DEF FilesAt, FilePlaces, SameLocals
      <4> QED
        BY <2>1, <2>2, <4>1, FilesChange
    <3>2. serial_minors'[m] = ttys'[m].port /\ ttys'[m].count = Cardinality(FilesAt(m)') /\ NumbersStay
      BY <1>1, <2>1, <2>2, <2>4, <3>1 DEF Ttys, NumbersStay
    <3>3. PortOf(t)' = PortOf(t) /\ pc'[t].m = m
      BY <2>1, <2>2 DEF PortOf, SameLocals
    <3>4. ASSUME NEW u \in Thread, pc'[u].at \in FilePlaces, pc'[u].m = m
          PROVE  /\ ttys'[m] # NULL /\ ttys'[m].port = PortOf(u)'
                 /\ pc'[u].at \in {"port_open", "activate"} => ttys'[m].lock = u
      <4>1. CASE u = t
        BY <2>1, <2>4, <3>3, <4>1
      <4>2. CASE u # t
        <5>1. u \in FilesAt(m)'
          BY <3>4 DEF FilesAt
        <5>2. u \in FilesAt(m) /\ pc'[u] = pc[u] /\ PortOf(u)' = PortOf(u)
          BY <2>1, <2>2, <4>2, <5>1, FilesChange
        <5>3. ttys[m].port = PortOf(u) /\ pc[u].at \notin {"port_open", "activate"}
          BY <2>1, <2>2, <4>2, <5>2, FilesChange
        <5> QED
          BY <2>4, <5>2, <5>3
      <4> QED
        BY <4>1, <4>2
    <3>5. ~Installing(t)' /\ \A n \in Minor : ttys[n] = NULL => ttys'[n] = NULL
      BY <2>1, <2>4 DEF Installing, OtherTtys
    <3> QED
      BY <2>1, <2>2, <2>4, <3>2, <3>3, <3>4, <3>5, InstallingKept, TtysOne
  <2> QED
    BY <2>2, <2>3, <2>4
<1>13. ASSUME NEW t \in Thread, PortActivate(t) PROVE Ttys'
  <2>0. PICK m \in Minor : m = pc[t].m
    BY <1>1, Typed, Constant
  <2>1. /\ m = pc[t].m /\ t \in Actor /\ m \in Minor /\ pc[t].at = "activate" /\ ttys[m] # NULL
        /\ ttys[m].port = PortOf(t) /\ serial_minors[m] = ttys[m].port /\ ttys[m].lock = t
    BY <1>1, <1>13, <2>0, Typed, Constant, PortActivateDoes DEF Ttys, FilePlaces
  <2>2. /\ Others(t) /\ SameLocals(t) /\ UNCHANGED serial_minors
        /\ \/ /\ pc'[t].at \in {"running", "close"} /\ OtherTtys(m) /\ ttys'[m] # NULL
              /\ ttys'[m].port = ttys[m].port /\ ttys'[m].count = ttys[m].count
           \/ pc'[t].at = "activate" /\ UNCHANGED ttys
    BY <1>13, <2>1, PortActivateDoes DEF Moved
  <2>3. CASE pc'[t].at = "activate" /\ UNCHANGED ttys
    <3>1. NumbersStay /\ \A u \in Thread : TtyStill(u)
      BY <2>1, <2>2, <2>3, Constant DEF NumbersStay, TtyStill, Installing, FilePlaces, Others,
         SameLocals
    <3> QED
      BY <2>3, <3>1, TtysKept
  <2>4. CASE /\ pc'[t].at \in {"running", "close"} /\ OtherTtys(m) /\ ttys'[m] # NULL
             /\ ttys'[m].port = ttys[m].port /\ ttys'[m].count = ttys[m].count
    <3>1. FilesAt(m)' = FilesAt(m)
      <4>1. t \in FilesAt(m) /\ pc'[t].at \in FilePlaces /\ pc'[t].m = m
        BY <2>1, <2>2, <2>4 DEF FilesAt, FilePlaces, SameLocals
      <4> QED
        BY <2>1, <2>2, <4>1, FilesChange
    <3>2. serial_minors'[m] = ttys'[m].port /\ ttys'[m].count = Cardinality(FilesAt(m)') /\ NumbersStay
      BY <1>1, <2>1, <2>2, <2>4, <3>1 DEF Ttys, NumbersStay
    <3>3. PortOf(t)' = PortOf(t) /\ pc'[t].m = m
      BY <2>1, <2>2 DEF PortOf, SameLocals
    <3>4. ASSUME NEW u \in Thread, pc'[u].at \in FilePlaces, pc'[u].m = m
          PROVE  /\ ttys'[m] # NULL /\ ttys'[m].port = PortOf(u)'
                 /\ pc'[u].at \in {"port_open", "activate"} => ttys'[m].lock = u
      <4>1. CASE u = t
        BY <2>1, <2>4, <3>3, <4>1
      <4>2. CASE u # t
        <5>1. u \in FilesAt(m)'
          BY <3>4 DEF FilesAt
        <5>2. u \in FilesAt(m) /\ pc'[u] = pc[u] /\ PortOf(u)' = PortOf(u)
          BY <2>1, <2>2, <4>2, <5>1, FilesChange
        <5>3. ttys[m].port = PortOf(u) /\ pc[u].at \notin {"port_open", "activate"}
          BY <2>1, <2>2, <4>2, <5>2, FilesChange
        <5> QED
          BY <2>4, <5>2, <5>3
      <4> QED
        BY <4>1, <4>2
    <3>5. ~Installing(t)' /\ \A n \in Minor : ttys[n] = NULL => ttys'[n] = NULL
      BY <2>1, <2>4 DEF Installing, OtherTtys
    <3> QED
      BY <2>1, <2>2, <2>4, <3>2, <3>3, <3>4, <3>5, InstallingKept, TtysOne
  <2> QED
    BY <2>2, <2>3, <2>4
<1>14. ASSUME NEW t \in Thread, Write(t) PROVE Ttys'
  <2>1. UNCHANGED ttys /\ NumbersStay /\ \A u \in Thread : TtyStill(u)
    BY <1>1, <1>14, Typed, Constant, WriteDoes DEF NumbersStay, TtyStill, Installing,
       FilePlaces, LastPut, Others, Moved, SameLocals, Became, Idle, HungUp
  <2> QED
    BY <2>1, TtysKept
<1>15. ASSUME NEW p \in Port, PortSoftint(p) PROVE Ttys'
  <2>1. UNCHANGED ttys /\ NumbersStay /\ \A u \in Thread : TtyStill(u)
    BY <1>1, <1>15, Typed, Constant, SoftintDoes DEF NumbersStay, TtyStill, Installing,
       FilePlaces, LastPut, Others, Moved, SameLocals, Became, Idle, HungUp
  <2> QED
    BY <2>1, TtysKept
<1>16. ASSUME NEW p \in Port, PortWork(p) PROVE Ttys'
  <2>1. UNCHANGED ttys /\ NumbersStay /\ \A u \in Thread : TtyStill(u)
    BY <1>1, <1>16, Typed, Constant, SoftintDoes DEF NumbersStay, TtyStill, Installing,
       FilePlaces, LastPut, Others, Moved, SameLocals, Became, Idle, HungUp
  <2> QED
    BY <2>1, TtysKept
<1>17. ASSUME NEW t \in Thread, WaitUntilSent(t) PROVE Ttys'
  <2>1. UNCHANGED ttys /\ NumbersStay /\ \A u \in Thread : TtyStill(u)
    BY <1>1, <1>17, Typed, Constant, DrainDoes DEF NumbersStay, TtyStill, Installing,
       FilePlaces, LastPut, Others, Moved, SameLocals, Became, Idle, HungUp
  <2> QED
    BY <2>1, TtysKept
<1>18. ASSUME NEW t \in Thread, Drained(t) PROVE Ttys'
  <2>1. UNCHANGED ttys /\ NumbersStay /\ \A u \in Thread : TtyStill(u)
    BY <1>1, <1>18, Typed, Constant, DrainDoes DEF NumbersStay, TtyStill, Installing,
       FilePlaces, LastPut, Others, Moved, SameLocals, Became, Idle, HungUp
  <2> QED
    BY <2>1, TtysKept
<1>19. ASSUME NEW t \in Thread, Close(t) PROVE Ttys'
  <2>0. PICK m \in Minor : m = pc[t].m
    BY <1>1, Typed, Constant
  <2>1. /\ m = pc[t].m /\ t \in Actor /\ m \in Minor /\ pc[t].at \in {"running", "close"} /\ ttys[m] # NULL
        /\ ttys[m].lock = NULL /\ serial_minors[m] = ttys[m].port
        /\ ttys[m].count = Cardinality(FilesAt(m))
    BY <1>1, <1>19, <2>0, Typed, Constant, CloseGoes DEF Ttys, FilePlaces
  <2>2. /\ Others(t) /\ pc'[t].at = "idle" /\ OtherTtys(m) /\ UNCHANGED serial_minors
        /\ \/ ttys[m].count = 1 /\ ttys'[m] = NULL
           \/ /\ ttys[m].count # 1 /\ ttys'[m] # NULL /\ ttys'[m].port = ttys[m].port
              /\ ttys'[m].count = ttys[m].count - 1
    BY <1>19, <2>1, CloseGoes DEF Became, Idle
  <2>3. FilesAt(m)' = FilesAt(m) \ {t} /\ IsFiniteSet(FilesAt(m)) /\ t \in FilesAt(m)
    BY <2>1, <2>2, FilesChange DEF FilesAt, FilePlaces
  <2>4. Cardinality(FilesAt(m)') = ttys[m].count - 1
    BY <2>1, <2>3, OneLess
  <2>5. ttys'[m] # NULL => serial_minors'[m] = ttys'[m].port /\ ttys'[m].count = Cardinality(FilesAt(m)')
    BY <2>1, <2>2, <2>4
  <2>6. NumbersStay
    BY <2>2 DEF NumbersStay
  <2>7. ASSUME NEW u \in Thread, pc'[u].at \in FilePlaces, pc'[u].m = m
        PROVE  /\ ttys'[m] # NULL /\ ttys'[m].port = PortOf(u)'
               /\ pc'[u].at \in {"port_open", "activate"} => ttys'[m].lock = u
    <3>1. u \in FilesAt(m)' /\ u # t
      BY <2>2, <2>7 DEF FilesAt, FilePlaces
    <3>2. u \in FilesAt(m) /\ pc'[u] = pc[u] /\ PortOf(u)' = PortOf(u)
      BY <2>1, <2>2, <3>1, FilesChange
    <3>3. ttys[m].count # 1
      <4>1. ttys[m].count = 1 => FilesAt(m) = {t}
        BY <2>1, <2>3, Empty
      <4> QED
        BY <3>1, <3>2, <4>1
    <3>4. ttys[m].port = PortOf(u) /\ pc[u].at \notin {"port_open", "activate"}
      <4>1. ttys[m].port = PortOf(u) /\ (pc[u].at \in {"port_open", "activate"} => ttys[m].lock = u)
        BY <2>1, <2>2, <3>2, FilesChange
      <4>2. u # NULL
        BY SerialAssumption, Constant
      <4> QED
        BY <2>1, <4>1, <4>2
    <3> QED
      BY <2>2, <3>2, <3>3, <3>4
  <2>8. ~Installing(t)' /\ \A n \in Minor : ttys[n] = NULL => ttys'[n] = NULL
    BY <2>1, <2>2 DEF Installing, OtherTtys
  <2>9. (pc[t].at \in FilePlaces => pc[t].m = m) /\ (pc'[t].at \in FilePlaces => pc'[t].m = m)
    BY <2>1, <2>2 DEF FilePlaces
  <2> QED
    BY <2>1, <2>2, <2>5, <2>6, <2>7, <2>8, <2>9, InstallingKept, TtysOne
<1>20. ASSUME NEW m \in Minor, Hangup(m) PROVE Ttys'
  <2>1. UNCHANGED ttys /\ NumbersStay /\ \A u \in Thread : TtyStill(u)
    BY <1>1, <1>20, Typed, Constant, HangupDoes, HangUpGoes DEF NumbersStay, TtyStill,
       Installing, FilePlaces, LastPut, Others, Moved, SameLocals, Became, Idle, HungUp
  <2> QED
    BY <2>1, TtysKept
<1>21. ASSUME NEW p \in Port, Cleanup(p) PROVE Ttys'
  <2>1. UNCHANGED ttys /\ NumbersStay /\ \A u \in Thread : TtyStill(u)
    BY <1>1, <1>21, Typed, Constant, CleanupDoes DEF NumbersStay, TtyStill, Installing,
       FilePlaces, LastPut, Others, Moved, SameLocals, Became, Idle, HungUp
  <2> QED
    BY <2>1, TtysKept
<1>22. CASE CleanupPut
  <2>1. UNCHANGED ttys /\ NumbersStay /\ \A u \in Thread : TtyStill(u)
    BY <1>1, <1>22, Typed, Constant, CleanupPutDoes DEF NumbersStay, TtyStill, Installing,
       FilePlaces, LastPut, Others, Moved, SameLocals, Became, Idle, HungUp
  <2> QED
    BY <2>1, TtysKept
<1>23. ASSUME NEW s \in Serial, Probe(s) PROVE Ttys'
  <2>1. UNCHANGED ttys /\ NumbersStay /\ \A u \in Thread : TtyStill(u)
    BY <1>1, <1>23, Typed, Constant, ProbeDoes, Probed DEF NumbersStay, TtyStill, Installing,
       FilePlaces, LastPut, Others, Moved, SameLocals, Became, Idle, HungUp
  <2> QED
    BY <2>1, TtysKept
<1>24. ASSUME NEW n \in 0 .. MaxPorts, Attach(n) PROVE Ttys'
  <2>1. UNCHANGED ttys /\ NumbersStay /\ \A u \in Thread : TtyStill(u)
    BY <1>1, <1>24, Typed, Constant, AttachDoes DEF NumbersStay, TtyStill, Installing,
       FilePlaces, LastPut, Others, Moved, SameLocals, Became, Idle, HungUp
  <2> QED
    BY <2>1, TtysKept
<1>25. CASE ProbeError
  <2>1. UNCHANGED ttys /\ NumbersStay /\ \A u \in Thread : TtyStill(u)
    BY <1>1, <1>25, Typed, Constant, ProbeErrorDoes DEF NumbersStay, TtyStill, Installing,
       FilePlaces, LastPut, Others, Moved, SameLocals, Became, Idle, HungUp
  <2> QED
    BY <2>1, TtysKept
<1>26. CASE AllocateMinors
  <2>1. pc["hub"].s \in Serial
    BY <1>1, Typed, Constant
  <2>2. Others("hub") /\ UNCHANGED ttys
    BY <1>26, <2>1, MinorsDoes DEF Moved
  <2>3. \A m \in Minor : serial_minors[m] # NULL => serial_minors'[m] = serial_minors[m]
    BY <1>26, <2>1, AllocateDoes
  <2>4. NumbersStay
    BY <1>1, <2>3, Typed, SerialAssumption DEF NumbersStay, Ttys, Tty
  <2>5. \A u \in Thread : TtyStill(u)
    BY <2>2, Constant DEF TtyStill, Others, Installing
  <2> QED
    BY <2>2, <2>4, <2>5, TtysKept
<1>27. CASE Register
  <2>1. Others("hub") /\ UNCHANGED <<ttys, serial_minors>>
    BY <1>1, <1>27, Constant, Moves, Names DEF Register, Moved
  <2>2. NumbersStay /\ \A u \in Thread : TtyStill(u)
    BY <2>1, Constant DEF NumbersStay, TtyStill, Others, Installing
  <2> QED
    BY <2>1, <2>2, TtysKept
<1>28. ASSUME NEW s \in Serial, Suspend(s) PROVE Ttys'
  <2>1. UNCHANGED ttys /\ NumbersStay /\ \A u \in Thread : TtyStill(u)
    BY <1>1, <1>28, Typed, Constant, SuspendDoes DEF NumbersStay, TtyStill, Installing,
       FilePlaces, LastPut, Others, Moved, SameLocals, Became, Idle, HungUp
  <2> QED
    BY <2>1, TtysKept
<1>29. ASSUME NEW s \in Serial, Resume(s) PROVE Ttys'
  <2>1. UNCHANGED ttys /\ NumbersStay /\ \A u \in Thread : TtyStill(u)
    BY <1>1, <1>29, Typed, Constant, SuspendDoes DEF NumbersStay, TtyStill, Installing,
       FilePlaces, LastPut, Others, Moved, SameLocals, Became, Idle, HungUp
  <2> QED
    BY <2>1, TtysKept
<1>30. CASE Unplug
  <2>1. UNCHANGED ttys /\ NumbersStay /\ \A u \in Thread : TtyStill(u)
    BY <1>1, <1>30, Typed, Constant DEF NumbersStay, TtyStill, Installing, FilePlaces,
       LastPut, Others, Moved, SameLocals, Became, Idle, HungUp, Unplug
  <2> QED
    BY <2>1, TtysKept
<1>31. CASE Deregister
  <2>1. UNCHANGED ttys /\ NumbersStay /\ \A u \in Thread : TtyStill(u)
    BY <1>1, <1>31, Typed, Constant DEF NumbersStay, TtyStill, Installing, FilePlaces,
       LastPut, Others, Moved, SameLocals, Became, Idle, HungUp, Deregister
  <2> QED
    BY <2>1, TtysKept
<1>32. CASE DeregisterEnd
  <2>1. UNCHANGED ttys /\ NumbersStay /\ \A u \in Thread : TtyStill(u)
    BY <1>1, <1>32, Typed, Constant DEF NumbersStay, TtyStill, Installing, FilePlaces,
       LastPut, Others, Moved, SameLocals, Became, Idle, HungUp, DeregisterEnd
  <2> QED
    BY <2>1, TtysKept
<1>33. ASSUME NEW s \in Serial, Disconnect(s) PROVE Ttys'
  <2>1. UNCHANGED ttys /\ NumbersStay /\ \A u \in Thread : TtyStill(u)
    BY <1>1, <1>33, Typed, Constant, DisconnectDoes DEF NumbersStay, TtyStill, Installing,
       FilePlaces, LastPut, Others, Moved, SameLocals, Became, Idle, HungUp
  <2> QED
    BY <2>1, TtysKept
<1>34. CASE DisconnectHangup
  <2>1. UNCHANGED ttys /\ NumbersStay /\ \A u \in Thread : TtyStill(u)
    BY <1>1, <1>34, Typed, Constant, DisconnectHangupDoes, HangUpGoes DEF NumbersStay,
       TtyStill, Installing, FilePlaces, LastPut, Others, Moved, SameLocals, Became, Idle,
       HungUp
  <2> QED
    BY <2>1, TtysKept
<1>35. CASE DisconnectPoison
  <2>1. UNCHANGED ttys /\ NumbersStay /\ \A u \in Thread : TtyStill(u)
    BY <1>1, <1>35, Typed, Constant, DisconnectPoisonDoes DEF NumbersStay, TtyStill,
       Installing, FilePlaces, LastPut, Others, Moved, SameLocals, Became, Idle, HungUp
  <2> QED
    BY <2>1, TtysKept
<1>36. CASE DisconnectCancel
  <2>1. UNCHANGED ttys /\ NumbersStay /\ \A u \in Thread : TtyStill(u)
    BY <1>1, <1>36, Typed, Constant, DisconnectCancelDoes DEF NumbersStay, TtyStill,
       Installing, FilePlaces, LastPut, Others, Moved, SameLocals, Became, Idle, HungUp
  <2> QED
    BY <2>1, TtysKept
<1>37. CASE DisconnectEnd
  <2>1. UNCHANGED ttys /\ NumbersStay /\ \A u \in Thread : TtyStill(u)
    BY <1>1, <1>37, Typed, Constant, DisconnectEndDoes DEF NumbersStay, TtyStill, Installing,
       FilePlaces, LastPut, Others, Moved, SameLocals, Became, Idle, HungUp
  <2> QED
    BY <2>1, TtysKept
<1> QED
  BY <1>2, <1>3, <1>4, <1>5, <1>6, <1>7, <1>8, <1>9, <1>10, <1>11, <1>12, <1>13, <1>14,
     <1>15, <1>16, <1>17, <1>18, <1>19, <1>20, <1>21, <1>22, <1>23, <1>24, <1>25, <1>26,
     <1>27, <1>28, <1>29, <1>30, <1>31, <1>32, <1>33, <1>34, <1>35, <1>36, <1>37 DEF Next,
     ThreadStep, Destroy, DisconnectStep, ProbeStep

(* A port counts its users, while they stay and when one comes or goes.    *)
Counted(p) == port[p].count = Cardinality(Users(p)) /\ (port[p].tty <=> Users(p) # {})
Using(t) == ~pc[t].hung /\ pc[t].at \in {"activate", "running", "drain", "close"}
UserStill(t) == /\ Using(t)' <=> Using(t)
                /\ Using(t) => PortOf(t)' = PortOf(t)

LEMMA UsersKept ==
  ASSUME IInv, \A p \in Port : SameCount(p), \A t \in Thread : UserStill(t)
  PROVE  \A p \in Port : Counted(p)'
<1>1. \A p \in Port : Counted(p)
  BY DEF IInv, Ports, Counted
<1>2. \A p \in Port : Users(p) = {t \in Thread : Using(t) /\ PortOf(t) = p}
  BY DEF Users, Using
<1>3. \A p \in Port : Users(p)' = {t \in Thread : Using(t)' /\ PortOf(t)' = p}
  BY DEF Users, Using
<1>4. \A p \in Port : Users(p)' = Users(p)
  BY <1>2, <1>3 DEF UserStill
<1> QED
  BY <1>1, <1>4 DEF Counted, SameCount

LEMMA UsersChange ==
  ASSUME IInv, NEW t \in Thread, NEW p \in Port, Others(t), PortOf(t) = p, PortOf(t)' = p \/ ~Using(t)',
         OtherPorts(p)
  PROVE  /\ Counted(p)' => \A q \in Port : Counted(q)'
         /\ IsFiniteSet(Users(p)) /\ Counted(p) /\ (t \in Users(p) <=> Using(t))
         /\ Using(t)' => Users(p)' = Users(p) \union {t}
         /\ ~Using(t)' => Users(p)' = Users(p) \ {t}
<1>1. \A q \in Port : Counted(q)
  BY DEF IInv, Ports, Counted
<1>2. \A q \in Port : Users(q) = {u \in Thread : Using(u) /\ PortOf(u) = q}
  BY DEF Users, Using
<1>3. \A q \in Port : Users(q)' = {u \in Thread : Using(u)' /\ PortOf(u)' = q}
  BY DEF Users, Using
<1>4. \A u \in Thread : u # t => (Using(u)' <=> Using(u)) /\ PortOf(u)' = PortOf(u)
  BY Constant DEF Others, Using, PortOf
<1>5. \A q \in Port : q # p => Users(q)' = Users(q)
  BY <1>2, <1>3, <1>4
<1>6. Using(t)' => Users(p)' = Users(p) \union {t}
  BY <1>2, <1>3, <1>4
<1>7. ~Using(t)' => Users(p)' = Users(p) \ {t}
  BY <1>2, <1>3, <1>4
<1>8. IsFiniteSet(Users(p)) /\ (t \in Users(p) <=> Using(t))
  BY <1>2, Finite, FS_Subset
<1>9. ASSUME NEW q \in Port, q # p PROVE Counted(q)'
  BY <1>1, <1>5, <1>9 DEF Counted, OtherPorts
<1> QED
  BY <1>1, <1>6, <1>7, <1>8, <1>9

(* The files of a port that is hung up were all its users: they have the   *)
(* tty of its number, and nobody is at open.                               *)
LEMMA UsersHungUp ==
  ASSUME IInv, NEW m \in Minor, ttys[m] # NULL, ttys[m].lock = NULL, NEW p \in Port,
         p = ttys[m].port, OtherPorts(p), port'[p].count = 0, ~port'[p].tty, HungUp(m)
  PROVE  \A q \in Port : Counted(q)'
<1>1. /\ \A q \in Port : Counted(q)
      /\ Ttys /\ Numbers /\ TypeOK
  BY DEF IInv, Ports, Counted
<1>2. \A q \in Port : Users(q) = {u \in Thread : Using(u) /\ PortOf(u) = q}
  BY DEF Users, Using
<1>3. \A q \in Port : Users(q)' = {u \in Thread : Using(u)' /\ PortOf(u)' = q}
  BY DEF Users, Using
<1>4. \A u \in Thread : /\ PortOf(u)' = PortOf(u)
                        /\ Using(u)' <=> Using(u) /\ u \notin Files(m)
  BY DEF HungUp, PortOf, Using
<1>5. ASSUME NEW u \in Thread, Using(u), PortOf(u) = p PROVE u \in Files(m)
  <2>1. pc[u].at \in FilePlaces
    BY <1>5 DEF Using, FilePlaces
  <2>2. serial_minors[pc[u].m] = p /\ pc[u].m \in Minor
    BY <1>1, <1>5, <2>1, FileHas, Typed, Constant
  <2>3. pc[u].m = m
    <3>1. serial_minors[m] = p /\ p # NULL
      BY <1>1, SerialAssumption DEF Ttys
    <3> QED
      BY <1>1, <2>2, <3>1 DEF Numbers
  <2>4. pc[u].at # "activate"
    <3>1. u # NULL
      BY SerialAssumption, Constant
    <3> QED
      BY <1>1, <2>1, <2>3, <3>1 DEF Ttys
  <2> QED
    BY <1>5, <2>3, <2>4 DEF Files, Using
<1>6. ASSUME NEW u \in Files(m) PROVE PortOf(u) = p
  BY <1>1, <1>6 DEF Files, Ttys, FilePlaces
<1>7. Users(p)' = {}
  BY <1>3, <1>4, <1>5
<1>8. Cardinality(Users(p)') = 0
  BY <1>7, FS_EmptySet
<1>9. ASSUME NEW q \in Port, q # p PROVE Counted(q)'
  <2>1. Users(q)' = Users(q)
    <3>1. \A u \in Thread : Using(u)' /\ PortOf(u)' = q <=> Using(u) /\ PortOf(u) = q
      BY <1>4, <1>6, <1>9
    <3> QED
      BY <1>2, <1>3, <3>1
  <2> QED
    BY <1>1, <1>9, <2>1 DEF Counted, OtherPorts
<1>10. Counted(p)'
  BY <1>7, <1>8 DEF Counted
<1> QED
  BY <1>9, <1>10

LEMMA UsersStep ==
  ASSUME IInv, Next
  PROVE  \A q \in Port : Counted(q)'
<1>1. TypeOK /\ Ports /\ Places /\ Numbers
  BY DEF IInv
<1>2. ASSUME NEW a \in Actor, ReleaseMinors(a) PROVE \A q \in Port : Counted(q)'
  <2>1. /\ \A q \in Port : SameCount(q)
        /\ \A u \in Thread : UserStill(u)
    BY <1>1, <1>2, Typed, Constant, ReleaseMinorsDoes DEF UserStill, Using, PortOf,
       SameCount, OtherPorts, LastPut, Others, Moved, SameLocals, Became, Idle, HungUp
  <2> QED
    BY <2>1, UsersKept
<1>3. ASSUME NEW a \in Actor, DestroySerial(a) PROVE \A q \in Port : Counted(q)'
  <2>1. /\ \A q \in Port : SameCount(q)
        /\ \A u \in Thread : UserStill(u)
    BY <1>1, <1>3, Typed, Constant, DestroySerialDoes DEF UserStill, Using, PortOf,
       SameCount, OtherPorts, LastPut, Others, Moved, SameLocals, Became, Idle, HungUp
  <2> QED
    BY <2>1, UsersKept
<1>4. ASSUME NEW a \in Actor, ModulePut(a) PROVE \A q \in Port : Counted(q)'
  <2>1. /\ \A q \in Port : SameCount(q)
        /\ \A u \in Thread : UserStill(u)
    BY <1>1, <1>4, Typed, Constant, ModulePutDoes DEF UserStill, Using, PortOf, SameCount,
       OtherPorts, LastPut, Others, Moved, SameLocals, Became, Idle, HungUp
  <2> QED
    BY <2>1, UsersKept
<1>5. ASSUME NEW t \in Thread, NEW m \in Minor, TtyOpen(t, m) PROVE \A q \in Port : Counted(q)'
  <2>1. /\ \A q \in Port : SameCount(q)
        /\ \A u \in Thread : UserStill(u)
    BY <1>1, <1>5, Typed, Constant, TtyOpenDoes DEF UserStill, Using, PortOf, SameCount,
       OtherPorts, LastPut, Others, Moved, SameLocals, Became, Idle, HungUp
  <2> QED
    BY <2>1, UsersKept
<1>6. ASSUME NEW t \in Thread, NEW m \in Minor, ProcShow(t, m) PROVE \A q \in Port : Counted(q)'
  <2>1. /\ \A q \in Port : SameCount(q)
        /\ \A u \in Thread : UserStill(u)
    BY <1>1, <1>6, Typed, Constant, ProcShowDoes DEF UserStill, Using, PortOf, SameCount,
       OtherPorts, LastPut, Others, Moved, SameLocals, Became, Idle, HungUp
  <2> QED
    BY <2>1, UsersKept
<1>7. ASSUME NEW t \in Thread, Find(t) PROVE \A q \in Port : Counted(q)'
  <2>1. /\ \A q \in Port : SameCount(q)
        /\ \A u \in Thread : UserStill(u)
    BY <1>1, <1>7, Typed, Constant, FindDoes DEF UserStill, Using, PortOf, SameCount,
       OtherPorts, LastPut, Others, Moved, SameLocals, Became, Idle, HungUp
  <2> QED
    BY <2>1, UsersKept
<1>8. ASSUME NEW t \in Thread, GetByMinor(t) PROVE \A q \in Port : Counted(q)'
  <2>1. /\ pc[t].s \in Serial /\ pc[t].at = "get" /\ UNCHANGED port
        /\ (Became(t, Idle) \/ Moved(t, pc[t].then)) /\ pc[t].then \in {"install", "put"}
    BY <1>1, <1>8, Typed, Constant, GetByMinorDoes DEF Places
  <2>2. Others(t) /\ UserStill(t)
    BY <2>1 DEF UserStill, Using, Became, Moved, Idle
  <2>3. /\ \A q \in Port : SameCount(q)
        /\ \A u \in Thread : UserStill(u)
    BY <2>1, <2>2, Constant DEF SameCount, UserStill, Others, Using, PortOf
  <2> QED
    BY <2>3, UsersKept
<1>9. ASSUME NEW t \in Thread, Install(t) PROVE \A q \in Port : Counted(q)'
  <2>1. /\ \A q \in Port : SameCount(q)
        /\ \A u \in Thread : UserStill(u)
    BY <1>1, <1>9, Typed, Constant, InstallDoes DEF UserStill, Using, PortOf, SameCount,
       OtherPorts, LastPut, Others, Moved, SameLocals, Became, Idle, HungUp
  <2> QED
    BY <2>1, UsersKept
<1>10. ASSUME NEW t \in Thread, PutLocked(t) PROVE \A q \in Port : Counted(q)'
  <2>1. /\ \A q \in Port : SameCount(q)
        /\ \A u \in Thread : UserStill(u)
    BY <1>1, <1>10, Typed, Constant, PutLockedDoes DEF UserStill, Using, PortOf, SameCount,
       OtherPorts, LastPut, Others, Moved, SameLocals, Became, Idle, HungUp
  <2> QED
    BY <2>1, UsersKept
<1>11. ASSUME NEW t \in Thread, UnlockDisc(t) PROVE \A q \in Port : Counted(q)'
  <2>1. /\ \A q \in Port : SameCount(q)
        /\ \A u \in Thread : UserStill(u)
    BY <1>1, <1>11, Typed, Constant, UnlockDiscDoes DEF UserStill, Using, PortOf, SameCount,
       OtherPorts, LastPut, Others, Moved, SameLocals, Became, Idle, HungUp
  <2> QED
    BY <2>1, UsersKept
<1>12. ASSUME NEW t \in Thread, PortOpen(t) PROVE \A q \in Port : Counted(q)'
  <2>0. pc[t].at = "port_open" /\ ~pc[t].hung /\ PortOf(t) \in Port
    <3>1. pc[t].at = "port_open"
      BY <1>12 DEF PortOpen, At
    <3> QED
      BY <1>1, <3>1, FileHas DEF Places, FilePlaces
  <2>1. PICK p \in Port : p = PortOf(t) /\ pc[t].at = "port_open" /\ ~pc[t].hung
    BY <2>0
  <2>2. /\ Others(t) /\ SameLocals(t) /\ pc'[t].at \in {"running", "activate"} /\ OtherPorts(p)
        /\ port'[p].count = port[p].count + 1 /\ port'[p].tty
    BY <1>1, <1>12, <2>1, Typed, Constant, PortOpenDoes DEF Moved
  <2>3. PortOf(t)' = p /\ Using(t)' /\ ~Using(t)
    BY <2>1, <2>2 DEF PortOf, Using, SameLocals
  <2>4. /\ Counted(p)' => \A q \in Port : Counted(q)'
        /\ IsFiniteSet(Users(p)) /\ Counted(p) /\ t \notin Users(p) /\ Users(p)' = Users(p) \union {t}
    BY <2>1, <2>2, <2>3, UsersChange
  <2>5. Cardinality(Users(p)') = Cardinality(Users(p)) + 1
    BY <2>4, OneMore
  <2> QED
    BY <2>2, <2>4, <2>5 DEF Counted
<1>13. ASSUME NEW t \in Thread, PortActivate(t) PROVE \A q \in Port : Counted(q)'
  <2>1. PICK p : p = PortOf(t)
    OBVIOUS
  <2>2. /\ pc[t].at = "activate" /\ Others(t) /\ SameLocals(t) /\ pc'[t].at \in {"running", "close"}
        /\ UNCHANGED port \/ (OtherPorts(p) /\ SameCount(p))
    BY <1>1, <1>13, <2>1, Typed, Constant, PortActivateDoes DEF Moved
  <2>3. UserStill(t)
    BY <2>2 DEF UserStill, Using, PortOf, SameLocals
  <2>4. /\ \A q \in Port : SameCount(q)
        /\ \A u \in Thread : UserStill(u)
    BY <2>2, <2>3, Constant DEF SameCount, OtherPorts, UserStill, Others, Using, PortOf
  <2> QED
    BY <2>4, UsersKept
<1>14. ASSUME NEW t \in Thread, Write(t) PROVE \A q \in Port : Counted(q)'
  <2>1. /\ \A q \in Port : SameCount(q)
        /\ \A u \in Thread : UserStill(u)
    BY <1>1, <1>14, Typed, Constant, WriteDoes DEF UserStill, Using, PortOf, SameCount,
       OtherPorts, LastPut, Others, Moved, SameLocals, Became, Idle, HungUp
  <2> QED
    BY <2>1, UsersKept
<1>15. ASSUME NEW p \in Port, PortSoftint(p) PROVE \A q \in Port : Counted(q)'
  <2>1. /\ \A q \in Port : SameCount(q)
        /\ \A u \in Thread : UserStill(u)
    BY <1>1, <1>15, Typed, Constant, SoftintDoes DEF UserStill, Using, PortOf, SameCount,
       OtherPorts, LastPut, Others, Moved, SameLocals, Became, Idle, HungUp
  <2> QED
    BY <2>1, UsersKept
<1>16. ASSUME NEW p \in Port, PortWork(p) PROVE \A q \in Port : Counted(q)'
  <2>1. /\ \A q \in Port : SameCount(q)
        /\ \A u \in Thread : UserStill(u)
    BY <1>1, <1>16, Typed, Constant, SoftintDoes DEF UserStill, Using, PortOf, SameCount,
       OtherPorts, LastPut, Others, Moved, SameLocals, Became, Idle, HungUp
  <2> QED
    BY <2>1, UsersKept
<1>17. ASSUME NEW t \in Thread, WaitUntilSent(t) PROVE \A q \in Port : Counted(q)'
  <2>1. /\ \A q \in Port : SameCount(q)
        /\ \A u \in Thread : UserStill(u)
    BY <1>1, <1>17, Typed, Constant, DrainDoes DEF UserStill, Using, PortOf, SameCount,
       OtherPorts, LastPut, Others, Moved, SameLocals, Became, Idle, HungUp
  <2> QED
    BY <2>1, UsersKept
<1>18. ASSUME NEW t \in Thread, Drained(t) PROVE \A q \in Port : Counted(q)'
  <2>1. /\ \A q \in Port : SameCount(q)
        /\ \A u \in Thread : UserStill(u)
    BY <1>1, <1>18, Typed, Constant, DrainDoes DEF UserStill, Using, PortOf, SameCount,
       OtherPorts, LastPut, Others, Moved, SameLocals, Became, Idle, HungUp
  <2> QED
    BY <2>1, UsersKept
<1>19. ASSUME NEW t \in Thread, Close(t) PROVE \A q \in Port : Counted(q)'
  <2>1. PICK p \in Port : p = PortOf(t)
    BY <1>1, <1>19, Typed, Constant, CloseGoes
  <2>2. /\ Others(t) /\ pc'[t] = Idle /\ OtherPorts(p) /\ pc[t].at \in {"running", "close"}
        /\ \/ pc[t].hung /\ SameCount(p)
           \/ /\ ~pc[t].hung /\ port[p].count = 1 /\ port'[p].count = 0 /\ ~port'[p].tty
           \/ /\ ~pc[t].hung /\ port[p].count # 1 /\ port'[p].count = port[p].count - 1
              /\ (port'[p].tty <=> port[p].tty)
    BY <1>1, <1>19, <2>1, Typed, Constant, CloseGoes DEF Became
  <2>3. ~Using(t)' /\ (Using(t) <=> ~pc[t].hung)
    BY <2>2 DEF Using, Idle
  <2>4. /\ Counted(p)' => \A q \in Port : Counted(q)'
        /\ IsFiniteSet(Users(p)) /\ Counted(p) /\ (t \in Users(p) <=> Using(t))
        /\ Users(p)' = Users(p) \ {t}
    BY <2>1, <2>2, <2>3, UsersChange
  <2>5. CASE pc[t].hung
    <3>1. Users(p)' = Users(p)
      BY <2>3, <2>4, <2>5
    <3> QED
      BY <2>2, <2>4, <2>5, <3>1 DEF Counted, SameCount
  <2>6. CASE ~pc[t].hung
    <3>1. Cardinality(Users(p)') = Cardinality(Users(p)) - 1 /\ IsFiniteSet(Users(p)')
      BY <2>3, <2>4, <2>6, OneLess
    <3>2. (Cardinality(Users(p)') = 0 <=> Users(p)' = {}) /\ Cardinality(Users(p)) \in Nat
          /\ port[p].tty
      BY <2>3, <2>4, <2>6, <3>1, Empty DEF Counted
    <3> QED
      BY <2>2, <2>4, <2>6, <3>1, <3>2 DEF Counted
  <2> QED
    BY <2>5, <2>6
<1>20. ASSUME NEW m \in Minor, Hangup(m) PROVE \A q \in Port : Counted(q)'
  <2>1. PICK p \in Port : p = ttys[m].port
    BY <1>20, HangupDoes
  <2>2. ttys[m] # NULL /\ ttys[m].lock = NULL /\ HangUp(p, m) /\ HungUp(m)
    BY <1>20, <2>1, HangupDoes
  <2>3. OtherPorts(p) /\ port'[p].count = 0 /\ ~port'[p].tty
    BY <1>1, <2>2, HangUpGoes
  <2> QED
    BY <2>1, <2>2, <2>3, UsersHungUp
<1>21. ASSUME NEW p \in Port, Cleanup(p) PROVE \A q \in Port : Counted(q)'
  <2>1. /\ \A q \in Port : SameCount(q)
        /\ \A u \in Thread : UserStill(u)
    BY <1>1, <1>21, Typed, Constant, CleanupDoes DEF UserStill, Using, PortOf, SameCount,
       OtherPorts, LastPut, Others, Moved, SameLocals, Became, Idle, HungUp
  <2> QED
    BY <2>1, UsersKept
<1>22. CASE CleanupPut
  <2>1. /\ \A q \in Port : SameCount(q)
        /\ \A u \in Thread : UserStill(u)
    BY <1>1, <1>22, Typed, Constant, CleanupPutDoes DEF UserStill, Using, PortOf, SameCount,
       OtherPorts, LastPut, Others, Moved, SameLocals, Became, Idle, HungUp
  <2> QED
    BY <2>1, UsersKept
<1>23. ASSUME NEW s \in Serial, Probe(s) PROVE \A q \in Port : Counted(q)'
  <2>1. /\ \A q \in Port : SameCount(q)
        /\ \A u \in Thread : UserStill(u)
    BY <1>1, <1>23, Typed, Constant, ProbeDoes, Probed DEF UserStill, Using, PortOf,
       SameCount, OtherPorts, LastPut, Others, Moved, SameLocals, Became, Idle, HungUp
  <2> QED
    BY <2>1, UsersKept
<1>24. ASSUME NEW n \in 0 .. MaxPorts, Attach(n) PROVE \A q \in Port : Counted(q)'
  <2>1. /\ \A q \in Port : SameCount(q)
        /\ \A u \in Thread : UserStill(u)
    BY <1>1, <1>24, Typed, Constant, AttachDoes DEF UserStill, Using, PortOf, SameCount,
       OtherPorts, LastPut, Others, Moved, SameLocals, Became, Idle, HungUp
  <2> QED
    BY <2>1, UsersKept
<1>25. CASE ProbeError
  <2>1. /\ \A q \in Port : SameCount(q)
        /\ \A u \in Thread : UserStill(u)
    BY <1>1, <1>25, Typed, Constant, ProbeErrorDoes DEF UserStill, Using, PortOf, SameCount,
       OtherPorts, LastPut, Others, Moved, SameLocals, Became, Idle, HungUp
  <2> QED
    BY <2>1, UsersKept
<1>26. CASE AllocateMinors
  <2>1. /\ \A q \in Port : SameCount(q)
        /\ \A u \in Thread : UserStill(u)
    BY <1>1, <1>26, Typed, Constant, MinorsDoes DEF UserStill, Using, PortOf, SameCount,
       OtherPorts, LastPut, Others, Moved, SameLocals, Became, Idle, HungUp
  <2> QED
    BY <2>1, UsersKept
<1>27. CASE Register
  <2>1. /\ \A q \in Port : SameCount(q)
        /\ \A u \in Thread : UserStill(u)
    BY <1>1, <1>27, Typed, Constant, MinorsDoes DEF UserStill, Using, PortOf, SameCount,
       OtherPorts, LastPut, Others, Moved, SameLocals, Became, Idle, HungUp
  <2> QED
    BY <2>1, UsersKept
<1>28. ASSUME NEW s \in Serial, Suspend(s) PROVE \A q \in Port : Counted(q)'
  <2>1. /\ \A q \in Port : SameCount(q)
        /\ \A u \in Thread : UserStill(u)
    BY <1>1, <1>28, Typed, Constant, SuspendDoes DEF UserStill, Using, PortOf, SameCount,
       OtherPorts, LastPut, Others, Moved, SameLocals, Became, Idle, HungUp
  <2> QED
    BY <2>1, UsersKept
<1>29. ASSUME NEW s \in Serial, Resume(s) PROVE \A q \in Port : Counted(q)'
  <2>1. /\ \A q \in Port : SameCount(q)
        /\ \A u \in Thread : UserStill(u)
    BY <1>1, <1>29, Typed, Constant, SuspendDoes DEF UserStill, Using, PortOf, SameCount,
       OtherPorts, LastPut, Others, Moved, SameLocals, Became, Idle, HungUp
  <2> QED
    BY <2>1, UsersKept
<1>30. CASE Unplug
  <2>1. /\ \A q \in Port : SameCount(q)
        /\ \A u \in Thread : UserStill(u)
    BY <1>1, <1>30, Typed, Constant DEF UserStill, Using, PortOf, SameCount, OtherPorts,
       LastPut, Others, Moved, SameLocals, Became, Idle, HungUp, Unplug
  <2> QED
    BY <2>1, UsersKept
<1>31. CASE Deregister
  <2>1. /\ \A q \in Port : SameCount(q)
        /\ \A u \in Thread : UserStill(u)
    BY <1>1, <1>31, Typed, Constant DEF UserStill, Using, PortOf, SameCount, OtherPorts,
       LastPut, Others, Moved, SameLocals, Became, Idle, HungUp, Deregister
  <2> QED
    BY <2>1, UsersKept
<1>32. CASE DeregisterEnd
  <2>1. /\ \A q \in Port : SameCount(q)
        /\ \A u \in Thread : UserStill(u)
    BY <1>1, <1>32, Typed, Constant DEF UserStill, Using, PortOf, SameCount, OtherPorts,
       LastPut, Others, Moved, SameLocals, Became, Idle, HungUp, DeregisterEnd
  <2> QED
    BY <2>1, UsersKept
<1>33. ASSUME NEW s \in Serial, Disconnect(s) PROVE \A q \in Port : Counted(q)'
  <2>1. /\ \A q \in Port : SameCount(q)
        /\ \A u \in Thread : UserStill(u)
    BY <1>1, <1>33, Typed, Constant, DisconnectDoes DEF UserStill, Using, PortOf, SameCount,
       OtherPorts, LastPut, Others, Moved, SameLocals, Became, Idle, HungUp
  <2> QED
    BY <2>1, UsersKept
<1>34. CASE DisconnectHangup
  <2>1. PICK p \in Port : p = PortOf("hub")
    BY <1>34, DisconnectHangupDoes
  <2>2. CASE ~port[p].tty /\ UNCHANGED port /\ \A t \in Thread : pc'[t] = pc[t]
    BY <2>2, UsersKept DEF SameCount, UserStill, Using, PortOf
  <2>3. CASE port[p].tty
    <3>1. PICK t \in Users(p) : TRUE
      BY <1>1, <2>3 DEF Ports
    <3>2. t \in Thread /\ PortOf(t) = p /\ pc[t].at \in FilePlaces
      BY <3>1 DEF Users, FilePlaces
    <3>3. pc[t].m \in Minor /\ serial_minors[pc[t].m] = p
      BY <1>1, <3>2, FileHas, Typed, Constant
    <3>4. PICK m \in Minor : m = MinorOf(p) /\ serial_minors[m] = p
      BY <3>3 DEF MinorOf
    <3>5. m = pc[t].m
      BY <1>1, <3>3, <3>4, SerialAssumption DEF Numbers
    <3>6. ttys[m] # NULL /\ ttys[m].port = p
      BY <3>2, <3>5, FileHas
    <3>7. ttys[m].lock = NULL /\ HangUp(p, m) /\ HungUp(m)
      BY <1>34, <2>1, <2>3, <3>4, DisconnectHangupDoes
    <3>8. OtherPorts(p) /\ port'[p].count = 0 /\ ~port'[p].tty
      BY <1>1, <3>7, HangUpGoes
    <3> QED
      BY <3>6, <3>7, <3>8, UsersHungUp
  <2> QED
    BY <1>34, <2>1, <2>2, <2>3, DisconnectHangupDoes
<1>35. CASE DisconnectPoison
  <2>1. /\ \A q \in Port : SameCount(q)
        /\ \A u \in Thread : UserStill(u)
    <3>1. PICK s \in Serial : s = pc["hub"].s
      BY <1>1, Typed, Constant
    <3> DEFINE p == PortOf("hub")
    <3>2. OtherPorts(p) /\ SameCount(p) /\ Others("hub")
      BY <1>35, <3>1, DisconnectPoisonDoes DEF Moved
    <3>3. \A q \in Port : SameCount(q)
      BY <3>2 DEF OtherPorts, SameCount
    <3>4. \A u \in Thread : pc'[u] = pc[u]
      BY <3>2, Constant DEF Others
    <3> QED
      BY ONLY <3>3, <3>4 DEF UserStill, Using, PortOf
  <2> QED
    BY <2>1, UsersKept
<1>36. CASE DisconnectCancel
  <2>1. /\ \A q \in Port : SameCount(q)
        /\ \A u \in Thread : UserStill(u)
    BY <1>1, <1>36, Typed, Constant, DisconnectCancelDoes DEF UserStill, Using, PortOf,
       SameCount, OtherPorts, LastPut, Others, Moved, SameLocals, Became, Idle, HungUp
  <2> QED
    BY <2>1, UsersKept
<1>37. CASE DisconnectEnd
  <2>1. /\ \A q \in Port : SameCount(q)
        /\ \A u \in Thread : UserStill(u)
    BY <1>1, <1>37, Typed, Constant, DisconnectEndDoes DEF UserStill, Using, PortOf,
       SameCount, OtherPorts, LastPut, Others, Moved, SameLocals, Became, Idle, HungUp
  <2> QED
    BY <2>1, UsersKept
<1> QED
  BY <1>2, <1>3, <1>4, <1>5, <1>6, <1>7, <1>8, <1>9, <1>10, <1>11, <1>12, <1>13, <1>14,
     <1>15, <1>16, <1>17, <1>18, <1>19, <1>20, <1>21, <1>22, <1>23, <1>24, <1>25, <1>26,
     <1>27, <1>28, <1>29, <1>30, <1>31, <1>32, <1>33, <1>34, <1>35, <1>36, <1>37 DEF Next,
     ThreadStep, Destroy, DisconnectStep, ProbeStep

(* What the driver has to do with a port, while the devices stay bound.    *)
Working(p) == /\ port[p].initialized => port[p].tty
              /\ port[p].open <=> port[p].initialized
              /\ port[p].urb => port[p].open
              /\ port[p].open \/ port[p].work => /\ serial[p[1]].bound
                                                 /\ p[2] <= serial[p[1]].num_ports
BoundStays(s) == serial[s].bound => serial'[s].bound /\ serial'[s].num_ports = serial[s].num_ports
PortStays(p) == /\ SameCount(p) /\ SameOpen(p) /\ (port'[p].urb => port[p].urb)
                /\ port'[p].work => port[p].urb \/ port[p].work

LEMMA WorkKept ==
  ASSUME IInv, \A s \in Serial : BoundStays(s)
  PROVE  /\ \A q \in Port : PortStays(q) => Working(q)'
         /\ \A q \in Port : port'[q] = port[q] => Working(q)'
         /\ \A p \in Port : OtherPorts(p) /\ Working(p)' => \A q \in Port : Working(q)'
<1>1. \A q \in Port : Working(q) /\ q[1] \in Serial
  BY Typed DEF IInv, Ports, Working
<1>2. \A q \in Port : PortStays(q) => Working(q)'
  BY <1>1 DEF Working, PortStays, BoundStays, SameCount, SameOpen
<1>3. \A q \in Port : port'[q] = port[q] => Working(q)'
  BY <1>1 DEF Working, BoundStays
<1> QED
  BY <1>2, <1>3 DEF OtherPorts

(* A port that the driver closes.                                          *)
LEMMA WorkClosed ==
  ASSUME IInv, NEW p \in Port, \A s \in Serial : BoundStays(s), ~port'[p].tty, ~port'[p].initialized,
         port'[p].open => port[p].open /\ ~port[p].initialized,
         port'[p].urb => port[p].urb /\ ~port[p].initialized,
         port'[p].work => port[p].work \/ (port[p].initialized /\ port[p].urb)
  PROVE  Working(p)'
<1>1. Working(p) /\ p[1] \in Serial
  BY Typed DEF IInv, Ports, Working
<1> QED
  BY <1>1 DEF Working, BoundStays

LEMMA WorkStep ==
  ASSUME IInv, Next
  PROVE  \A q \in Port : Working(q)'
<1>1. TypeOK /\ Ports /\ Places /\ Hub
  BY DEF IInv
<1>2. ASSUME NEW a \in Actor, ReleaseMinors(a) PROVE \A q \in Port : Working(q)'
  <2>1. /\ \A s \in Serial : BoundStays(s)
        /\ \A q \in Port : PortStays(q)
    BY <1>1, <1>2, Typed, Constant, ReleaseMinorsDoes DEF BoundStays, PortStays, SameCount,
       SameOpen, SameUrbs, OtherPorts, OthersKept, SameName, SameState, Moved, LastPut
  <2> QED
    BY <2>1, WorkKept
<1>3. ASSUME NEW a \in Actor, DestroySerial(a) PROVE \A q \in Port : Working(q)'
  <2>1. /\ \A s \in Serial : BoundStays(s)
        /\ \A q \in Port : PortStays(q)
    BY <1>1, <1>3, Typed, Constant, DestroySerialDoes DEF BoundStays, PortStays, SameCount,
       SameOpen, SameUrbs, OtherPorts, OthersKept, SameName, SameState, Moved, LastPut
  <2> QED
    BY <2>1, WorkKept
<1>4. ASSUME NEW a \in Actor, ModulePut(a) PROVE \A q \in Port : Working(q)'
  <2>1. /\ \A s \in Serial : BoundStays(s)
        /\ \A q \in Port : PortStays(q)
    BY <1>1, <1>4, Typed, Constant, ModulePutDoes DEF BoundStays, PortStays, SameCount,
       SameOpen, SameUrbs, OtherPorts, OthersKept, SameName, SameState, Moved, LastPut
  <2> QED
    BY <2>1, WorkKept
<1>5. ASSUME NEW t \in Thread, NEW m \in Minor, TtyOpen(t, m) PROVE \A q \in Port : Working(q)'
  <2>1. /\ \A s \in Serial : BoundStays(s)
        /\ \A q \in Port : PortStays(q)
    BY <1>1, <1>5, Typed, Constant, TtyOpenDoes DEF BoundStays, PortStays, SameCount,
       SameOpen, SameUrbs, OtherPorts, OthersKept, SameName, SameState, Moved, LastPut
  <2> QED
    BY <2>1, WorkKept
<1>6. ASSUME NEW t \in Thread, NEW m \in Minor, ProcShow(t, m) PROVE \A q \in Port : Working(q)'
  <2>1. /\ \A s \in Serial : BoundStays(s)
        /\ \A q \in Port : PortStays(q)
    BY <1>1, <1>6, Typed, Constant, ProcShowDoes DEF BoundStays, PortStays, SameCount,
       SameOpen, SameUrbs, OtherPorts, OthersKept, SameName, SameState, Moved, LastPut
  <2> QED
    BY <2>1, WorkKept
<1>7. ASSUME NEW t \in Thread, Find(t) PROVE \A q \in Port : Working(q)'
  <2>1. /\ \A s \in Serial : BoundStays(s)
        /\ \A q \in Port : PortStays(q)
    BY <1>1, <1>7, Typed, Constant, FindDoes DEF BoundStays, PortStays, SameCount, SameOpen,
       SameUrbs, OtherPorts, OthersKept, SameName, SameState, Moved, LastPut
  <2> QED
    BY <2>1, WorkKept
<1>8. ASSUME NEW t \in Thread, GetByMinor(t) PROVE \A q \in Port : Working(q)'
  <2>1. /\ \A s \in Serial : BoundStays(s)
        /\ \A q \in Port : PortStays(q)
    BY <1>1, <1>8, Typed, Constant, GetByMinorDoes DEF BoundStays, PortStays, SameCount,
       SameOpen, SameUrbs, OtherPorts, OthersKept, SameName, SameState, Moved, LastPut
  <2> QED
    BY <2>1, WorkKept
<1>9. ASSUME NEW t \in Thread, Install(t) PROVE \A q \in Port : Working(q)'
  <2>1. /\ \A s \in Serial : BoundStays(s)
        /\ \A q \in Port : PortStays(q)
    BY <1>1, <1>9, Typed, Constant, InstallDoes DEF BoundStays, PortStays, SameCount,
       SameOpen, SameUrbs, OtherPorts, OthersKept, SameName, SameState, Moved, LastPut
  <2> QED
    BY <2>1, WorkKept
<1>10. ASSUME NEW t \in Thread, PutLocked(t) PROVE \A q \in Port : Working(q)'
  <2>1. /\ \A s \in Serial : BoundStays(s)
        /\ \A q \in Port : PortStays(q)
    BY <1>1, <1>10, Typed, Constant, PutLockedDoes DEF BoundStays, PortStays, SameCount,
       SameOpen, SameUrbs, OtherPorts, OthersKept, SameName, SameState, Moved, LastPut
  <2> QED
    BY <2>1, WorkKept
<1>11. ASSUME NEW t \in Thread, UnlockDisc(t) PROVE \A q \in Port : Working(q)'
  <2>1. /\ \A s \in Serial : BoundStays(s)
        /\ \A q \in Port : PortStays(q)
    BY <1>1, <1>11, Typed, Constant, UnlockDiscDoes DEF BoundStays, PortStays, SameCount,
       SameOpen, SameUrbs, OtherPorts, OthersKept, SameName, SameState, Moved, LastPut
  <2> QED
    BY <2>1, WorkKept
<1>12. ASSUME NEW t \in Thread, PortOpen(t) PROVE \A q \in Port : Working(q)'
  <2>1. PICK p \in Port : p = PortOf(t)
    BY <1>1, <1>12, PortOpenDoes, Typed, Constant
  <2>2. /\ UNCHANGED serial /\ OtherPorts(p) /\ port'[p].tty /\ SameOpen(p) /\ SameUrbs(p)
    BY <1>1, <1>12, <2>1, PortOpenDoes, Typed, Constant
  <2>3. \A s \in Serial : BoundStays(s)
    BY <2>2 DEF BoundStays
  <2>4. Working(p)'
    BY <1>1, <2>2 DEF Ports, Working, SameOpen, SameUrbs
  <2> QED
    BY <2>2, <2>3, <2>4, WorkKept
<1>13. ASSUME NEW t \in Thread, PortActivate(t) PROVE \A q \in Port : Working(q)'
  <2>1. pc[t].at = "activate" /\ t \in Actor /\ pc[t].s \in Serial /\ pc[t].at \in FilePlaces
    BY <1>1, <1>13, Typed, Constant DEF PortActivate, At, FilePlaces
  <2>2. PICK p \in Port : p = PortOf(t) /\ p[1] = pc[t].s /\ p[2] = pc[t].i
    BY <2>1, FileHas DEF PortOf
  <2>3. /\ UNCHANGED serial
        /\ \/ /\ ~serial[p[1]].disconnected /\ OtherPorts(p)
              /\ port'[p].initialized /\ port'[p].open /\ SameCount(p) /\ SameUrbs(p)
           \/ UNCHANGED port
    BY <1>1, <1>13, <2>2, Typed, Constant, PortActivateDoes
  <2>4. \A s \in Serial : BoundStays(s)
    BY <2>3 DEF BoundStays
  <2>5. CASE UNCHANGED port
    BY <2>4, <2>5, WorkKept
  <2>6. CASE /\ ~serial[p[1]].disconnected /\ OtherPorts(p)
             /\ port'[p].initialized /\ port'[p].open /\ SameCount(p) /\ SameUrbs(p)
    <3>1. port[p].tty
      <4>1. t \in Users(p)
        BY <1>1, <2>1, <2>2 DEF Users, Places
      <4> QED
        BY <1>1, <4>1 DEF Ports
    <3>2. serial[p[1]].bound /\ p[2] <= serial[p[1]].num_ports
      BY <2>1, <2>2, <2>6, FileHas DEF Its
    <3>3. Working(p)'
      BY <2>3, <2>6, <3>1, <3>2 DEF Working, SameCount
    <3> QED
      BY <2>4, <2>6, <3>3, WorkKept
  <2> QED
    BY <2>3, <2>5, <2>6
<1>14. ASSUME NEW t \in Thread, Write(t) PROVE \A q \in Port : Working(q)'
  <2>1. PICK p \in Port : p = PortOf(t)
    BY <1>1, <1>14, WriteDoes, Typed, Constant
  <2>2. /\ UNCHANGED serial /\ OtherPorts(p) /\ port[p].open /\ SameCount(p) /\ SameOpen(p)
        /\ (port'[p].work <=> port[p].work)
    BY <1>1, <1>14, <2>1, WriteDoes, Typed, Constant
  <2>3. \A s \in Serial : BoundStays(s)
    BY <2>2 DEF BoundStays
  <2>4. Working(p)'
    BY <1>1, <2>2 DEF Ports, Working, SameOpen, SameCount
  <2> QED
    BY <2>2, <2>3, <2>4, WorkKept
<1>15. ASSUME NEW p \in Port, PortSoftint(p) PROVE \A q \in Port : Working(q)'
  <2>1. /\ \A s \in Serial : BoundStays(s)
        /\ \A q \in Port : PortStays(q)
    BY <1>1, <1>15, Typed, Constant, SoftintDoes DEF BoundStays, PortStays, SameCount,
       SameOpen, SameUrbs, OtherPorts, OthersKept, SameName, SameState, Moved, LastPut
  <2> QED
    BY <2>1, WorkKept
<1>16. ASSUME NEW p \in Port, PortWork(p) PROVE \A q \in Port : Working(q)'
  <2>1. /\ \A s \in Serial : BoundStays(s)
        /\ \A q \in Port : PortStays(q)
    BY <1>1, <1>16, Typed, Constant, SoftintDoes DEF BoundStays, PortStays, SameCount,
       SameOpen, SameUrbs, OtherPorts, OthersKept, SameName, SameState, Moved, LastPut
  <2> QED
    BY <2>1, WorkKept
<1>17. ASSUME NEW t \in Thread, WaitUntilSent(t) PROVE \A q \in Port : Working(q)'
  <2>1. /\ \A s \in Serial : BoundStays(s)
        /\ \A q \in Port : PortStays(q)
    BY <1>1, <1>17, Typed, Constant, DrainDoes DEF BoundStays, PortStays, SameCount,
       SameOpen, SameUrbs, OtherPorts, OthersKept, SameName, SameState, Moved, LastPut
  <2> QED
    BY <2>1, WorkKept
<1>18. ASSUME NEW t \in Thread, Drained(t) PROVE \A q \in Port : Working(q)'
  <2>1. /\ \A s \in Serial : BoundStays(s)
        /\ \A q \in Port : PortStays(q)
    BY <1>1, <1>18, Typed, Constant, DrainDoes DEF BoundStays, PortStays, SameCount,
       SameOpen, SameUrbs, OtherPorts, OthersKept, SameName, SameState, Moved, LastPut
  <2> QED
    BY <2>1, WorkKept
<1>19. ASSUME NEW t \in Thread, Close(t) PROVE \A q \in Port : Working(q)'
  <2>1. PICK p \in Port : p = PortOf(t)
    BY <1>1, <1>19, Typed, Constant, CloseGoes
  <2>2. /\ UNCHANGED serial /\ OtherPorts(p)
        /\ \/ SameCount(p) /\ SameOpen(p) /\ SameUrbs(p)
           \/ /\ ~port'[p].tty /\ ~port'[p].initialized
              /\ port'[p].open => port[p].open /\ ~port[p].initialized
              /\ port'[p].urb => port[p].urb /\ ~port[p].initialized
              /\ port'[p].work => port[p].work \/ (port[p].initialized /\ port[p].urb)
           \/ (port'[p].tty <=> port[p].tty) /\ SameOpen(p) /\ SameUrbs(p)
    BY <1>1, <1>19, <2>1, Typed, Constant, CloseGoes
  <2>3. \A s \in Serial : BoundStays(s)
    BY <2>2 DEF BoundStays
  <2>4. Working(p)'
    <3>1. CASE (port'[p].tty <=> port[p].tty) /\ SameOpen(p) /\ SameUrbs(p)
      BY <1>1, <2>2, <3>1 DEF Ports, Working, SameOpen, SameUrbs
    <3> QED
      BY <2>2, <2>3, <3>1, WorkClosed DEF SameCount
  <2> QED
    BY <2>2, <2>3, <2>4, WorkKept
<1>20. ASSUME NEW m \in Minor, Hangup(m) PROVE \A q \in Port : Working(q)'
  <2>1. PICK p \in Port : p = ttys[m].port
    BY <1>20, HangupDoes
  <2>2. UNCHANGED serial /\ HangUp(p, m)
    BY <1>20, <2>1, HangupDoes
  <2>3. \A s \in Serial : BoundStays(s)
    BY <2>2 DEF BoundStays
  <2>4. OtherPorts(p) /\ Working(p)'
    BY <1>1, <2>2, <2>3, HangUpGoes, WorkClosed
  <2> QED
    BY <2>3, <2>4, WorkKept
<1>21. ASSUME NEW p \in Port, Cleanup(p) PROVE \A q \in Port : Working(q)'
  <2>1. /\ \A s \in Serial : BoundStays(s)
        /\ \A q \in Port : PortStays(q)
    BY <1>1, <1>21, Typed, Constant, CleanupDoes DEF BoundStays, PortStays, SameCount,
       SameOpen, SameUrbs, OtherPorts, OthersKept, SameName, SameState, Moved, LastPut
  <2> QED
    BY <2>1, WorkKept
<1>22. CASE CleanupPut
  <2>1. /\ \A s \in Serial : BoundStays(s)
        /\ \A q \in Port : PortStays(q)
    BY <1>1, <1>22, Typed, Constant, CleanupPutDoes DEF BoundStays, PortStays, SameCount,
       SameOpen, SameUrbs, OtherPorts, OthersKept, SameName, SameState, Moved, LastPut
  <2> QED
    BY <2>1, WorkKept
<1>23. ASSUME NEW s \in Serial, Probe(s) PROVE \A q \in Port : Working(q)'
  <2>1. \A r \in Serial : BoundStays(r)
    BY <1>23, ProbeDoes DEF Bound, BoundStays
  <2>2. \A q \in Port : port'[q] = port[q]
    BY <1>23, ProbeDoes
  <2> QED
    BY <2>1, <2>2, WorkKept
<1>24. ASSUME NEW n \in 0 .. MaxPorts, Attach(n) PROVE \A q \in Port : Working(q)'
  <2>1. PICK s \in Serial : s = pc["hub"].s
    BY <1>1, Typed, Constant
  <2>2. ~serial[s].bound /\ OthersKept(s) /\ UNCHANGED port
    BY <1>1, <1>24, <2>1, AttachDoes DEF Hub, Its
  <2>3. /\ \A r \in Serial : BoundStays(r)
        /\ \A q \in Port : PortStays(q)
    BY <2>2 DEF BoundStays, PortStays, OthersKept, SameCount, SameOpen
  <2> QED
    BY <2>3, WorkKept
<1>25. CASE ProbeError
  <2>1. /\ \A s \in Serial : BoundStays(s)
        /\ \A q \in Port : PortStays(q)
    BY <1>1, <1>25, Typed, Constant, ProbeErrorDoes DEF BoundStays, PortStays, SameCount,
       SameOpen, SameUrbs, OtherPorts, OthersKept, SameName, SameState, Moved, LastPut
  <2> QED
    BY <2>1, WorkKept
<1>26. CASE AllocateMinors
  <2>1. /\ \A s \in Serial : BoundStays(s)
        /\ \A q \in Port : PortStays(q)
    BY <1>1, <1>26, Typed, Constant, MinorsDoes DEF BoundStays, PortStays, SameCount,
       SameOpen, SameUrbs, OtherPorts, OthersKept, SameName, SameState, Moved, LastPut
  <2> QED
    BY <2>1, WorkKept
<1>27. CASE Register
  <2>1. PICK s \in Serial : s = pc["hub"].s
    BY <1>1, Typed, Constant
  <2>2. ~serial[s].bound /\ OthersKept(s) /\ UNCHANGED port
    BY <1>1, <1>27, <2>1, MinorsDoes DEF Hub, Its, Register, At
  <2>3. /\ \A r \in Serial : BoundStays(r)
        /\ \A q \in Port : PortStays(q)
    BY <2>2 DEF BoundStays, PortStays, OthersKept, SameCount, SameOpen
  <2> QED
    BY <2>3, WorkKept
<1>28. ASSUME NEW s \in Serial, Suspend(s) PROVE \A q \in Port : Working(q)'
  <2>1. /\ \A r \in Serial : BoundStays(r)
        /\ \A q \in Port : PortStays(q)
    BY <1>1, <1>28, Typed, Constant, SuspendDoes DEF BoundStays, PortStays, SameCount,
       SameOpen, SameUrbs, OtherPorts, OthersKept, SameName, SameState, Moved, LastPut
  <2> QED
    BY <2>1, WorkKept
<1>29. ASSUME NEW s \in Serial, Resume(s) PROVE \A q \in Port : Working(q)'
  <2>1. /\ \A r \in Serial : BoundStays(r)
        /\ \A q \in Port : PortStays(q)
    BY <1>1, <1>29, Typed, Constant, SuspendDoes DEF BoundStays, PortStays, SameCount,
       SameOpen, SameUrbs, OtherPorts, OthersKept, SameName, SameState, Moved, LastPut
  <2> QED
    BY <2>1, WorkKept
<1>30. CASE Unplug
  <2>1. /\ \A s \in Serial : BoundStays(s)
        /\ \A q \in Port : PortStays(q)
    BY <1>1, <1>30, Typed, Constant DEF BoundStays, PortStays, SameCount, SameOpen, SameUrbs,
       OtherPorts, OthersKept, SameName, SameState, Moved, LastPut, Unplug
  <2> QED
    BY <2>1, WorkKept
<1>31. CASE Deregister
  <2>1. /\ \A s \in Serial : BoundStays(s)
        /\ \A q \in Port : PortStays(q)
    BY <1>1, <1>31, Typed, Constant DEF BoundStays, PortStays, SameCount, SameOpen, SameUrbs,
       OtherPorts, OthersKept, SameName, SameState, Moved, LastPut, Deregister
  <2> QED
    BY <2>1, WorkKept
<1>32. CASE DeregisterEnd
  <2>1. /\ \A s \in Serial : BoundStays(s)
        /\ \A q \in Port : PortStays(q)
    BY <1>1, <1>32, Typed, Constant DEF BoundStays, PortStays, SameCount, SameOpen, SameUrbs,
       OtherPorts, OthersKept, SameName, SameState, Moved, LastPut, DeregisterEnd
  <2> QED
    BY <2>1, WorkKept
<1>33. ASSUME NEW s \in Serial, Disconnect(s) PROVE \A q \in Port : Working(q)'
  <2>1. /\ \A r \in Serial : BoundStays(r)
        /\ \A q \in Port : PortStays(q)
    BY <1>1, <1>33, Typed, Constant, DisconnectDoes DEF BoundStays, PortStays, SameCount,
       SameOpen, SameUrbs, OtherPorts, OthersKept, SameName, SameState, Moved, LastPut
  <2> QED
    BY <2>1, WorkKept
<1>34. CASE DisconnectHangup
  <2>1. PICK p \in Port : p = PortOf("hub")
    BY <1>34, DisconnectHangupDoes
  <2>2. UNCHANGED serial /\ (UNCHANGED port \/ HangUp(p, MinorOf(p)))
    BY <1>34, <2>1, DisconnectHangupDoes
  <2>3. \A s \in Serial : BoundStays(s)
    BY <2>2 DEF BoundStays
  <2>4. CASE HangUp(p, MinorOf(p))
    <3>1. OtherPorts(p) /\ Working(p)'
      BY <1>1, <2>3, <2>4, HangUpGoes, WorkClosed
    <3> QED
      BY <2>3, <3>1, WorkKept
  <2> QED
    BY <2>2, <2>3, <2>4, WorkKept
<1>35. CASE DisconnectPoison
  <2>1. PICK s \in Serial : s = pc["hub"].s
    BY <1>1, Typed, Constant
  <2>2. PICK p \in Port : p = PortOf("hub")
    BY <1>35, <2>1, DisconnectPoisonDoes
  <2>3. /\ OthersKept(s) /\ SameName(s) /\ SameState(s) /\ OtherPorts(p) /\ SameCount(p) /\ SameOpen(p)
        /\ ~port'[p].urb /\ (port'[p].work => port[p].urb \/ port[p].work)
    BY <1>35, <2>1, <2>2, DisconnectPoisonDoes
  <2>4. \A r \in Serial : BoundStays(r)
    BY <2>3 DEF BoundStays, OthersKept, SameName, SameState
  <2>5. PortStays(p)
    BY <2>3 DEF PortStays
  <2> QED
    BY <2>3, <2>4, <2>5, WorkKept
<1>36. CASE DisconnectCancel
  <2>1. /\ \A s \in Serial : BoundStays(s)
        /\ \A q \in Port : PortStays(q)
    BY <1>1, <1>36, Typed, Constant, DisconnectCancelDoes DEF BoundStays, PortStays,
       SameCount, SameOpen, SameUrbs, OtherPorts, OthersKept, SameName, SameState, Moved,
       LastPut
  <2> QED
    BY <2>1, WorkKept
<1>37. CASE DisconnectEnd
  <2>1. PICK s \in Serial : s = pc["hub"].s
    BY <1>1, Typed, Constant
  <2>2. OthersKept(s) /\ UNCHANGED port /\ pc["hub"].at = "hangup" /\ pc["hub"].i > serial[s].num_ports
    BY <1>37, <2>1, DisconnectEndDoes
  <2>3. /\ \A q \in Port : Working(q) /\ q[2] \in Nat /\ q[1] \in Serial
        /\ pc["hub"].i \in Nat /\ serial[s].num_ports \in Nat
    BY <1>1, Typed, Constant, SerialAssumption DEF Ports, Working, Object
  <2>4. \A q \in PortsOf(s) : ~port[q].open /\ ~port[q].work
    <3>1. \A q \in PortsOf(s) : q[2] < pc["hub"].i => ~port[q].open /\ ~port[q].work
      BY <1>1, <2>1, <2>2 DEF Hub, Quiet
    <3>2. \A q \in PortsOf(s) : port[q].open \/ port[q].work => q[2] <= serial[s].num_ports
      BY <2>3 DEF Working, PortsOf
    <3>3. \A q \in PortsOf(s) : q[2] \in Nat
      BY <2>3 DEF PortsOf
    <3> QED
      BY <2>2, <2>3, <3>1, <3>2, <3>3
  <2>5. ASSUME NEW q \in Port PROVE Working(q)'
    <3>1. CASE q[1] = s
      BY <2>2, <2>3, <2>4, <3>1 DEF Working, PortsOf
    <3>2. CASE q[1] # s
      BY <2>2, <2>3, <3>2 DEF Working, OthersKept
    <3> QED
      BY <3>1, <3>2
  <2> QED
    BY <2>5
<1> QED
  BY <1>2, <1>3, <1>4, <1>5, <1>6, <1>7, <1>8, <1>9, <1>10, <1>11, <1>12, <1>13, <1>14,
     <1>15, <1>16, <1>17, <1>18, <1>19, <1>20, <1>21, <1>22, <1>23, <1>24, <1>25, <1>26,
     <1>27, <1>28, <1>29, <1>30, <1>31, <1>32, <1>33, <1>34, <1>35, <1>36, <1>37 DEF Next,
     ThreadStep, Destroy, DisconnectStep, ProbeStep

LEMMA PortsStep ==
  ASSUME IInv, Next
  PROVE  Ports'
  BY UsersStep, WorkStep DEF Ports, Counted, Working

(* The ports of an object are the same for ever; so the ttys installed on  *)
(* them change only where a tty does, or one that waits for serial_cleanup.*)
LEMMA InstalledStays ==
  ASSUME IInv, TypeOK', SameTtys, SameDying
  PROVE  /\ \A s \in Serial : Installed(PortsOf(s))' = Installed(PortsOf(s))
         /\ Installed(Port)' = Installed(Port)
<1>1. PortsTyped
  BY DEF IInv, TypeOK, PortsTyped
<1>2. ASSUME NEW s \in Serial PROVE Installed(PortsOf(s))' = Installed(PortsOf(s))
  <2>1. PICK P \in SUBSET Port : P = PortsOf(s)
    BY DEF PortsOf
  <2>2. Installed(P)' = Installed(P)
    BY <1>1, InstalledSame
  <2>3. PortsOf(s)' = P
    BY <2>1 DEF PortsOf
  <2> QED
    BY <2>1, <2>2, <2>3
<1>3. Installed(Port)' = Installed(Port)
  BY <1>1, InstalledSame
<1> QED
  BY <1>2, <1>3

LEMMA InstalledUp ==
  ASSUME IInv, TypeOK', SameDying, NEW m \in Minor, ttys[m] = NULL, ttys'[m] # NULL, OtherTtys(m),
         NEW p \in Port, ttys'[m].port = p
  PROVE  /\ \A s \in Serial : Installed(PortsOf(s))' = Installed(PortsOf(s)) + One(s = p[1])
         /\ Installed(Port)' = Installed(Port) + 1
<1>1. PortsTyped /\ \A n \in Minor : n # m => ttys'[n] = ttys[n]
  BY DEF IInv, TypeOK, PortsTyped, OtherTtys
<1>2. ASSUME NEW s \in Serial PROVE Installed(PortsOf(s))' = Installed(PortsOf(s)) + One(s = p[1])
  <2>1. PICK P \in SUBSET Port : P = PortsOf(s)
    BY DEF PortsOf
  <2>2. Installed(P)' = Installed(P) + One(ttys'[m].port \in P)
    BY <1>1, InstalledMore
  <2>3. PortsOf(s)' = P /\ (ttys'[m].port \in P <=> s = p[1])
    BY <2>1 DEF PortsOf
  <2>4. One(ttys'[m].port \in P) = One(s = p[1])
    BY <2>3 DEF One
  <2> QED
    BY <2>1, <2>2, <2>3, <2>4
<1>3. Installed(Port)' = Installed(Port) + One(ttys'[m].port \in Port)
  BY <1>1, InstalledMore
<1> QED
  BY <1>2, <1>3 DEF One

LEMMA InstalledDown ==
  ASSUME IInv, TypeOK', SameTtys, NEW p \in Port, port[p].dying > 0, OtherPorts(p),
         port'[p].dying = port[p].dying - 1
  PROVE  /\ \A s \in Serial : Installed(PortsOf(s))' = Installed(PortsOf(s)) - One(s = p[1])
         /\ Installed(Port)' = Installed(Port) - 1
<1>1. PortsTyped /\ \A q \in Port : q # p => port'[q].dying = port[q].dying
  BY DEF IInv, TypeOK, PortsTyped, OtherPorts
<1>2. ASSUME NEW s \in Serial PROVE Installed(PortsOf(s))' = Installed(PortsOf(s)) - One(s = p[1])
  <2>1. PICK P \in SUBSET Port : P = PortsOf(s)
    BY DEF PortsOf
  <2>2. Installed(P)' = Installed(P) - One(p \in P)
    BY <1>1, InstalledLess
  <2>3. PortsOf(s)' = P /\ (p \in P <=> s = p[1])
    BY <2>1 DEF PortsOf
  <2>4. One(p \in P) = One(s = p[1])
    BY <2>3 DEF One
  <2> QED
    BY <2>1, <2>2, <2>3, <2>4
<1>3. Installed(Port)' = Installed(Port) - One(p \in Port)
  BY <1>1, InstalledLess
<1> QED
  BY <1>2, <1>3 DEF One

(* serial_close leaves them as they are, with the last count of a tty too. *)
LEMMA InstalledCloses ==
  ASSUME IInv, TypeOK', NEW t \in Thread, Close(t)
  PROVE  /\ \A s \in Serial : Installed(PortsOf(s))' = Installed(PortsOf(s))
         /\ Installed(Port)' = Installed(Port)
<1>1. TypeOK /\ PortsTyped /\ pc[t].at \in FilePlaces
  BY DEF IInv, TypeOK, PortsTyped, Close, At, FilePlaces
<1>2. PICK m \in Minor : m = pc[t].m
  BY <1>1, Typed, Constant
<1>3. PICK p \in Port : p = PortOf(t)
  BY <1>1, FileHas
<1>4. /\ OtherTtys(m) /\ OtherPorts(p)
      /\ \/ ttys'[m] = NULL /\ port'[p].dying = port[p].dying + 1
         \/ /\ ttys'[m] # NULL /\ ttys'[m].port = ttys[m].port /\ port'[p].dying = port[p].dying
  BY <1>2, <1>3, CloseGoes
<1>5. ttys[m] # NULL /\ ttys[m].port = p
  BY <1>1, <1>2, <1>3, FileHas
<1>6. CASE ttys'[m] = NULL /\ port'[p].dying = port[p].dying + 1
  <2>1. (\A n \in Minor : n # m => ttys'[n] = ttys[n]) /\ (\A q \in Port : q # p => port'[q].dying = port[q].dying)
    BY <1>4 DEF OtherTtys, OtherPorts
  <2>2. ASSUME NEW P \in SUBSET Port PROVE Installed(P)' = Installed(P)
    BY <1>1, <1>5, <1>6, <2>1, InstalledClosed
  <2>3. ASSUME NEW s \in Serial PROVE Installed(PortsOf(s))' = Installed(PortsOf(s))
    <3>1. PICK P \in SUBSET Port : P = PortsOf(s)
      BY DEF PortsOf
    <3>2. PortsOf(s)' = P
      BY <3>1 DEF PortsOf
    <3> QED
      BY <2>2, <3>1, <3>2
  <2>4. Installed(Port)' = Installed(Port)
    BY <2>2
  <2> QED
    BY <2>3, <2>4
<1>7. CASE ttys'[m] # NULL /\ ttys'[m].port = ttys[m].port /\ port'[p].dying = port[p].dying
  <2>1. SameTtys /\ SameDying
    BY <1>4, <1>5, <1>7 DEF SameTtys, SameDying, OtherTtys, OtherPorts
  <2> QED
    BY <2>1, InstalledStays
<1> QED
  BY <1>4, <1>6, <1>7

(* What keeps an interface awake, while its ttys stay.                     *)
PowerStays(s) == ~serial'[s].disconnected =>
                    /\ ~serial[s].disconnected /\ serial'[s].pm = serial[s].pm
                    /\ serial'[s].poisoned => serial[s].poisoned \/ serial[s].pm = 0
Awake(s) == ~serial[s].disconnected => /\ serial[s].pm = Installed(PortsOf(s))
                                       /\ serial[s].poisoned => serial[s].pm = 0

LEMMA OpeningKeeps ==
  ASSUME IInv, NEW t \in Thread, PortOpen(t) \/ PortActivate(t)
  PROVE  /\ SameTtys /\ SameDying /\ UNCHANGED <<serial, module>> /\ Others(t)
         /\ pc[t].at \in {"port_open", "activate"} /\ pc'[t].at \in {"activate", "running", "close"}
<1>1. TypeOK /\ pc[t].at \in {"port_open", "activate"} /\ pc[t].at \in FilePlaces
  BY DEF IInv, PortOpen, PortActivate, At, FilePlaces
<1>2. PICK m \in Minor : m = pc[t].m
  BY <1>1, Typed, Constant
<1>3. PICK p \in Port : p = PortOf(t)
  BY <1>1, FileHas
<1>4. ttys[m] # NULL
  BY <1>1, <1>2, FileHas
<1>5. CASE PortOpen(t)
  <2>1. /\ UNCHANGED ttys \/ (OtherTtys(m) /\ ttys'[m] # NULL /\ ttys'[m].port = ttys[m].port)
        /\ OtherPorts(p) /\ port'[p].dying = port[p].dying /\ UNCHANGED <<serial, module>> /\ Others(t)
        /\ pc'[t].at \in {"activate", "running"}
    BY <1>2, <1>3, <1>5, PortOpenDoes DEF Moved
  <2>2. SameTtys
    BY <1>4, <2>1 DEF SameTtys, OtherTtys
  <2>3. SameDying
    BY <2>1 DEF SameDying, OtherPorts
  <2> QED
    BY <1>1, <2>1, <2>2, <2>3
<1>6. CASE PortActivate(t)
  <2>1. /\ OtherTtys(m) /\ ttys'[m] # NULL /\ ttys'[m].port = ttys[m].port
        /\ UNCHANGED port \/ (OtherPorts(p) /\ port'[p].dying = port[p].dying)
        /\ UNCHANGED <<serial, module>> /\ Others(t) /\ pc'[t].at \in {"close", "running"}
    BY <1>2, <1>3, <1>6, PortActivateDoes DEF Moved
  <2>2. SameTtys
    BY <1>4, <2>1 DEF SameTtys, OtherTtys
  <2>3. SameDying
    BY <2>1 DEF SameDying, OtherPorts
  <2> QED
    BY <1>1, <2>1, <2>2, <2>3
<1> QED
  BY <1>5, <1>6

LEMMA PowerKept ==
  ASSUME IInv, NEW s \in Serial, PowerStays(s), Installed(PortsOf(s))' = Installed(PortsOf(s))
  PROVE  Awake(s)'
<1>1. Awake(s)
  BY DEF IInv, Power, Awake
<1> QED
  BY <1>1 DEF Awake, PowerStays

LEMMA PowerStep ==
  ASSUME IInv, Next
  PROVE  Power'
<1>1. TypeOK /\ TypeOK' /\ Counts /\ Power /\ Hub /\ Places /\ Ttys
  BY TypeStep DEF IInv
<1>2. pc["hub"].at \in {"poison", "cancel"} => serial[pc["hub"].s].disconnected
  BY <1>1 DEF Hub, Its
<1>3. ASSUME NEW a \in Actor, ReleaseMinors(a) PROVE Power'
  <2>1. SameTtys /\ SameDying /\ \A r \in Serial : PowerStays(r)
    BY <1>1, <1>2, <1>3, Typed, Constant, ReleaseMinorsDoes DEF PowerStays, SameTtys,
       SameDying, OtherTtys, OtherPorts, OthersKept, SamePower, SameState, LastPut
  <2> QED
    BY <1>1, <2>1, InstalledStays, PowerKept DEF Power, Awake
<1>4. ASSUME NEW a \in Actor, DestroySerial(a) PROVE Power'
  <2>1. SameTtys /\ SameDying /\ \A r \in Serial : PowerStays(r)
    BY <1>1, <1>2, <1>4, Typed, Constant, DestroySerialDoes DEF PowerStays, SameTtys,
       SameDying, OtherTtys, OtherPorts, OthersKept, SamePower, SameState, LastPut
  <2> QED
    BY <1>1, <2>1, InstalledStays, PowerKept DEF Power, Awake
<1>5. ASSUME NEW a \in Actor, ModulePut(a) PROVE Power'
  <2>1. SameTtys /\ SameDying /\ \A r \in Serial : PowerStays(r)
    BY <1>1, <1>2, <1>5, Typed, Constant, ModulePutDoes DEF PowerStays, SameTtys, SameDying,
       OtherTtys, OtherPorts, OthersKept, SamePower, SameState, LastPut
  <2> QED
    BY <1>1, <2>1, InstalledStays, PowerKept DEF Power, Awake
<1>6. ASSUME NEW t \in Thread, NEW m \in Minor, TtyOpen(t, m) PROVE Power'
  <2>1. SameTtys /\ SameDying /\ \A r \in Serial : PowerStays(r)
    BY <1>1, <1>2, <1>6, Typed, Constant, TtyOpenDoes DEF PowerStays, SameTtys, SameDying,
       OtherTtys, OtherPorts, OthersKept, SamePower, SameState, LastPut
  <2> QED
    BY <1>1, <2>1, InstalledStays, PowerKept DEF Power, Awake
<1>7. ASSUME NEW t \in Thread, NEW m \in Minor, ProcShow(t, m) PROVE Power'
  <2>1. SameTtys /\ SameDying /\ \A r \in Serial : PowerStays(r)
    BY <1>1, <1>2, <1>7, Typed, Constant, ProcShowDoes DEF PowerStays, SameTtys, SameDying,
       OtherTtys, OtherPorts, OthersKept, SamePower, SameState, LastPut
  <2> QED
    BY <1>1, <2>1, InstalledStays, PowerKept DEF Power, Awake
<1>8. ASSUME NEW t \in Thread, Find(t) PROVE Power'
  <2>1. SameTtys /\ SameDying /\ \A r \in Serial : PowerStays(r)
    BY <1>1, <1>2, <1>8, Typed, Constant, FindDoes DEF PowerStays, SameTtys, SameDying,
       OtherTtys, OtherPorts, OthersKept, SamePower, SameState, LastPut
  <2> QED
    BY <1>1, <2>1, InstalledStays, PowerKept DEF Power, Awake
<1>9. ASSUME NEW t \in Thread, GetByMinor(t) PROVE Power'
  <2>1. SameTtys /\ SameDying /\ \A r \in Serial : PowerStays(r)
    BY <1>1, <1>2, <1>9, Typed, Constant, GetByMinorDoes DEF PowerStays, SameTtys,
       SameDying, OtherTtys, OtherPorts, OthersKept, SamePower, SameState, LastPut
  <2> QED
    BY <1>1, <2>1, InstalledStays, PowerKept DEF Power, Awake
<1>10. ASSUME NEW t \in Thread, Install(t) PROVE Power'
  <2>1. PICK s \in Serial : s = pc[t].s
    BY <1>1, Typed, Constant
  <2>2. PICK m \in Minor : m = pc[t].m
    BY <1>1, Typed, Constant
  <2>3. pc[t].at = "install" /\ PortOf(t) \in Port /\ Installing(t)
    <3>1. pc[t].at = "install"
      BY <1>10 DEF Install, At
    <3> QED
      BY <1>1, <3>1, LookupFinds DEF Places, Installing
  <2>4. PICK p \in Port : p = PortOf(t) /\ p[1] = s
    BY <2>1, <2>3 DEF PortOf
  <2>5. ttys[m] = NULL
    BY <1>1, <2>2, <2>3 DEF Ttys
  <2>6. UNCHANGED port /\ SameDying
    BY <1>10, <2>1, <2>2, InstallDoes DEF SameDying
  <2>7. CASE UNCHANGED <<serial, ttys>>
    <3>1. SameTtys /\ \A r \in Serial : PowerStays(r)
      BY <2>7 DEF SameTtys, PowerStays
    <3> QED
      BY <1>1, <2>6, <3>1, InstalledStays, PowerKept DEF Power, Awake
  <2>8. CASE /\ OtherTtys(m) /\ ttys'[m] # NULL /\ ttys'[m].port = p
             /\ OthersKept(s) /\ serial'[s].pm = serial[s].pm + 1 /\ ~serial'[s].poisoned
             /\ SameState(s)
    <3>1. \A r \in Serial : Installed(PortsOf(r))' = Installed(PortsOf(r)) + One(r = s)
      BY <1>1, <2>4, <2>5, <2>6, <2>8, InstalledUp
    <3>2. ASSUME NEW r \in Serial, r # s PROVE Awake(r)'
      <4>1. One(r = s) = 0 /\ Installed(PortsOf(r)) \in Nat /\ PowerStays(r)
        BY <1>1, <2>8, <3>2, RefsParts DEF One, PowerStays, OthersKept
      <4>2. Installed(PortsOf(r))' = Installed(PortsOf(r))
        BY <3>1, <4>1
      <4> QED
        BY <4>1, <4>2, PowerKept
    <3>3. Awake(s)'
      <4>1. One(s = s) = 1 /\ ~serial'[s].poisoned
        BY <2>8 DEF One
      <4>2. Awake(s)
        BY <1>1 DEF Power, Awake
      <4> QED
        BY <2>8, <3>1, <4>1, <4>2 DEF Awake, SameState
    <3> QED
      BY <3>2, <3>3 DEF Power, Awake
  <2> QED
    BY <1>10, <2>1, <2>2, <2>4, <2>7, <2>8, InstallDoes DEF OtherTtys
<1>11. ASSUME NEW t \in Thread, PutLocked(t) PROVE Power'
  <2>1. SameTtys /\ SameDying /\ \A r \in Serial : PowerStays(r)
    BY <1>1, <1>2, <1>11, Typed, Constant, PutLockedDoes DEF PowerStays, SameTtys, SameDying,
       OtherTtys, OtherPorts, OthersKept, SamePower, SameState, LastPut
  <2> QED
    BY <1>1, <2>1, InstalledStays, PowerKept DEF Power, Awake
<1>12. ASSUME NEW t \in Thread, UnlockDisc(t) PROVE Power'
  <2>1. SameTtys /\ SameDying /\ \A r \in Serial : PowerStays(r)
    BY <1>1, <1>2, <1>12, Typed, Constant, UnlockDiscDoes DEF PowerStays, SameTtys,
       SameDying, OtherTtys, OtherPorts, OthersKept, SamePower, SameState, LastPut
  <2> QED
    BY <1>1, <2>1, InstalledStays, PowerKept DEF Power, Awake
<1>13. ASSUME NEW t \in Thread, PortOpen(t) PROVE Power'
  <2>1. SameTtys /\ SameDying /\ \A r \in Serial : PowerStays(r)
    BY <1>13, OpeningKeeps DEF PowerStays
  <2> QED
    BY <1>1, <2>1, InstalledStays, PowerKept DEF Power, Awake
<1>14. ASSUME NEW t \in Thread, PortActivate(t) PROVE Power'
  <2>1. SameTtys /\ SameDying /\ \A r \in Serial : PowerStays(r)
    BY <1>14, OpeningKeeps DEF PowerStays
  <2> QED
    BY <1>1, <2>1, InstalledStays, PowerKept DEF Power, Awake
<1>15. ASSUME NEW t \in Thread, Write(t) PROVE Power'
  <2>1. SameTtys /\ SameDying /\ \A r \in Serial : PowerStays(r)
    BY <1>1, <1>2, <1>15, Typed, Constant, WriteDoes DEF PowerStays, SameTtys, SameDying,
       OtherTtys, OtherPorts, OthersKept, SamePower, SameState, LastPut
  <2> QED
    BY <1>1, <2>1, InstalledStays, PowerKept DEF Power, Awake
<1>16. ASSUME NEW p \in Port, PortSoftint(p) PROVE Power'
  <2>1. SameTtys /\ SameDying /\ \A r \in Serial : PowerStays(r)
    BY <1>1, <1>2, <1>16, Typed, Constant, SoftintDoes DEF PowerStays, SameTtys, SameDying,
       OtherTtys, OtherPorts, OthersKept, SamePower, SameState, LastPut
  <2> QED
    BY <1>1, <2>1, InstalledStays, PowerKept DEF Power, Awake
<1>17. ASSUME NEW p \in Port, PortWork(p) PROVE Power'
  <2>1. SameTtys /\ SameDying /\ \A r \in Serial : PowerStays(r)
    BY <1>1, <1>2, <1>17, Typed, Constant, SoftintDoes DEF PowerStays, SameTtys, SameDying,
       OtherTtys, OtherPorts, OthersKept, SamePower, SameState, LastPut
  <2> QED
    BY <1>1, <2>1, InstalledStays, PowerKept DEF Power, Awake
<1>18. ASSUME NEW t \in Thread, WaitUntilSent(t) PROVE Power'
  <2>1. SameTtys /\ SameDying /\ \A r \in Serial : PowerStays(r)
    BY <1>1, <1>2, <1>18, Typed, Constant, DrainDoes DEF PowerStays, SameTtys, SameDying,
       OtherTtys, OtherPorts, OthersKept, SamePower, SameState, LastPut
  <2> QED
    BY <1>1, <2>1, InstalledStays, PowerKept DEF Power, Awake
<1>19. ASSUME NEW t \in Thread, Drained(t) PROVE Power'
  <2>1. SameTtys /\ SameDying /\ \A r \in Serial : PowerStays(r)
    BY <1>1, <1>2, <1>19, Typed, Constant, DrainDoes DEF PowerStays, SameTtys, SameDying,
       OtherTtys, OtherPorts, OthersKept, SamePower, SameState, LastPut
  <2> QED
    BY <1>1, <2>1, InstalledStays, PowerKept DEF Power, Awake
<1>20. ASSUME NEW t \in Thread, Close(t) PROVE Power'
  <2>1. UNCHANGED serial
    BY <1>1, <1>20, Typed, Constant, CloseGoes
  <2>2. \A r \in Serial : PowerStays(r) /\ Installed(PortsOf(r))' = Installed(PortsOf(r))
    BY <1>1, <1>20, <2>1, InstalledCloses DEF PowerStays
  <2> QED
    BY <2>2, PowerKept DEF Power, Awake
<1>21. ASSUME NEW m \in Minor, Hangup(m) PROVE Power'
  <2>1. SameTtys /\ SameDying /\ \A r \in Serial : PowerStays(r)
    BY <1>1, <1>2, <1>21, Typed, Constant, HangupDoes, HangUpGoes DEF PowerStays, SameTtys,
       SameDying, OtherTtys, OtherPorts, OthersKept, SamePower, SameState, LastPut
  <2> QED
    BY <1>1, <2>1, InstalledStays, PowerKept DEF Power, Awake
<1>22. ASSUME NEW p \in Port, Cleanup(p) PROVE Power'
  <2>1. PICK s \in Serial : s = p[1]
    BY <1>1, Typed
  <2>2. /\ SameTtys /\ port[p].dying > 0 /\ OtherPorts(p) /\ port'[p].dying = port[p].dying - 1
        /\ OthersKept(s) /\ SameState(s) /\ (serial'[s].poisoned <=> serial[s].poisoned)
        /\ serial'[s].pm = IF serial[s].disconnected THEN serial[s].pm ELSE serial[s].pm - 1
    BY <1>22, <2>1, CleanupDoes DEF SameTtys
  <2>3. \A r \in Serial : Installed(PortsOf(r))' = Installed(PortsOf(r)) - One(r = s)
    BY <1>1, <2>1, <2>2, InstalledDown
  <2>4. ASSUME NEW r \in Serial, r # s PROVE Awake(r)'
    <3>1. One(r = s) = 0 /\ Installed(PortsOf(r)) \in Nat /\ PowerStays(r)
      BY <1>1, <2>2, <2>4, RefsParts DEF One, PowerStays, OthersKept
    <3>2. Installed(PortsOf(r))' = Installed(PortsOf(r))
      BY <2>3, <3>1
    <3> QED
      BY <3>1, <3>2, PowerKept
  <2>5. Awake(s)'
    <3>1. One(s = s) = 1
      BY DEF One
    <3>2. Installed(PortsOf(s)) > 0 /\ Installed(PortsOf(s)) \in Nat
      BY <1>1, <2>1, <2>2, Referenced, RefsParts
    <3>3. Awake(s)
      BY <1>1 DEF Power, Awake
    <3> QED
      BY <2>2, <2>3, <3>1, <3>2, <3>3 DEF Awake, SameState
  <2> QED
    BY <2>4, <2>5 DEF Power, Awake
<1>23. CASE CleanupPut
  <2>1. SameTtys /\ SameDying /\ \A r \in Serial : PowerStays(r)
    BY <1>1, <1>2, <1>23, Typed, Constant, CleanupPutDoes DEF PowerStays, SameTtys,
       SameDying, OtherTtys, OtherPorts, OthersKept, SamePower, SameState, LastPut
  <2> QED
    BY <1>1, <2>1, InstalledStays, PowerKept DEF Power, Awake
<1>24. ASSUME NEW s \in Serial, Probe(s) PROVE Power'
  <2>1. SameTtys /\ SameDying /\ serial[s].mem = "none"
    BY <1>24, ProbeDoes DEF SameTtys, SameDying
  <2>2. UNCHANGED serial \/ (OthersKept(s) /\ serial'[s].pm = 0 /\ ~serial'[s].poisoned)
    BY <1>24, ProbeDoes, Probed
  <2>3. \A r \in Serial : r # s \/ UNCHANGED serial => PowerStays(r)
    BY <2>2 DEF PowerStays, OthersKept
  <2>4. Installed(PortsOf(s)) = 0
    <3>1. serial[s].kref = 0
      BY <1>1, <2>1, RefsParts
    <3> QED
      BY <1>1, <3>1, RefsParts DEF One
  <2>5. \A r \in Serial : Installed(PortsOf(r))' = Installed(PortsOf(r))
    BY <1>1, <2>1, InstalledStays
  <2>6. ASSUME serial'[s].pm = 0, ~serial'[s].poisoned PROVE Awake(s)'
    BY <2>4, <2>5, <2>6 DEF Awake
  <2>7. Awake(s)'
    BY <2>2, <2>3, <2>5, <2>6, PowerKept
  <2>8. \A r \in Serial : r # s => Awake(r)'
    BY <2>3, <2>5, PowerKept
  <2> QED
    BY <2>7, <2>8 DEF Power, Awake
<1>25. ASSUME NEW n \in 0 .. MaxPorts, Attach(n) PROVE Power'
  <2>1. PICK s \in Serial : s = pc["hub"].s
    BY <1>1, Typed, Constant
  <2>2. pc["hub"].at = "attach" /\ ~serial[s].disconnected
    BY <1>1, <1>25, <2>1 DEF Attach, At, Hub, Its
  <2>3. OthersKept(s) /\ SamePower(s) /\ SameTtys /\ SameDying
    BY <1>25, <2>1, AttachDoes DEF SameTtys, SameDying
  <2>4. \A r \in Serial : PowerStays(r)
    BY <2>2, <2>3 DEF PowerStays, SamePower, OthersKept
  <2> QED
    BY <1>1, <2>3, <2>4, InstalledStays, PowerKept DEF Power, Awake
<1>26. CASE ProbeError
  <2>1. SameTtys /\ SameDying /\ \A r \in Serial : PowerStays(r)
    BY <1>1, <1>2, <1>26, Typed, Constant, ProbeErrorDoes DEF PowerStays, SameTtys,
       SameDying, OtherTtys, OtherPorts, OthersKept, SamePower, SameState, LastPut
  <2> QED
    BY <1>1, <2>1, InstalledStays, PowerKept DEF Power, Awake
<1>27. CASE AllocateMinors
  <2>1. PICK s \in Serial : s = pc["hub"].s
    BY <1>1, Typed, Constant
  <2>2. pc["hub"].at = "minors"
    BY <1>27 DEF AllocateMinors, At
  <2>3. OthersKept(s) /\ SamePower(s) /\ SameState(s) /\ SameTtys /\ SameDying
    BY <1>27, <2>1, <2>2, MinorsDoes DEF SameTtys, SameDying
  <2>4. \A r \in Serial : PowerStays(r)
    BY <2>3 DEF PowerStays, SamePower, SameState, OthersKept
  <2> QED
    BY <1>1, <2>3, <2>4, InstalledStays, PowerKept DEF Power, Awake
<1>28. CASE Register
  <2>1. PICK s \in Serial : s = pc["hub"].s
    BY <1>1, Typed, Constant
  <2>2. pc["hub"].at = "register" /\ serial[s].pm = 0 /\ Installed(PortsOf(s)) = 0
    BY <1>1, <1>28, <2>1, ProbingAlone DEF Register, At, Hub, Its
  <2>3. OthersKept(s) /\ SamePower(s) /\ SameTtys /\ SameDying
    BY <1>28, <2>1, MinorsDoes DEF SameTtys, SameDying
  <2>4. \A r \in Serial : Installed(PortsOf(r))' = Installed(PortsOf(r))
    BY <1>1, <2>3, InstalledStays
  <2>5. Awake(s)'
    BY <2>2, <2>3, <2>4 DEF Awake, SamePower
  <2>6. \A r \in Serial : r # s => Awake(r)'
    BY <2>3, <2>4, PowerKept DEF PowerStays, OthersKept
  <2> QED
    BY <2>5, <2>6 DEF Power, Awake
<1>29. ASSUME NEW s \in Serial, Suspend(s) PROVE Power'
  <2>1. SameTtys /\ SameDying /\ \A r \in Serial : PowerStays(r)
    BY <1>1, <1>2, <1>29, Typed, Constant, SuspendDoes DEF PowerStays, SameTtys, SameDying,
       OtherTtys, OtherPorts, OthersKept, SamePower, SameState, LastPut
  <2> QED
    BY <1>1, <2>1, InstalledStays, PowerKept DEF Power, Awake
<1>30. ASSUME NEW s \in Serial, Resume(s) PROVE Power'
  <2>1. SameTtys /\ SameDying /\ \A r \in Serial : PowerStays(r)
    BY <1>1, <1>2, <1>30, Typed, Constant, SuspendDoes DEF PowerStays, SameTtys, SameDying,
       OtherTtys, OtherPorts, OthersKept, SamePower, SameState, LastPut
  <2> QED
    BY <1>1, <2>1, InstalledStays, PowerKept DEF Power, Awake
<1>31. CASE Unplug
  <2>1. SameTtys /\ SameDying /\ \A r \in Serial : PowerStays(r)
    BY <1>1, <1>2, <1>31, Typed, Constant DEF PowerStays, SameTtys, SameDying, OtherTtys,
       OtherPorts, OthersKept, SamePower, SameState, LastPut, Unplug
  <2> QED
    BY <1>1, <2>1, InstalledStays, PowerKept DEF Power, Awake
<1>32. CASE Deregister
  <2>1. SameTtys /\ SameDying /\ \A r \in Serial : PowerStays(r)
    BY <1>1, <1>2, <1>32, Typed, Constant DEF PowerStays, SameTtys, SameDying, OtherTtys,
       OtherPorts, OthersKept, SamePower, SameState, LastPut, Deregister
  <2> QED
    BY <1>1, <2>1, InstalledStays, PowerKept DEF Power, Awake
<1>33. CASE DeregisterEnd
  <2>1. SameTtys /\ SameDying /\ \A r \in Serial : PowerStays(r)
    BY <1>1, <1>2, <1>33, Typed, Constant DEF PowerStays, SameTtys, SameDying, OtherTtys,
       OtherPorts, OthersKept, SamePower, SameState, LastPut, DeregisterEnd
  <2> QED
    BY <1>1, <2>1, InstalledStays, PowerKept DEF Power, Awake
<1>34. ASSUME NEW s \in Serial, Disconnect(s) PROVE Power'
  <2>1. SameTtys /\ SameDying /\ \A r \in Serial : PowerStays(r)
    BY <1>1, <1>2, <1>34, Typed, Constant, DisconnectDoes DEF PowerStays, SameTtys,
       SameDying, OtherTtys, OtherPorts, OthersKept, SamePower, SameState, LastPut
  <2> QED
    BY <1>1, <2>1, InstalledStays, PowerKept DEF Power, Awake
<1>35. CASE DisconnectHangup
  <2>1. SameTtys /\ SameDying /\ \A r \in Serial : PowerStays(r)
    BY <1>1, <1>2, <1>35, Typed, Constant, DisconnectHangupDoes, HangUpGoes DEF PowerStays,
       SameTtys, SameDying, OtherTtys, OtherPorts, OthersKept, SamePower, SameState, LastPut
  <2> QED
    BY <1>1, <2>1, InstalledStays, PowerKept DEF Power, Awake
<1>36. CASE DisconnectPoison
  <2>1. SameTtys /\ SameDying /\ \A r \in Serial : PowerStays(r)
    BY <1>1, <1>2, <1>36, Typed, Constant, DisconnectPoisonDoes DEF PowerStays, SameTtys,
       SameDying, OtherTtys, OtherPorts, OthersKept, SamePower, SameState, LastPut
  <2> QED
    BY <1>1, <2>1, InstalledStays, PowerKept DEF Power, Awake
<1>37. CASE DisconnectCancel
  <2>1. SameTtys /\ SameDying /\ \A r \in Serial : PowerStays(r)
    BY <1>1, <1>2, <1>37, Typed, Constant, DisconnectCancelDoes DEF PowerStays, SameTtys,
       SameDying, OtherTtys, OtherPorts, OthersKept, SamePower, SameState, LastPut
  <2> QED
    BY <1>1, <2>1, InstalledStays, PowerKept DEF Power, Awake
<1>38. CASE DisconnectEnd
  <2>1. SameTtys /\ SameDying /\ \A r \in Serial : PowerStays(r)
    BY <1>1, <1>2, <1>38, Typed, Constant, DisconnectEndDoes DEF PowerStays, SameTtys,
       SameDying, OtherTtys, OtherPorts, OthersKept, SamePower, SameState, LastPut
  <2> QED
    BY <1>1, <2>1, InstalledStays, PowerKept DEF Power, Awake
<1> QED
  BY <1>3, <1>4, <1>5, <1>6, <1>7, <1>8, <1>9, <1>10, <1>11, <1>12, <1>13, <1>14, <1>15,
     <1>16, <1>17, <1>18, <1>19, <1>20, <1>21, <1>22, <1>23, <1>24, <1>25, <1>26, <1>27,
     <1>28, <1>29, <1>30, <1>31, <1>32, <1>33, <1>34, <1>35, <1>36, <1>37, <1>38 DEF Next,
     ThreadStep, Destroy, DisconnectStep, ProbeStep

(* The lookups of an object, while the threads stay, and when one takes or *)
(* puts back a reference.                                                  *)
Looking(t) == pc[t].at \in {"install", "put"}
LookStill(t) == (Looking(t)' <=> Looking(t)) /\ (Looking(t) => pc'[t].s = pc[t].s)

LEMMA LookupsKept ==
  ASSUME \A t \in Thread : LookStill(t)
  PROVE  \A s \in Serial : LookupsOf(s)' = LookupsOf(s)
<1>1. \A s \in Serial : LookupsOf(s) = {t \in Thread : Looking(t) /\ pc[t].s = s}
  BY DEF LookupsOf, Looking
<1>2. \A s \in Serial : LookupsOf(s)' = {t \in Thread : Looking(t)' /\ pc'[t].s = s}
  BY DEF LookupsOf, Looking
<1>3. \A t \in Thread : \A s : Looking(t)' /\ pc'[t].s = s <=> Looking(t) /\ pc[t].s = s
  BY DEF LookStill
<1>4. ASSUME NEW s \in Serial PROVE LookupsOf(s)' = LookupsOf(s)
  <2>1. {t \in Thread : Looking(t)' /\ pc'[t].s = s} = {t \in Thread : Looking(t) /\ pc[t].s = s}
    BY <1>3
  <2> QED
    BY <1>1, <1>2, <2>1
<1> QED
  BY <1>4

LEMMA LookupsChange ==
  ASSUME IInv, NEW t \in Thread, Others(t), NEW s \in Serial,
         Looking(t) => pc[t].s = s, Looking(t)' => pc'[t].s = s
  PROVE  /\ \A r \in Serial : r # s => LookupsOf(r)' = LookupsOf(r)
         /\ ~Looking(t) /\ Looking(t)' => Cardinality(LookupsOf(s)') = Cardinality(LookupsOf(s)) + 1
         /\ Looking(t) /\ ~Looking(t)' => Cardinality(LookupsOf(s)') = Cardinality(LookupsOf(s)) - 1
         /\ ~Looking(t) /\ ~Looking(t)' => LookupsOf(s)' = LookupsOf(s)
<1>1. \A r \in Serial : LookupsOf(r) = {u \in Thread : Looking(u) /\ pc[u].s = r}
  BY DEF LookupsOf, Looking
<1>2. \A r \in Serial : LookupsOf(r)' = {u \in Thread : Looking(u)' /\ pc'[u].s = r}
  BY DEF LookupsOf, Looking
<1>3. \A u \in Thread : u # t => (Looking(u)' <=> Looking(u)) /\ pc'[u] = pc[u]
  BY Constant DEF Others, Looking
<1>4. ASSUME NEW r \in Serial, r # s PROVE LookupsOf(r)' = LookupsOf(r)
  <2>1. \A u \in Thread : Looking(u)' /\ pc'[u].s = r <=> Looking(u) /\ pc[u].s = r
    BY <1>3, <1>4
  <2> QED
    BY <1>1, <1>2, <2>1
<1>5. IsFiniteSet(LookupsOf(s))
  BY RefsParts DEF IInv
<1>6. ASSUME ~Looking(t), Looking(t)' PROVE Cardinality(LookupsOf(s)') = Cardinality(LookupsOf(s)) + 1
  <2>1. t \notin LookupsOf(s) /\ LookupsOf(s)' = LookupsOf(s) \union {t}
    BY <1>1, <1>2, <1>3, <1>6
  <2> QED
    BY <1>5, <2>1, OneMore
<1>7. ASSUME Looking(t), ~Looking(t)' PROVE Cardinality(LookupsOf(s)') = Cardinality(LookupsOf(s)) - 1
  <2>1. t \in LookupsOf(s) /\ LookupsOf(s)' = LookupsOf(s) \ {t}
    BY <1>1, <1>2, <1>3, <1>7
  <2> QED
    BY <1>5, <2>1, OneLess
<1>8. ASSUME ~Looking(t), ~Looking(t)' PROVE LookupsOf(s)' = LookupsOf(s)
  <2>1. \A u \in Thread : Looking(u)' /\ pc'[u].s = s <=> Looking(u) /\ pc[u].s = s
    BY <1>3, <1>8
  <2> QED
    BY ONLY <1>1, <1>2, <2>1, s \in Serial
<1> QED
  BY <1>4, <1>6, <1>7, <1>8

(* The references, while those who have them stay.                         *)
Exact(s) == serial[s].kref = Refs(s) /\ (serial[s].kref > 0 => serial[s].mem = "alive")
Stacked(s) == serial[s].bound \/ Probing(s)
RefsStay(s) == /\ SameKref(s) /\ (serial[s].kref > 0 => serial'[s].mem = serial[s].mem)
               /\ CleaningUp(s)' <=> CleaningUp(s)
               /\ Stacked(s)' <=> Stacked(s)
ModuleStays == /\ module'.refs = module.refs
               /\ pc'["worker"].at # "idle" <=> pc["worker"].at # "idle"
               /\ ProbeHoldsModule' <=> ProbeHoldsModule

LEMMA RefsSum ==
  ASSUME NEW s \in Serial
  PROVE  /\ Refs(s) = Installed(PortsOf(s)) + Cardinality(LookupsOf(s))
                      + One(CleaningUp(s)) + One(Stacked(s))
         /\ Refs(s)' = Installed(PortsOf(s))' + Cardinality(LookupsOf(s)')
                       + One(CleaningUp(s)') + One(Stacked(s)')
  BY DEF Refs, Stacked, One

LEMMA RefsKept ==
  ASSUME IInv, NEW s \in Serial, RefsStay(s), LookupsOf(s)' = LookupsOf(s),
         Installed(PortsOf(s))' = Installed(PortsOf(s))
  PROVE  Exact(s)'
<1>1. Exact(s)
  BY DEF IInv, Counts, Exact
<1>2. One(CleaningUp(s)') = One(CleaningUp(s)) /\ One(Stacked(s)') = One(Stacked(s))
  BY DEF RefsStay, One
<1>3. Refs(s)' = Refs(s)
  BY <1>2, RefsSum
<1> QED
  BY <1>1, <1>3 DEF Exact, RefsStay, SameKref

LEMMA ModuleKept ==
  ASSUME IInv, ModuleStays, Installed(Port)' = Installed(Port)
  PROVE  ModuleRefsExact'
<1>1. ModuleRefsExact
  BY DEF IInv, Counts
<1>2. /\ One(pc'["worker"].at # "idle") = One(pc["worker"].at # "idle")
      /\ One(ProbeHoldsModule') = One(ProbeHoldsModule)
  BY DEF ModuleStays, One
<1>3. ModuleRefsExact' <=> module'.refs = Installed(Port)' + One(pc'["worker"].at # "idle")
                                          + One(ProbeHoldsModule')
  BY DEF ModuleRefsExact, One
<1> QED
  BY <1>1, <1>2, <1>3 DEF ModuleStays, ModuleRefsExact

LEMMA CountsKept ==
  ASSUME IInv, TypeOK', SameTtys, SameDying, ModuleStays, \A t \in Thread : LookStill(t),
         \A s \in Serial : RefsStay(s)
  PROVE  Counts'
<1>1. \A s \in Serial : Exact(s)'
  BY LookupsKept, InstalledStays, RefsKept
<1>2. ModuleRefsExact'
  BY InstalledStays, ModuleKept
<1> QED
  BY <1>1, <1>2 DEF Counts, Exact

LEMMA ModuleSum ==
  /\ ModuleRefsExact' <=> module'.refs = Installed(Port)' + One(pc'["worker"].at # "idle")
                                         + One(ProbeHoldsModule')
  /\ ModuleRefsExact <=> module.refs = Installed(Port) + One(pc["worker"].at # "idle")
                                       + One(ProbeHoldsModule)
  BY DEF ModuleRefsExact, One

(* The counts, when a step adds to their parts.                            *)
LEMMA ExactBy ==
  ASSUME IInv, NEW s \in Serial, NEW i \in Int, NEW c \in Int, NEW b \in Int,
         LookupsOf(s)' = LookupsOf(s), Installed(PortsOf(s))' = Installed(PortsOf(s)) + i,
         One(CleaningUp(s)') = One(CleaningUp(s)) + c, One(Stacked(s)') = One(Stacked(s)) + b,
         serial'[s].kref = serial[s].kref + i + c + b,
         serial'[s].kref > 0 => serial'[s].mem = "alive"
  PROVE  Exact(s)'
<1>1. One(CleaningUp(s)) \in {0, 1} /\ One(Stacked(s)) \in {0, 1}
  BY DEF One
<1>2. Installed(PortsOf(s)) \in Nat /\ Cardinality(LookupsOf(s)) \in Nat /\ serial[s].kref = Refs(s)
  BY RefsParts DEF IInv, Counts
<1>3. Refs(s)' = Refs(s) + i + c + b
  BY <1>1, <1>2, RefsSum
<1> QED
  BY <1>2, <1>3 DEF Exact

LEMMA ModuleBy ==
  ASSUME IInv, NEW i \in Int, NEW w \in Int, NEW h \in Int,
         Installed(Port)' = Installed(Port) + i,
         One(pc'["worker"].at # "idle") = One(pc["worker"].at # "idle") + w,
         One(ProbeHoldsModule') = One(ProbeHoldsModule) + h,
         module'.refs = module.refs + i + w + h
  PROVE  ModuleRefsExact'
<1>1. One(pc["worker"].at # "idle") \in {0, 1} /\ One(ProbeHoldsModule) \in {0, 1}
  BY DEF One
<1>2. Installed(Port) \in Nat /\ module.refs = Installed(Port) + One(pc["worker"].at # "idle")
                                               + One(ProbeHoldsModule)
  BY ModuleParts DEF IInv
<1> QED
  BY <1>1, <1>2, ModuleSum

LEMMA CountsBut ==
  ASSUME IInv, NEW s \in Serial, \A t \in Thread : LookStill(t), Exact(s)', ModuleRefsExact',
         \A r \in Serial : r # s => /\ RefsStay(r)
                                    /\ Installed(PortsOf(r))' = Installed(PortsOf(r))
  PROVE  Counts'
<1>1. \A r \in Serial : r # s => Exact(r)'
  BY LookupsKept, RefsKept
<1> QED
  BY <1>1 DEF Counts, Exact

LEMMA CountsStep ==
  ASSUME IInv, Next
  PROVE  Counts'
<1>1. TypeOK /\ TypeOK' /\ Counts /\ Hub /\ Places /\ Ttys
  BY TypeStep DEF IInv
<1>2. pc["hub"].s \in Serial /\ pc["worker"].s \in Serial
  BY <1>1, Typed, Constant
<1>3. ASSUME NEW a \in Actor, ReleaseMinors(a) PROVE Counts'
  <2>1. PICK s \in Serial : s = pc[a].s
    BY <1>1, Typed, Constant
  <2>2. /\ a \in {"hub", "worker"} /\ pc[a].at = "destroy" /\ Moved(a, "free") /\ OthersKept(s)
        /\ SameName(s) /\ SameKref(s) /\ SameState(s) /\ UNCHANGED <<ttys, port, module>>
    BY <1>3, <2>1, ReleaseMinorsDoes
  <2>3. ModuleStays /\ \A u \in Thread : LookStill(u)
    BY <2>2, Constant DEF ModuleStays, LookStill, Looking, ProbeHoldsModule, Moved, Others, SameLocals
  <2>4. \A r \in Serial : (CleaningUp(r)' <=> CleaningUp(r)) /\ (Probing(r)' <=> Probing(r))
    BY <2>2, Constant DEF CleaningUp, Probing, Moved, Others, SameLocals
  <2>5. \A r \in Serial : RefsStay(r)
    BY <2>2, <2>4 DEF RefsStay, Stacked, OthersKept, SameKref, SameName, SameState
  <2> QED
    BY <1>1, <2>2, <2>3, <2>5, CountsKept DEF SameTtys, SameDying
<1>4. ASSUME NEW a \in Actor, DestroySerial(a) PROVE Counts'
  <2>1. PICK s \in Serial : s = pc[a].s
    BY <1>1, Typed, Constant
  <2>2. /\ a \in {"hub", "worker"} /\ pc[a].at = "free" /\ Moved(a, pc[a].then) /\ OthersKept(s)
        /\ SameKref(s) /\ SameState(s) /\ UNCHANGED <<ttys, port, module>>
    BY <1>4, <2>1, DestroySerialDoes
  <2>3. serial[s].kref = 0
    BY <2>1, <2>2, Constant, DestroyingAlone DEF Destroying
  <2>4. pc[a].then \in {"idle", "module_put"} /\ (a = "worker" => pc[a].then = "module_put")
    BY <1>1, <2>2 DEF Places, Destroying
  <2>5. ModuleStays /\ \A u \in Thread : LookStill(u)
    BY <2>2, <2>4, Constant DEF ModuleStays, LookStill, Looking, ProbeHoldsModule, Moved, Others,
       SameLocals
  <2>6. \A r \in Serial : (CleaningUp(r)' <=> CleaningUp(r)) /\ (Probing(r)' <=> Probing(r))
    BY <2>2, <2>4, Constant DEF CleaningUp, Probing, Moved, Others, SameLocals
  <2>7. \A r \in Serial : RefsStay(r)
    BY <2>2, <2>3, <2>6 DEF RefsStay, Stacked, OthersKept, SameKref, SameState
  <2> QED
    BY <1>1, <2>2, <2>5, <2>7, CountsKept DEF SameTtys, SameDying
<1>5. ASSUME NEW a \in Actor, ModulePut(a) PROVE Counts'
  <2>1. /\ a \in {"hub", "worker"} /\ pc[a].at = "module_put" /\ Others(a) /\ pc'[a].at = "idle"
        /\ pc'[a].s = pc[a].s /\ module'.refs = module.refs - 1 /\ UNCHANGED <<serial, ttys, port>>
    BY <1>5, ModulePutDoes
  <2>2. \A u \in Thread : LookStill(u)
    BY <2>1, Constant DEF LookStill, Looking, Others
  <2>3. \A r \in Serial : RefsStay(r)
    BY <2>1, Constant DEF RefsStay, SameKref, CleaningUp, Stacked, Probing, Others
  <2>4. SameTtys /\ SameDying
    BY <2>1 DEF SameTtys, SameDying
  <2>5. /\ \A s \in Serial : Installed(PortsOf(s))' = Installed(PortsOf(s))
        /\ Installed(Port)' = Installed(Port)
    BY <1>1, <2>4, InstalledStays
  <2>6. ModuleRefsExact'
    <3>1. Installed(Port) \in Nat /\ module.refs \in Nat
      BY <1>1, ModuleParts
    <3>2. Installed(Port)' = Installed(Port) + 0
      BY <2>5, <3>1
    <3>3. CASE a = "hub"
      <4>1. /\ One(pc'["worker"].at # "idle") = One(pc["worker"].at # "idle") + 0
            /\ One(ProbeHoldsModule') = One(ProbeHoldsModule) + (-1)
        BY <2>1, <3>3, Constant DEF One, ProbeHoldsModule, Others
      <4>2. module'.refs = module.refs + 0 + 0 + (-1)
        BY <2>1, <3>1
      <4> QED
        BY <3>2, <4>1, <4>2, ModuleBy
    <3>4. CASE a = "worker"
      <4>1. /\ One(pc'["worker"].at # "idle") = One(pc["worker"].at # "idle") + (-1)
            /\ One(ProbeHoldsModule') = One(ProbeHoldsModule) + 0
        BY <2>1, <3>4, Constant DEF One, ProbeHoldsModule, Others
      <4>2. module'.refs = module.refs + 0 + (-1) + 0
        BY <2>1, <3>1
      <4> QED
        BY <3>2, <4>1, <4>2, ModuleBy
    <3> QED
      BY <2>1, <3>3, <3>4
  <2>7. \A s \in Serial : Exact(s)'
    BY <2>2, <2>3, <2>5, LookupsKept, RefsKept
  <2> QED
    BY <2>6, <2>7 DEF Counts, Exact
<1>6. ASSUME NEW t \in Thread, NEW m \in Minor, TtyOpen(t, m) PROVE Counts'
  <2>1. SameTtys /\ SameDying
    BY <1>1, <1>2, <1>6, Typed, Constant, TtyOpenDoes DEF SameTtys, SameDying, OtherTtys,
       OtherPorts
  <2>2. ModuleStays /\ \A u \in Thread : LookStill(u)
    BY <1>1, <1>2, <1>6, Typed, Constant, TtyOpenDoes DEF ModuleStays, LookStill, Looking,
       ProbeHoldsModule, LastPut, Others, Moved, SameLocals, Became, Idle, HungUp
  <2>3. \A r \in Serial : RefsStay(r)
    BY <1>1, <1>2, <1>6, Typed, Constant, TtyOpenDoes DEF RefsStay, Stacked, Probing,
       CleaningUp, OthersKept, SameKref, SameName, SameState, LastPut, Others, Moved,
       SameLocals, Became, Idle, HungUp
  <2> QED
    BY <1>1, <2>1, <2>2, <2>3, CountsKept
<1>7. ASSUME NEW t \in Thread, NEW m \in Minor, ProcShow(t, m) PROVE Counts'
  <2>1. SameTtys /\ SameDying
    BY <1>1, <1>2, <1>7, Typed, Constant, ProcShowDoes DEF SameTtys, SameDying, OtherTtys,
       OtherPorts
  <2>2. ModuleStays /\ \A u \in Thread : LookStill(u)
    BY <1>1, <1>2, <1>7, Typed, Constant, ProcShowDoes DEF ModuleStays, LookStill, Looking,
       ProbeHoldsModule, LastPut, Others, Moved, SameLocals, Became, Idle, HungUp
  <2>3. \A r \in Serial : RefsStay(r)
    BY <1>1, <1>2, <1>7, Typed, Constant, ProcShowDoes DEF RefsStay, Stacked, Probing,
       CleaningUp, OthersKept, SameKref, SameName, SameState, LastPut, Others, Moved,
       SameLocals, Became, Idle, HungUp
  <2> QED
    BY <1>1, <2>1, <2>2, <2>3, CountsKept
<1>8. ASSUME NEW t \in Thread, Find(t) PROVE Counts'
  <2>1. SameTtys /\ SameDying
    BY <1>1, <1>2, <1>8, Typed, Constant, FindDoes DEF SameTtys, SameDying, OtherTtys,
       OtherPorts
  <2>2. ModuleStays /\ \A u \in Thread : LookStill(u)
    BY <1>1, <1>2, <1>8, Typed, Constant, FindDoes DEF ModuleStays, LookStill, Looking,
       ProbeHoldsModule, LastPut, Others, Moved, SameLocals, Became, Idle, HungUp
  <2>3. \A r \in Serial : RefsStay(r)
    BY <1>1, <1>2, <1>8, Typed, Constant, FindDoes DEF RefsStay, Stacked, Probing,
       CleaningUp, OthersKept, SameKref, SameName, SameState, LastPut, Others, Moved,
       SameLocals, Became, Idle, HungUp
  <2> QED
    BY <1>1, <2>1, <2>2, <2>3, CountsKept
<1>9. ASSUME NEW t \in Thread, GetByMinor(t) PROVE Counts'
  <2>1. PICK s \in Serial : s = pc[t].s
    BY <1>1, Typed, Constant
  <2>2. /\ Others(t) /\ UNCHANGED <<ttys, port, module>> /\ pc[t].at = "get"
        /\ pc[t].then \in {"install", "put"}
        /\ \/ pc'[t] = Idle /\ UNCHANGED serial
           \/ /\ pc'[t].at = pc[t].then /\ pc'[t].s = s /\ ~serial[s].disconnected
              /\ OthersKept(s) /\ serial'[s].kref = serial[s].kref + 1 /\ SameName(s) /\ SameState(s)
    BY <1>1, <1>9, <2>1, GetByMinorDoes DEF Places, Became, Moved, SameLocals
  <2>3. /\ \A r \in Serial : (CleaningUp(r)' <=> CleaningUp(r)) /\ (Probing(r)' <=> Probing(r))
        /\ pc'["worker"].at # "idle" <=> pc["worker"].at # "idle"
        /\ ProbeHoldsModule' <=> ProbeHoldsModule
    BY <2>2, Constant DEF Others, CleaningUp, Probing, ProbeHoldsModule
  <2>4. SameTtys /\ SameDying /\ ModuleStays
    BY <2>2, <2>3 DEF SameTtys, SameDying, ModuleStays
  <2>5. CASE pc'[t] = Idle /\ UNCHANGED serial
    <3>1. LookStill(t)
      BY <2>2, <2>5 DEF LookStill, Looking, Idle
    <3>2. (\A u \in Thread : LookStill(u)) /\ \A r \in Serial : RefsStay(r)
      BY <2>2, <2>3, <2>5, <3>1, Constant DEF LookStill, Looking, Others, RefsStay, SameKref, Stacked
    <3> QED
      BY <1>1, <2>4, <3>2, CountsKept
  <2>6. CASE /\ pc'[t].at = pc[t].then /\ pc'[t].s = s /\ ~serial[s].disconnected
             /\ OthersKept(s) /\ serial'[s].kref = serial[s].kref + 1 /\ SameName(s) /\ SameState(s)
    <3>1. ~Looking(t) /\ Looking(t)'
      BY <2>2, <2>6 DEF Looking
    <3>2. /\ \A r \in Serial : r # s => LookupsOf(r)' = LookupsOf(r)
          /\ Cardinality(LookupsOf(s)') = Cardinality(LookupsOf(s)) + 1
      BY <2>1, <2>2, <2>6, <3>1, LookupsChange
    <3>3. \A r \in Serial : Installed(PortsOf(r))' = Installed(PortsOf(r))
      BY <1>1, <2>4, InstalledStays
    <3>4. ASSUME NEW r \in Serial, r # s PROVE Exact(r)'
      <4>1. RefsStay(r)
        BY <2>3, <2>6, <3>4 DEF RefsStay, OthersKept, SameKref, Stacked
      <4> QED
        BY <3>2, <3>3, <3>4, <4>1, RefsKept
    <3>5. Exact(s)'
      <4>1. One(CleaningUp(s)') = One(CleaningUp(s)) /\ One(Stacked(s)') = One(Stacked(s))
        BY <2>3, <2>6 DEF One, Stacked, SameState
      <4>2. Installed(PortsOf(s)) \in Nat /\ Cardinality(LookupsOf(s)) \in Nat /\ serial[s].kref = Refs(s)
        BY <1>1, RefsParts DEF Counts
      <4>3. One(CleaningUp(s)) \in {0, 1} /\ One(Stacked(s)) \in {0, 1}
        BY DEF One
      <4>4. Refs(s)' = Refs(s) + 1
        BY <3>2, <3>3, <4>1, <4>2, <4>3, RefsSum
      <4>5. serial[s].mem = "alive"
        BY <2>1, <2>2, LookupFinds DEF Its
      <4> QED
        BY <2>6, <4>2, <4>4, <4>5 DEF Exact, SameName
    <3>6. ModuleRefsExact'
      BY <1>1, <2>4, InstalledStays, ModuleKept
    <3> QED
      BY <3>4, <3>5, <3>6 DEF Counts, Exact
  <2> QED
    BY <2>2, <2>5, <2>6
<1>10. ASSUME NEW t \in Thread, Install(t) PROVE Counts'
  <2>1. PICK s \in Serial : s = pc[t].s
    BY <1>1, Typed, Constant
  <2>2. /\ Others(t) /\ UNCHANGED port /\ pc[t].at = "install" /\ pc'[t].s = s
        /\ \/ pc'[t].at = "put" /\ UNCHANGED <<serial, ttys, module>>
           \/ /\ pc'[t].at = "port_open" /\ module'.refs = module.refs + 1
              /\ OthersKept(s) /\ SameKref(s) /\ SameName(s) /\ SameState(s)
    BY <1>1, <1>10, <2>1, InstallDoes, Typed, Constant DEF Moved, SameLocals
  <2>3. /\ \A r \in Serial : (CleaningUp(r)' <=> CleaningUp(r)) /\ (Probing(r)' <=> Probing(r))
        /\ pc'["worker"].at # "idle" <=> pc["worker"].at # "idle"
        /\ ProbeHoldsModule' <=> ProbeHoldsModule
    BY <2>2, Constant DEF Others, CleaningUp, Probing, ProbeHoldsModule
  <2>4. SameDying
    BY <2>2 DEF SameDying
  <2>5. CASE pc'[t].at = "put" /\ UNCHANGED <<serial, ttys, module>>
    <3>1. LookStill(t)
      BY <2>1, <2>2, <2>5 DEF LookStill, Looking
    <3>2. SameTtys /\ ModuleStays /\ (\A u \in Thread : LookStill(u)) /\ \A r \in Serial : RefsStay(r)
      BY <2>2, <2>3, <2>5, <3>1, Constant DEF LookStill, Looking, Others, RefsStay, SameKref, Stacked,
         SameTtys, ModuleStays
    <3> QED
      BY <1>1, <2>4, <3>2, CountsKept
  <2>6. CASE /\ pc'[t].at = "port_open" /\ module'.refs = module.refs + 1
             /\ OthersKept(s) /\ SameKref(s) /\ SameName(s) /\ SameState(s)
    <3>1. PICK m \in Minor : m = pc[t].m
      BY <1>1, Typed, Constant
    <3>2. PortOf(t) \in Port /\ Installing(t)
      BY <1>1, <2>2, LookupFinds DEF Places, Installing
    <3>3. PICK p \in Port : p = PortOf(t) /\ p[1] = s
      BY <2>1, <3>2 DEF PortOf
    <3>4. ttys[m] = NULL /\ OtherTtys(m) /\ ttys'[m] # NULL /\ ttys'[m].port = p
      <4>1. ttys[m] = NULL
        BY <1>1, <2>2, <3>1, <3>2 DEF Ttys
      <4>2. OtherTtys(m) /\ ttys'[m] # NULL /\ ttys'[m].port = p
        BY <1>10, <2>1, <2>6, <3>1, <3>3, InstallDoes DEF Moved, OtherTtys
      <4> QED
        BY <4>1, <4>2
    <3>5. /\ \A r \in Serial : Installed(PortsOf(r))' = Installed(PortsOf(r)) + One(r = s)
          /\ Installed(Port)' = Installed(Port) + 1
      BY <1>1, <2>4, <3>3, <3>4, InstalledUp
    <3>6. Looking(t) /\ ~Looking(t)'
      BY <2>2, <2>6 DEF Looking
    <3>7. /\ \A r \in Serial : r # s => LookupsOf(r)' = LookupsOf(r)
          /\ Cardinality(LookupsOf(s)') = Cardinality(LookupsOf(s)) - 1
      BY <2>1, <2>2, <3>6, LookupsChange
    <3>8. ASSUME NEW r \in Serial, r # s PROVE Exact(r)'
      <4>1. RefsStay(r)
        BY <2>3, <2>6, <3>8 DEF RefsStay, OthersKept, SameKref, Stacked
      <4>2. Installed(PortsOf(r))' = Installed(PortsOf(r))
        <5>1. One(r = s) = 0 /\ Installed(PortsOf(r)) \in Nat
          BY <1>1, <3>8, RefsParts DEF One
        <5> QED
          BY <3>5, <5>1
      <4> QED
        BY <3>7, <3>8, <4>1, <4>2, RefsKept
    <3>9. Exact(s)'
      <4>1. One(CleaningUp(s)') = One(CleaningUp(s)) /\ One(Stacked(s)') = One(Stacked(s)) /\ One(s = s) = 1
        BY <2>3, <2>6 DEF One, Stacked, SameState
      <4>2. Installed(PortsOf(s)) \in Nat /\ Cardinality(LookupsOf(s)) \in Nat /\ Exact(s)
        BY <1>1, RefsParts DEF Counts, Exact
      <4>3. One(CleaningUp(s)) \in {0, 1} /\ One(Stacked(s)) \in {0, 1}
        BY DEF One
      <4>4. Refs(s)' = Refs(s)
        BY <3>5, <3>7, <4>1, <4>2, <4>3, RefsSum
      <4> QED
        BY <2>6, <4>2, <4>4 DEF Exact, SameName, SameKref
    <3>10. ModuleRefsExact'
      <4>1. /\ One(pc'["worker"].at # "idle") = One(pc["worker"].at # "idle")
            /\ One(ProbeHoldsModule') = One(ProbeHoldsModule)
        BY <2>3 DEF One
      <4>2. One(pc["worker"].at # "idle") \in {0, 1} /\ One(ProbeHoldsModule) \in {0, 1}
        BY DEF One
      <4>3. /\ Installed(Port) \in Nat
            /\ module.refs = Installed(Port) + One(pc["worker"].at # "idle") + One(ProbeHoldsModule)
        BY <1>1, ModuleParts
      <4> QED
        BY <2>6, <3>5, <4>1, <4>2, <4>3, ModuleSum
    <3> QED
      BY <3>8, <3>9, <3>10 DEF Counts, Exact
  <2> QED
    BY <2>2, <2>5, <2>6
<1>11. ASSUME NEW t \in Thread, PutLocked(t) PROVE Counts'
  <2>1. PICK s \in Serial : s = pc[t].s
    BY <1>1, Typed, Constant
  <2>2. /\ Others(t) /\ UNCHANGED <<ttys, port, module>> /\ pc[t].at = "put" /\ pc'[t].at = "unlock"
        /\ OthersKept(s) /\ serial'[s].kref = serial[s].kref - 1 /\ serial[s].kref > 1
        /\ SameName(s) /\ SameState(s)
    BY <1>1, <1>11, <2>1, PutLockedDoes
  <2>3. /\ \A r \in Serial : (CleaningUp(r)' <=> CleaningUp(r)) /\ (Probing(r)' <=> Probing(r))
        /\ pc'["worker"].at # "idle" <=> pc["worker"].at # "idle"
        /\ ProbeHoldsModule' <=> ProbeHoldsModule
    BY <2>2, Constant DEF Others, CleaningUp, Probing, ProbeHoldsModule
  <2>4. SameTtys /\ SameDying /\ ModuleStays
    BY <2>2, <2>3 DEF SameTtys, SameDying, ModuleStays
  <2>5. Looking(t) /\ ~Looking(t)'
    BY <2>2 DEF Looking
  <2>6. /\ \A r \in Serial : r # s => LookupsOf(r)' = LookupsOf(r)
        /\ Cardinality(LookupsOf(s)') = Cardinality(LookupsOf(s)) - 1
    BY <2>1, <2>2, <2>5, LookupsChange
  <2>7. \A r \in Serial : Installed(PortsOf(r))' = Installed(PortsOf(r))
    BY <1>1, <2>4, InstalledStays
  <2>8. ASSUME NEW r \in Serial, r # s PROVE Exact(r)'
    <3>1. RefsStay(r)
      BY <2>2, <2>3, <2>8 DEF RefsStay, OthersKept, SameKref, Stacked
    <3> QED
      BY <2>6, <2>7, <2>8, <3>1, RefsKept
  <2>9. Exact(s)'
    <3>1. One(CleaningUp(s)') = One(CleaningUp(s)) /\ One(Stacked(s)') = One(Stacked(s))
      BY <2>2, <2>3 DEF One, Stacked, SameState
    <3>2. Installed(PortsOf(s)) \in Nat /\ Cardinality(LookupsOf(s)) \in Nat /\ Exact(s)
          /\ serial[s].kref \in Nat
      BY <1>1, RefsParts DEF Counts, Exact
    <3>3. One(CleaningUp(s)) \in {0, 1} /\ One(Stacked(s)) \in {0, 1}
      BY DEF One
    <3>4. Refs(s)' = Refs(s) - 1
      BY <2>6, <2>7, <3>1, <3>2, <3>3, RefsSum
    <3> QED
      BY <2>2, <3>2, <3>4 DEF Exact, SameName
  <2>10. ModuleRefsExact'
    BY <1>1, <2>4, InstalledStays, ModuleKept
  <2> QED
    BY <2>8, <2>9, <2>10 DEF Counts, Exact
<1>12. ASSUME NEW t \in Thread, UnlockDisc(t) PROVE Counts'
  <2>1. SameTtys /\ SameDying
    BY <1>1, <1>2, <1>12, Typed, Constant, UnlockDiscDoes DEF SameTtys, SameDying, OtherTtys,
       OtherPorts
  <2>2. ModuleStays /\ \A u \in Thread : LookStill(u)
    BY <1>1, <1>2, <1>12, Typed, Constant, UnlockDiscDoes DEF ModuleStays, LookStill,
       Looking, ProbeHoldsModule, LastPut, Others, Moved, SameLocals, Became, Idle, HungUp
  <2>3. \A r \in Serial : RefsStay(r)
    BY <1>1, <1>2, <1>12, Typed, Constant, UnlockDiscDoes DEF RefsStay, Stacked, Probing,
       CleaningUp, OthersKept, SameKref, SameName, SameState, LastPut, Others, Moved,
       SameLocals, Became, Idle, HungUp
  <2> QED
    BY <1>1, <2>1, <2>2, <2>3, CountsKept
<1>13. ASSUME NEW t \in Thread, PortOpen(t) PROVE Counts'
  <2>1. /\ SameTtys /\ SameDying /\ UNCHANGED <<serial, module>> /\ Others(t)
        /\ pc[t].at \in {"port_open", "activate"} /\ pc'[t].at \in {"activate", "running", "close"}
    BY <1>13, OpeningKeeps
  <2>2. ModuleStays /\ (\A u \in Thread : LookStill(u)) /\ \A r \in Serial : RefsStay(r)
    BY <2>1, Constant DEF ModuleStays, LookStill, Looking, ProbeHoldsModule, RefsStay, Stacked,
       Probing, CleaningUp, SameKref, Others
  <2> QED
    BY <1>1, <2>1, <2>2, CountsKept
<1>14. ASSUME NEW t \in Thread, PortActivate(t) PROVE Counts'
  <2>1. /\ SameTtys /\ SameDying /\ UNCHANGED <<serial, module>> /\ Others(t)
        /\ pc[t].at \in {"port_open", "activate"} /\ pc'[t].at \in {"activate", "running", "close"}
    BY <1>14, OpeningKeeps
  <2>2. ModuleStays /\ (\A u \in Thread : LookStill(u)) /\ \A r \in Serial : RefsStay(r)
    BY <2>1, Constant DEF ModuleStays, LookStill, Looking, ProbeHoldsModule, RefsStay, Stacked,
       Probing, CleaningUp, SameKref, Others
  <2> QED
    BY <1>1, <2>1, <2>2, CountsKept
<1>15. ASSUME NEW t \in Thread, Write(t) PROVE Counts'
  <2>1. SameTtys /\ SameDying
    BY <1>1, <1>2, <1>15, Typed, Constant, WriteDoes DEF SameTtys, SameDying, OtherTtys,
       OtherPorts
  <2>2. ModuleStays /\ \A u \in Thread : LookStill(u)
    BY <1>1, <1>2, <1>15, Typed, Constant, WriteDoes DEF ModuleStays, LookStill, Looking,
       ProbeHoldsModule, LastPut, Others, Moved, SameLocals, Became, Idle, HungUp
  <2>3. \A r \in Serial : RefsStay(r)
    BY <1>1, <1>2, <1>15, Typed, Constant, WriteDoes DEF RefsStay, Stacked, Probing,
       CleaningUp, OthersKept, SameKref, SameName, SameState, LastPut, Others, Moved,
       SameLocals, Became, Idle, HungUp
  <2> QED
    BY <1>1, <2>1, <2>2, <2>3, CountsKept
<1>16. ASSUME NEW p \in Port, PortSoftint(p) PROVE Counts'
  <2>1. SameTtys /\ SameDying
    BY <1>1, <1>2, <1>16, Typed, Constant, SoftintDoes DEF SameTtys, SameDying, OtherTtys,
       OtherPorts
  <2>2. ModuleStays /\ \A u \in Thread : LookStill(u)
    BY <1>1, <1>2, <1>16, Typed, Constant, SoftintDoes DEF ModuleStays, LookStill, Looking,
       ProbeHoldsModule, LastPut, Others, Moved, SameLocals, Became, Idle, HungUp
  <2>3. \A r \in Serial : RefsStay(r)
    BY <1>1, <1>2, <1>16, Typed, Constant, SoftintDoes DEF RefsStay, Stacked, Probing,
       CleaningUp, OthersKept, SameKref, SameName, SameState, LastPut, Others, Moved,
       SameLocals, Became, Idle, HungUp
  <2> QED
    BY <1>1, <2>1, <2>2, <2>3, CountsKept
<1>17. ASSUME NEW p \in Port, PortWork(p) PROVE Counts'
  <2>1. SameTtys /\ SameDying
    BY <1>1, <1>2, <1>17, Typed, Constant, SoftintDoes DEF SameTtys, SameDying, OtherTtys,
       OtherPorts
  <2>2. ModuleStays /\ \A u \in Thread : LookStill(u)
    BY <1>1, <1>2, <1>17, Typed, Constant, SoftintDoes DEF ModuleStays, LookStill, Looking,
       ProbeHoldsModule, LastPut, Others, Moved, SameLocals, Became, Idle, HungUp
  <2>3. \A r \in Serial : RefsStay(r)
    BY <1>1, <1>2, <1>17, Typed, Constant, SoftintDoes DEF RefsStay, Stacked, Probing,
       CleaningUp, OthersKept, SameKref, SameName, SameState, LastPut, Others, Moved,
       SameLocals, Became, Idle, HungUp
  <2> QED
    BY <1>1, <2>1, <2>2, <2>3, CountsKept
<1>18. ASSUME NEW t \in Thread, WaitUntilSent(t) PROVE Counts'
  <2>1. SameTtys /\ SameDying
    BY <1>1, <1>2, <1>18, Typed, Constant, DrainDoes DEF SameTtys, SameDying, OtherTtys,
       OtherPorts
  <2>2. ModuleStays /\ \A u \in Thread : LookStill(u)
    BY <1>1, <1>2, <1>18, Typed, Constant, DrainDoes DEF ModuleStays, LookStill, Looking,
       ProbeHoldsModule, LastPut, Others, Moved, SameLocals, Became, Idle, HungUp
  <2>3. \A r \in Serial : RefsStay(r)
    BY <1>1, <1>2, <1>18, Typed, Constant, DrainDoes DEF RefsStay, Stacked, Probing,
       CleaningUp, OthersKept, SameKref, SameName, SameState, LastPut, Others, Moved,
       SameLocals, Became, Idle, HungUp
  <2> QED
    BY <1>1, <2>1, <2>2, <2>3, CountsKept
<1>19. ASSUME NEW t \in Thread, Drained(t) PROVE Counts'
  <2>1. SameTtys /\ SameDying
    BY <1>1, <1>2, <1>19, Typed, Constant, DrainDoes DEF SameTtys, SameDying, OtherTtys,
       OtherPorts
  <2>2. ModuleStays /\ \A u \in Thread : LookStill(u)
    BY <1>1, <1>2, <1>19, Typed, Constant, DrainDoes DEF ModuleStays, LookStill, Looking,
       ProbeHoldsModule, LastPut, Others, Moved, SameLocals, Became, Idle, HungUp
  <2>3. \A r \in Serial : RefsStay(r)
    BY <1>1, <1>2, <1>19, Typed, Constant, DrainDoes DEF RefsStay, Stacked, Probing,
       CleaningUp, OthersKept, SameKref, SameName, SameState, LastPut, Others, Moved,
       SameLocals, Became, Idle, HungUp
  <2> QED
    BY <1>1, <2>1, <2>2, <2>3, CountsKept
<1>20. ASSUME NEW t \in Thread, Close(t) PROVE Counts'
  <2>1. UNCHANGED <<serial, module>> /\ Others(t) /\ pc[t].at \in {"running", "close"} /\ pc'[t] = Idle
    BY <1>1, <1>20, Typed, Constant, CloseGoes DEF Became
  <2>2. /\ \A s \in Serial : Installed(PortsOf(s))' = Installed(PortsOf(s))
        /\ Installed(Port)' = Installed(Port)
    BY <1>1, <1>20, InstalledCloses
  <2>3. LookStill(t)
    BY <2>1 DEF LookStill, Looking, Idle
  <2>4. ModuleStays /\ (\A u \in Thread : LookStill(u)) /\ \A r \in Serial : RefsStay(r)
    BY <2>1, <2>3, Constant DEF LookStill, Looking, Others, RefsStay, SameKref, Stacked, Probing,
       CleaningUp, ModuleStays, ProbeHoldsModule
  <2>5. \A s \in Serial : Exact(s)'
    BY <2>2, <2>4, LookupsKept, RefsKept
  <2>6. ModuleRefsExact'
    BY <2>2, <2>4, ModuleKept
  <2> QED
    BY <2>5, <2>6 DEF Counts, Exact
<1>21. ASSUME NEW m \in Minor, Hangup(m) PROVE Counts'
  <2>1. SameTtys /\ SameDying
    BY <1>1, <1>2, <1>21, Typed, Constant, HangupDoes, HangUpGoes DEF SameTtys, SameDying,
       OtherTtys, OtherPorts
  <2>2. ModuleStays /\ \A u \in Thread : LookStill(u)
    BY <1>1, <1>2, <1>21, Typed, Constant, HangupDoes, HangUpGoes DEF ModuleStays, LookStill,
       Looking, ProbeHoldsModule, LastPut, Others, Moved, SameLocals, Became, Idle, HungUp
  <2>3. \A r \in Serial : RefsStay(r)
    BY <1>1, <1>2, <1>21, Typed, Constant, HangupDoes, HangUpGoes DEF RefsStay, Stacked,
       Probing, CleaningUp, OthersKept, SameKref, SameName, SameState, LastPut, Others,
       Moved, SameLocals, Became, Idle, HungUp
  <2> QED
    BY <1>1, <2>1, <2>2, <2>3, CountsKept
<1>22. ASSUME NEW p \in Port, Cleanup(p) PROVE Counts'
  <2>1. PICK s \in Serial : s = p[1]
    BY <1>1, Typed
  <2>2. /\ pc["worker"].at = "idle" /\ Others("worker") /\ pc'["worker"].at = "cleanup"
        /\ pc'["worker"].s = s /\ port[p].dying > 0 /\ OtherPorts(p)
        /\ port'[p].dying = port[p].dying - 1 /\ OthersKept(s)
        /\ SameName(s) /\ SameKref(s) /\ SameState(s) /\ UNCHANGED <<ttys, module>>
    BY <1>22, <2>1, CleanupDoes
  <2>3. /\ \A r \in Serial : Installed(PortsOf(r))' = Installed(PortsOf(r)) - One(r = s)
        /\ Installed(Port)' = Installed(Port) - 1
    BY <1>1, <2>1, <2>2, InstalledDown DEF SameTtys
  <2>4. Installed(Port) \in Nat /\ module.refs \in Nat
    BY <1>1, ModuleParts
  <2>5. \A r \in Serial : Installed(PortsOf(r)) \in Nat /\ serial[r].kref \in Nat
                          /\ (serial[r].kref > 0 => serial[r].mem = "alive")
    BY <1>1, RefsParts
  <2>6. \A u \in Thread : LookStill(u)
    BY <2>2, Constant DEF LookStill, Looking, Others
  <2>7. /\ \A r \in Serial : (Probing(r)' <=> Probing(r)) /\ ~CleaningUp(r) /\ (CleaningUp(r)' <=> r = s)
        /\ ProbeHoldsModule' <=> ProbeHoldsModule
    BY <2>2, Constant DEF Probing, CleaningUp, ProbeHoldsModule, Others
  <2>8. ASSUME NEW r \in Serial, r # s
        PROVE  RefsStay(r) /\ Installed(PortsOf(r))' = Installed(PortsOf(r))
    <3>1. One(r = s) = 0
      BY <2>8 DEF One
    <3>2. RefsStay(r)
      BY <2>2, <2>7, <2>8 DEF RefsStay, SameKref, Stacked, OthersKept
    <3> QED
      BY <2>3, <2>5, <3>1, <3>2
  <2>9. Exact(s)'
    <3>1. LookupsOf(s)' = LookupsOf(s)
      BY <2>6, LookupsKept
    <3>2. One(s = s) = 1 /\ One(CleaningUp(s)') = One(CleaningUp(s)) + 1
      BY <2>7 DEF One
    <3>3. One(Stacked(s)') = One(Stacked(s)) + 0
      BY <2>2, <2>7 DEF One, Stacked, SameState
    <3>4. Installed(PortsOf(s))' = Installed(PortsOf(s)) + (-1)
      BY <2>3, <2>5, <3>2
    <3>5. serial'[s].kref = serial[s].kref + (-1) + 1 + 0
      BY <2>2, <2>5 DEF SameKref
    <3>6. serial'[s].kref > 0 => serial'[s].mem = "alive"
      BY <2>2, <2>5 DEF SameKref, SameName
    <3> QED
      BY <3>1, <3>2, <3>3, <3>4, <3>5, <3>6, ExactBy
  <2>10. ModuleRefsExact'
    <3>1. One(pc'["worker"].at # "idle") = One(pc["worker"].at # "idle") + 1
      BY <2>2 DEF One
    <3>2. One(ProbeHoldsModule') = One(ProbeHoldsModule) + 0
      BY <2>7 DEF One
    <3>3. module'.refs = module.refs + (-1) + 1 + 0 /\ Installed(Port)' = Installed(Port) + (-1)
      BY <2>2, <2>3, <2>4
    <3> QED
      BY <3>1, <3>2, <3>3, ModuleBy
  <2> QED
    BY <2>6, <2>8, <2>9, <2>10, CountsBut
<1>23. CASE CleanupPut
  <2>1. PICK s \in Serial : s = pc["worker"].s
    BY <1>1, Typed, Constant
  <2>2. pc["worker"].at = "cleanup" /\ LastPut("worker", s) /\ UNCHANGED <<ttys, port, module>>
    BY <1>23, <2>1, CleanupPutDoes
  <2>3. /\ SameTtys /\ SameDying /\ ModuleStays /\ \A u \in Thread : LookStill(u)
    BY <2>2, Constant DEF SameTtys, SameDying, ModuleStays, LookStill, Looking, ProbeHoldsModule,
       LastPut, Others
  <2>4. /\ \A r \in Serial : (Probing(r)' <=> Probing(r)) /\ ~CleaningUp(r)' /\ (CleaningUp(r) <=> r = s)
    BY <2>1, <2>2, Constant DEF CleaningUp, Probing, LastPut, Others
  <2>6. \A r \in Serial : Installed(PortsOf(r))' = Installed(PortsOf(r))
    BY <1>1, <2>3, InstalledStays
  <2>7. \A r \in Serial : Installed(PortsOf(r)) \in Nat /\ serial[r].kref \in Nat
                          /\ (serial[r].kref > 0 => serial[r].mem = "alive")
    BY <1>1, RefsParts
  <2>8. \A r \in Serial : r # s => RefsStay(r)
    BY <2>2, <2>4 DEF RefsStay, SameKref, Stacked, OthersKept, LastPut
  <2>9. Exact(s)'
    <3>1. LookupsOf(s)' = LookupsOf(s)
      BY <2>3, LookupsKept
    <3>2. One(CleaningUp(s)') = One(CleaningUp(s)) + (-1)
      BY <2>4 DEF One
    <3>3. One(Stacked(s)') = One(Stacked(s)) + 0
      BY <2>2, <2>4 DEF One, Stacked, SameState, LastPut
    <3>4. Installed(PortsOf(s))' = Installed(PortsOf(s)) + 0
      BY <2>6, <2>7
    <3>5. serial'[s].kref = serial[s].kref + 0 + (-1) + 0
      BY <2>2, <2>7 DEF LastPut
    <3>6. serial'[s].kref > 0 => serial'[s].mem = "alive"
      BY <2>2, <2>7 DEF LastPut, SameName
    <3> QED
      BY <3>1, <3>2, <3>3, <3>4, <3>5, <3>6, ExactBy
  <2>10. ModuleRefsExact'
    BY <1>1, <2>3, InstalledStays, ModuleKept
  <2> QED
    BY <2>3, <2>6, <2>8, <2>9, <2>10, CountsBut
<1>24. ASSUME NEW s \in Serial, Probe(s) PROVE Counts'
  <2>1. /\ pc["hub"].at = "idle" /\ Bound = {} /\ serial[s].mem = "none"
        /\ module'.refs = module.refs + 1 /\ UNCHANGED <<ttys, port>>
        /\ \/ /\ Others("hub") /\ pc'["hub"].at = "attach" /\ pc'["hub"].s = s
              /\ OthersKept(s) /\ serial'[s].mem = "alive" /\ serial'[s].kref = 1
           \/ Moved("hub", "module_put") /\ UNCHANGED serial
    BY <1>24, ProbeDoes, Probed
  <2>2. Others("hub")
    BY <2>1 DEF Moved
  <2>3. /\ SameTtys /\ SameDying /\ \A u \in Thread : LookStill(u)
    BY <2>1, <2>2, Constant DEF SameTtys, SameDying, LookStill, Looking, Others
  <2>4. /\ \A r \in Serial : Installed(PortsOf(r))' = Installed(PortsOf(r))
        /\ Installed(Port)' = Installed(Port)
    BY <1>1, <2>3, InstalledStays
  <2>5. /\ \A r \in Serial : /\ CleaningUp(r)' <=> CleaningUp(r)
                             /\ ~Probing(r) /\ (r # s => ~Probing(r)')
    BY <2>1, <2>2, Constant DEF CleaningUp, Probing, Others, Moved
  <2>6. ModuleRefsExact'
    <3>1. Installed(Port) \in Nat /\ module.refs \in Nat
      BY <1>1, ModuleParts
    <3>2. ~ProbeHoldsModule /\ ProbeHoldsModule'
      BY <2>1 DEF ProbeHoldsModule, Moved
    <3>3. /\ One(ProbeHoldsModule') = One(ProbeHoldsModule) + 1
          /\ One(pc'["worker"].at # "idle") = One(pc["worker"].at # "idle") + 0
      BY <2>2, <3>2, Constant DEF One, Others
    <3>4. module'.refs = module.refs + 0 + 0 + 1 /\ Installed(Port)' = Installed(Port) + 0
      BY <2>1, <2>4, <3>1
    <3> QED
      BY <3>3, <3>4, ModuleBy
  <2>7. CASE Moved("hub", "module_put") /\ UNCHANGED serial
    <3>1. \A r \in Serial : RefsStay(r)
      <4>1. ~Probing(s)'
        BY <2>7 DEF Probing, Moved
      <4> QED
        BY <2>5, <2>7, <4>1 DEF RefsStay, SameKref, Stacked
    <3>2. \A r \in Serial : Exact(r)'
      BY <2>3, <2>4, <3>1, LookupsKept, RefsKept
    <3> QED
      BY <2>6, <3>2 DEF Counts, Exact
  <2>8. CASE /\ Others("hub") /\ pc'["hub"].at = "attach" /\ pc'["hub"].s = s
             /\ OthersKept(s) /\ serial'[s].mem = "alive" /\ serial'[s].kref = 1
    <3>1. \A r \in Serial : r # s => RefsStay(r)
      BY <2>5, <2>8 DEF RefsStay, SameKref, Stacked, OthersKept
    <3>2. serial[s].kref = 0 /\ ~serial[s].bound
      <4>1. serial[s].kref \in Nat /\ ~(serial[s].kref > 0)
        BY <1>1, <2>1, RefsParts
      <4>2. ~serial[s].bound
        BY <2>1 DEF Bound
      <4> QED
        BY <4>1, <4>2
    <3>3. Probing(s)'
      BY <2>8 DEF Probing
    <3>4. Exact(s)'
      <4>1. /\ One(CleaningUp(s)') = One(CleaningUp(s)) + 0
            /\ One(Stacked(s)') = One(Stacked(s)) + 1
        BY <2>5, <3>2, <3>3 DEF One, Stacked
      <4>2. Installed(PortsOf(s))' = Installed(PortsOf(s)) + 0
        <5>1. Installed(PortsOf(s)) \in Nat
          BY <1>1, RefsParts
        <5> QED
          BY <2>4, <5>1
      <4>3. LookupsOf(s)' = LookupsOf(s)
        BY <2>3, LookupsKept
      <4>4. serial'[s].kref = serial[s].kref + 0 + 0 + 1
        BY <2>8, <3>2
      <4> QED
        BY <2>8, <4>1, <4>2, <4>3, <4>4, ExactBy
    <3> QED
      BY <2>3, <2>4, <2>6, <3>1, <3>4, CountsBut
  <2> QED
    BY <2>1, <2>7, <2>8
<1>25. ASSUME NEW n \in 0 .. MaxPorts, Attach(n) PROVE Counts'
  <2>1. PICK s \in Serial : s = pc["hub"].s
    BY <1>1, Typed, Constant
  <2>2. /\ pc["hub"].at = "attach" /\ Moved("hub", IF n = 0 THEN "module_put" ELSE "minors")
        /\ OthersKept(s) /\ (serial'[s].bound <=> n = 0) /\ serial'[s].mem = serial[s].mem
        /\ SameKref(s) /\ UNCHANGED <<ttys, port, module>>
    BY <1>25, <2>1, AttachDoes
  <2>3. ~serial[s].bound
    BY <1>1, <2>1, <2>2 DEF Hub, Its
  <2>4. /\ SameTtys /\ SameDying /\ ModuleStays /\ \A u \in Thread : LookStill(u)
    BY <2>2, Constant DEF SameTtys, SameDying, ModuleStays, LookStill, Looking, ProbeHoldsModule,
       Others, Moved
  <2>5. \A r \in Serial : /\ CleaningUp(r)' <=> CleaningUp(r)
                          /\ Probing(r) <=> r = s
                          /\ Probing(r)' <=> (r = s /\ n # 0)
    BY <2>1, <2>2, Constant DEF CleaningUp, Probing, Others, Moved, SameLocals
  <2>6. \A r \in Serial : RefsStay(r)
    BY <2>2, <2>3, <2>5 DEF RefsStay, Stacked, OthersKept, SameKref
  <2> QED
    BY <1>1, <2>4, <2>6, CountsKept
<1>26. CASE ProbeError
  <2>1. PICK s \in Serial : s = pc["hub"].s
    BY <1>1, Typed, Constant
  <2>2. pc["hub"].at \in {"attach", "minors"} /\ LastPut("hub", s) /\ UNCHANGED <<ttys, port, module>>
    BY <1>26, <2>1, ProbeErrorDoes
  <2>3. /\ SameTtys /\ SameDying /\ ModuleStays /\ \A u \in Thread : LookStill(u)
    BY <2>2, Constant DEF SameTtys, SameDying, ModuleStays, LookStill, Looking, ProbeHoldsModule,
       LastPut, Others
  <2>4. /\ \A r \in Serial : (CleaningUp(r)' <=> CleaningUp(r)) /\ ~Probing(r)' /\ (Probing(r) <=> r = s)
    BY <2>1, <2>2, Constant DEF CleaningUp, Probing, LastPut, Others
  <2>5. ~serial[s].bound
    BY <1>1, <2>1, <2>2 DEF Hub, Its
  <2>6. \A r \in Serial : Installed(PortsOf(r))' = Installed(PortsOf(r))
    BY <1>1, <2>3, InstalledStays
  <2>7. \A r \in Serial : Installed(PortsOf(r)) \in Nat /\ serial[r].kref \in Nat
                          /\ (serial[r].kref > 0 => serial[r].mem = "alive")
    BY <1>1, RefsParts
  <2>8. \A r \in Serial : r # s => RefsStay(r)
    BY <2>2, <2>4 DEF RefsStay, SameKref, Stacked, OthersKept, LastPut
  <2>9. Exact(s)'
    <3>1. LookupsOf(s)' = LookupsOf(s)
      BY <2>3, LookupsKept
    <3>2. One(CleaningUp(s)') = One(CleaningUp(s)) + 0
      BY <2>4 DEF One
    <3>3. One(Stacked(s)') = One(Stacked(s)) + (-1)
      BY <2>2, <2>4, <2>5 DEF One, Stacked, SameState, LastPut
    <3>4. Installed(PortsOf(s))' = Installed(PortsOf(s)) + 0
      BY <2>6, <2>7
    <3>5. serial'[s].kref = serial[s].kref + 0 + 0 + (-1)
      BY <2>2, <2>7 DEF LastPut
    <3>6. serial'[s].kref > 0 => serial'[s].mem = "alive"
      BY <2>2, <2>7 DEF LastPut, SameName
    <3> QED
      BY <3>1, <3>2, <3>3, <3>4, <3>5, <3>6, ExactBy
  <2>10. ModuleRefsExact'
    BY <1>1, <2>3, InstalledStays, ModuleKept
  <2> QED
    BY <2>3, <2>6, <2>8, <2>9, <2>10, CountsBut
<1>27. CASE AllocateMinors
  <2>1. PICK s \in Serial : s = pc["hub"].s
    BY <1>1, Typed, Constant
  <2>2. /\ OthersKept(s) /\ SameName(s) /\ SameKref(s) /\ UNCHANGED <<ttys, port, module>>
        /\ \/ pc["hub"].at = "minors" /\ Moved("hub", "register") /\ SameState(s)
           \/ pc["hub"].at = "register" /\ Moved("hub", "module_put") /\ serial'[s].bound
    BY <1>27, <2>1, MinorsDoes
  <2>3. /\ SameTtys /\ SameDying /\ ModuleStays /\ \A u \in Thread : LookStill(u)
    BY <2>2, Constant DEF SameTtys, SameDying, ModuleStays, LookStill, Looking, ProbeHoldsModule,
       Others, Moved
  <2>4. \A r \in Serial : (CleaningUp(r)' <=> CleaningUp(r)) /\ (r # s => ~Probing(r)' /\ ~Probing(r))
    BY <2>1, <2>2, Constant DEF CleaningUp, Probing, Others, Moved, SameLocals
  <2>5. Stacked(s)' /\ Stacked(s)
    BY <2>1, <2>2 DEF Stacked, Probing, Moved, SameLocals, SameState
  <2>6. \A r \in Serial : RefsStay(r)
    BY <2>2, <2>4, <2>5 DEF RefsStay, Stacked, OthersKept, SameKref, SameName
  <2> QED
    BY <1>1, <2>3, <2>6, CountsKept
<1>28. CASE Register
  <2>1. PICK s \in Serial : s = pc["hub"].s
    BY <1>1, Typed, Constant
  <2>2. /\ OthersKept(s) /\ SameName(s) /\ SameKref(s) /\ UNCHANGED <<ttys, port, module>>
        /\ \/ pc["hub"].at = "minors" /\ Moved("hub", "register") /\ SameState(s)
           \/ pc["hub"].at = "register" /\ Moved("hub", "module_put") /\ serial'[s].bound
    BY <1>28, <2>1, MinorsDoes
  <2>3. /\ SameTtys /\ SameDying /\ ModuleStays /\ \A u \in Thread : LookStill(u)
    BY <2>2, Constant DEF SameTtys, SameDying, ModuleStays, LookStill, Looking, ProbeHoldsModule,
       Others, Moved
  <2>4. \A r \in Serial : (CleaningUp(r)' <=> CleaningUp(r)) /\ (r # s => ~Probing(r)' /\ ~Probing(r))
    BY <2>1, <2>2, Constant DEF CleaningUp, Probing, Others, Moved, SameLocals
  <2>5. Stacked(s)' /\ Stacked(s)
    BY <2>1, <2>2 DEF Stacked, Probing, Moved, SameLocals, SameState
  <2>6. \A r \in Serial : RefsStay(r)
    BY <2>2, <2>4, <2>5 DEF RefsStay, Stacked, OthersKept, SameKref, SameName
  <2> QED
    BY <1>1, <2>3, <2>6, CountsKept
<1>29. ASSUME NEW s \in Serial, Suspend(s) PROVE Counts'
  <2>1. SameTtys /\ SameDying
    BY <1>1, <1>2, <1>29, Typed, Constant, SuspendDoes DEF SameTtys, SameDying, OtherTtys,
       OtherPorts
  <2>2. ModuleStays /\ \A u \in Thread : LookStill(u)
    BY <1>1, <1>2, <1>29, Typed, Constant, SuspendDoes DEF ModuleStays, LookStill, Looking,
       ProbeHoldsModule, LastPut, Others, Moved, SameLocals, Became, Idle, HungUp
  <2>3. \A r \in Serial : RefsStay(r)
    BY <1>1, <1>2, <1>29, Typed, Constant, SuspendDoes DEF RefsStay, Stacked, Probing,
       CleaningUp, OthersKept, SameKref, SameName, SameState, LastPut, Others, Moved,
       SameLocals, Became, Idle, HungUp
  <2> QED
    BY <1>1, <2>1, <2>2, <2>3, CountsKept
<1>30. ASSUME NEW s \in Serial, Resume(s) PROVE Counts'
  <2>1. SameTtys /\ SameDying
    BY <1>1, <1>2, <1>30, Typed, Constant, SuspendDoes DEF SameTtys, SameDying, OtherTtys,
       OtherPorts
  <2>2. ModuleStays /\ \A u \in Thread : LookStill(u)
    BY <1>1, <1>2, <1>30, Typed, Constant, SuspendDoes DEF ModuleStays, LookStill, Looking,
       ProbeHoldsModule, LastPut, Others, Moved, SameLocals, Became, Idle, HungUp
  <2>3. \A r \in Serial : RefsStay(r)
    BY <1>1, <1>2, <1>30, Typed, Constant, SuspendDoes DEF RefsStay, Stacked, Probing,
       CleaningUp, OthersKept, SameKref, SameName, SameState, LastPut, Others, Moved,
       SameLocals, Became, Idle, HungUp
  <2> QED
    BY <1>1, <2>1, <2>2, <2>3, CountsKept
<1>31. CASE Unplug
  <2>1. SameTtys /\ SameDying
    BY <1>1, <1>2, <1>31, Typed, Constant DEF SameTtys, SameDying, OtherTtys, OtherPorts,
       Unplug
  <2>2. ModuleStays /\ \A u \in Thread : LookStill(u)
    BY <1>1, <1>2, <1>31, Typed, Constant DEF ModuleStays, LookStill, Looking,
       ProbeHoldsModule, LastPut, Others, Moved, SameLocals, Became, Idle, HungUp, Unplug
  <2>3. \A r \in Serial : RefsStay(r)
    BY <1>1, <1>2, <1>31, Typed, Constant DEF RefsStay, Stacked, Probing, CleaningUp,
       OthersKept, SameKref, SameName, SameState, LastPut, Others, Moved, SameLocals,
       Became, Idle, HungUp, Unplug
  <2> QED
    BY <1>1, <2>1, <2>2, <2>3, CountsKept
<1>32. CASE Deregister
  <2>1. SameTtys /\ SameDying
    BY <1>1, <1>2, <1>32, Typed, Constant DEF SameTtys, SameDying, OtherTtys, OtherPorts,
       Deregister
  <2>2. ModuleStays /\ \A u \in Thread : LookStill(u)
    BY <1>1, <1>2, <1>32, Typed, Constant DEF ModuleStays, LookStill, Looking,
       ProbeHoldsModule, LastPut, Others, Moved, SameLocals, Became, Idle, HungUp,
       Deregister
  <2>3. \A r \in Serial : RefsStay(r)
    BY <1>1, <1>2, <1>32, Typed, Constant DEF RefsStay, Stacked, Probing, CleaningUp,
       OthersKept, SameKref, SameName, SameState, LastPut, Others, Moved, SameLocals,
       Became, Idle, HungUp, Deregister
  <2> QED
    BY <1>1, <2>1, <2>2, <2>3, CountsKept
<1>33. CASE DeregisterEnd
  <2>1. SameTtys /\ SameDying
    BY <1>1, <1>2, <1>33, Typed, Constant DEF SameTtys, SameDying, OtherTtys, OtherPorts,
       DeregisterEnd
  <2>2. ModuleStays /\ \A u \in Thread : LookStill(u)
    BY <1>1, <1>2, <1>33, Typed, Constant DEF ModuleStays, LookStill, Looking,
       ProbeHoldsModule, LastPut, Others, Moved, SameLocals, Became, Idle, HungUp,
       DeregisterEnd
  <2>3. \A r \in Serial : RefsStay(r)
    BY <1>1, <1>2, <1>33, Typed, Constant DEF RefsStay, Stacked, Probing, CleaningUp,
       OthersKept, SameKref, SameName, SameState, LastPut, Others, Moved, SameLocals,
       Became, Idle, HungUp, DeregisterEnd
  <2> QED
    BY <1>1, <2>1, <2>2, <2>3, CountsKept
<1>34. ASSUME NEW s \in Serial, Disconnect(s) PROVE Counts'
  <2>1. SameTtys /\ SameDying
    BY <1>1, <1>2, <1>34, Typed, Constant, DisconnectDoes DEF SameTtys, SameDying, OtherTtys,
       OtherPorts
  <2>2. ModuleStays /\ \A u \in Thread : LookStill(u)
    BY <1>1, <1>2, <1>34, Typed, Constant, DisconnectDoes DEF ModuleStays, LookStill,
       Looking, ProbeHoldsModule, LastPut, Others, Moved, SameLocals, Became, Idle, HungUp
  <2>3. \A r \in Serial : RefsStay(r)
    BY <1>1, <1>2, <1>34, Typed, Constant, DisconnectDoes DEF RefsStay, Stacked, Probing,
       CleaningUp, OthersKept, SameKref, SameName, SameState, LastPut, Others, Moved,
       SameLocals, Became, Idle, HungUp
  <2> QED
    BY <1>1, <2>1, <2>2, <2>3, CountsKept
<1>35. CASE DisconnectHangup
  <2>1. SameTtys /\ SameDying
    BY <1>1, <1>2, <1>35, Typed, Constant, DisconnectHangupDoes, HangUpGoes DEF SameTtys,
       SameDying, OtherTtys, OtherPorts
  <2>2. ModuleStays /\ \A u \in Thread : LookStill(u)
    BY <1>1, <1>2, <1>35, Typed, Constant, DisconnectHangupDoes, HangUpGoes DEF ModuleStays,
       LookStill, Looking, ProbeHoldsModule, LastPut, Others, Moved, SameLocals, Became,
       Idle, HungUp
  <2>3. \A r \in Serial : RefsStay(r)
    BY <1>1, <1>2, <1>35, Typed, Constant, DisconnectHangupDoes, HangUpGoes DEF RefsStay,
       Stacked, Probing, CleaningUp, OthersKept, SameKref, SameName, SameState, LastPut,
       Others, Moved, SameLocals, Became, Idle, HungUp
  <2> QED
    BY <1>1, <2>1, <2>2, <2>3, CountsKept
<1>36. CASE DisconnectPoison
  <2>1. SameTtys /\ SameDying
    BY <1>1, <1>2, <1>36, Typed, Constant, DisconnectPoisonDoes DEF SameTtys, SameDying,
       OtherTtys, OtherPorts
  <2>2. ModuleStays /\ \A u \in Thread : LookStill(u)
    BY <1>1, <1>2, <1>36, Typed, Constant, DisconnectPoisonDoes DEF ModuleStays, LookStill,
       Looking, ProbeHoldsModule, LastPut, Others, Moved, SameLocals, Became, Idle, HungUp
  <2>3. \A r \in Serial : RefsStay(r)
    BY <1>1, <1>2, <1>36, Typed, Constant, DisconnectPoisonDoes DEF RefsStay, Stacked,
       Probing, CleaningUp, OthersKept, SameKref, SameName, SameState, LastPut, Others,
       Moved, SameLocals, Became, Idle, HungUp
  <2> QED
    BY <1>1, <2>1, <2>2, <2>3, CountsKept
<1>37. CASE DisconnectCancel
  <2>1. SameTtys /\ SameDying
    BY <1>1, <1>2, <1>37, Typed, Constant, DisconnectCancelDoes DEF SameTtys, SameDying,
       OtherTtys, OtherPorts
  <2>2. ModuleStays /\ \A u \in Thread : LookStill(u)
    BY <1>1, <1>2, <1>37, Typed, Constant, DisconnectCancelDoes DEF ModuleStays, LookStill,
       Looking, ProbeHoldsModule, LastPut, Others, Moved, SameLocals, Became, Idle, HungUp
  <2>3. \A r \in Serial : RefsStay(r)
    BY <1>1, <1>2, <1>37, Typed, Constant, DisconnectCancelDoes DEF RefsStay, Stacked,
       Probing, CleaningUp, OthersKept, SameKref, SameName, SameState, LastPut, Others,
       Moved, SameLocals, Became, Idle, HungUp
  <2> QED
    BY <1>1, <2>1, <2>2, <2>3, CountsKept
<1>38. CASE DisconnectEnd
  <2>1. PICK s \in Serial : s = pc["hub"].s
    BY <1>1, Typed, Constant
  <2>2. /\ pc["hub"].at = "hangup" /\ Others("hub") /\ pc'["hub"].then = "idle"
        /\ pc'["hub"].at \in {"destroy", "idle"} /\ OthersKept(s)
        /\ serial'[s].kref = serial[s].kref - 1 /\ ~serial'[s].bound /\ SameName(s)
        /\ UNCHANGED <<ttys, port, module>>
    BY <1>38, <2>1, DisconnectEndDoes
  <2>3. /\ SameTtys /\ SameDying /\ ModuleStays /\ \A u \in Thread : LookStill(u)
    BY <2>2, Constant DEF SameTtys, SameDying, ModuleStays, LookStill, Looking, ProbeHoldsModule,
       Others
  <2>4. \A r \in Serial : (CleaningUp(r)' <=> CleaningUp(r)) /\ ~Probing(r)' /\ ~Probing(r)
    BY <2>2, Constant DEF CleaningUp, Probing, Others
  <2>5. serial[s].bound
    BY <1>1, <2>1, <2>2 DEF Hub, Its
  <2>6. \A r \in Serial : Installed(PortsOf(r))' = Installed(PortsOf(r))
    BY <1>1, <2>3, InstalledStays
  <2>7. \A r \in Serial : Installed(PortsOf(r)) \in Nat /\ serial[r].kref \in Nat
                          /\ (serial[r].kref > 0 => serial[r].mem = "alive")
    BY <1>1, RefsParts
  <2>8. \A r \in Serial : r # s => RefsStay(r)
    BY <2>2, <2>4 DEF RefsStay, SameKref, Stacked, OthersKept
  <2>9. Exact(s)'
    <3>1. LookupsOf(s)' = LookupsOf(s)
      BY <2>3, LookupsKept
    <3>2. One(CleaningUp(s)') = One(CleaningUp(s)) + 0
      BY <2>4 DEF One
    <3>3. One(Stacked(s)') = One(Stacked(s)) + (-1)
      BY <2>2, <2>4, <2>5 DEF One, Stacked
    <3>4. Installed(PortsOf(s))' = Installed(PortsOf(s)) + 0
      BY <2>6, <2>7
    <3>5. serial'[s].kref = serial[s].kref + 0 + 0 + (-1)
      BY <2>2, <2>7
    <3>6. serial'[s].kref > 0 => serial'[s].mem = "alive"
      BY <2>2, <2>7 DEF SameName
    <3> QED
      BY <3>1, <3>2, <3>3, <3>4, <3>5, <3>6, ExactBy
  <2>10. ModuleRefsExact'
    BY <1>1, <2>3, InstalledStays, ModuleKept
  <2> QED
    BY <2>3, <2>6, <2>8, <2>9, <2>10, CountsBut
<1> QED
  BY <1>3, <1>4, <1>5, <1>6, <1>7, <1>8, <1>9, <1>10, <1>11, <1>12, <1>13, <1>14, <1>15,
     <1>16, <1>17, <1>18, <1>19, <1>20, <1>21, <1>22, <1>23, <1>24, <1>25, <1>26, <1>27,
     <1>28, <1>29, <1>30, <1>31, <1>32, <1>33, <1>34, <1>35, <1>36, <1>37, <1>38 DEF Next,
     ThreadStep, Destroy, DisconnectStep, ProbeStep

-----------------------------------------------------------------------------
(* The invariant holds at the start, and through every step.               *)

LEMMA InitInv == Init => IInv
<1> SUFFICES ASSUME Init PROVE IInv
  OBVIOUS
<1>1. /\ \A s \in Serial : serial[s] = NoSerial
      /\ \A m \in Minor : serial_minors[m] = NULL /\ ttys[m] = NULL
      /\ \A p \in Port : port[p] = NoPort
      /\ \A a \in Actor : pc[a] = Idle
      /\ module.refs = 0 /\ module.state = "loaded" /\ ~badAccess
  BY DEF Init
<1>2. TypeOK
  <2>1. serial \in [Serial -> Object] /\ port \in [Port -> TtyPort] /\ pc \in [Actor -> Place]
    BY Constant DEF Init
  <2>2. serial_minors \in [Minor -> Port \union {NULL}] /\ ttys \in [Minor -> Tty \union {NULL}]
    BY DEF Init
  <2>3. module \in [refs : Nat, state : {"loaded", "going", "gone"}]
    BY DEF Init
  <2> QED
    BY <2>1, <2>2, <2>3 DEF Init, TypeOK
<1>3. \A t \in Thread : pc[t].at = "idle" /\ ~pc[t].hung
  BY <1>1, Constant DEF Idle
<1>4. pc["hub"].at = "idle" /\ pc["worker"].at = "idle"
  BY <1>1, Constant DEF Idle
<1>5. \A P \in SUBSET Port : Installed(P) = 0
  <2> SUFFICES ASSUME NEW P \in SUBSET Port PROVE Installed(P) = 0
    OBVIOUS
  <2>1. TtysOn(P) = {}
    BY <1>1 DEF TtysOn
  <2>2. DyingOn(P) = {}
    <3>1. \A p \in P : port[p].dying = 0
      BY <1>1 DEF NoPort
    <3> QED
      BY <1>2, <3>1, DyingIs DEF TypeOK
  <2>3. Cardinality({}) = 0
    BY FS_EmptySet
  <2> QED
    BY <2>1, <2>2, <2>3 DEF Installed
<1>6. Counts
  <2>1. ASSUME NEW s \in Serial PROVE serial[s].kref = Refs(s) /\ ~(serial[s].kref > 0)
    <3>1. LookupsOf(s) = {} /\ ~CleaningUp(s) /\ ~Probing(s)
      BY <1>3, <1>4 DEF LookupsOf, CleaningUp, Probing
    <3>2. serial[s].kref = 0 /\ ~serial[s].bound
      BY <1>1 DEF NoSerial
    <3>3. Cardinality(LookupsOf(s)) = 0 /\ Installed(PortsOf(s)) = 0
      BY <1>5, <3>1, FS_EmptySet DEF PortsOf
    <3> QED
      BY <3>1, <3>2, <3>3 DEF Refs, One
  <2>2. ~ProbeHoldsModule
    BY <1>4 DEF ProbeHoldsModule
  <2>3. ModuleRefsExact
    BY <1>1, <1>4, <1>5, <2>2 DEF ModuleRefsExact, One
  <2> QED
    BY <2>1, <2>3 DEF Counts
<1>7. Ttys
  <2>1. \A t \in Thread : pc[t].at \notin FilePlaces /\ ~Installing(t)
    BY <1>3 DEF FilePlaces, Installing
  <2> QED
    BY <1>1, <2>1 DEF Ttys
<1>8. Ports
  <2>1. ASSUME NEW p \in Port PROVE Users(p) = {} /\ Cardinality(Users(p)) = 0
    <3>1. Users(p) = {}
      BY <1>3 DEF Users
    <3> QED
      BY <3>1, FS_EmptySet
  <2>2. \A p \in Port : /\ port[p].count = 0 /\ ~port[p].tty /\ ~port[p].initialized
                        /\ ~port[p].open /\ ~port[p].urb /\ ~port[p].work
    BY <1>1 DEF NoPort
  <2> QED
    BY <2>1, <2>2 DEF Ports
<1>9. Places /\ Destroyers /\ Numbers /\ Locks /\ Hub /\ Module
  BY <1>1, <1>3, <1>4 DEF Places, ThreadPlaces, HubPlaces, WorkerPlaces, Destroyers, Destroying,
     Numbers, Locks, LocksOf, Holding, Hub, Module
<1>10. Power
  <2>1. \A s \in Serial : serial[s].pm = 0 /\ Installed(PortsOf(s)) = 0
    BY <1>1, <1>5 DEF NoSerial, PortsOf
  <2> QED
    BY <2>1 DEF Power
<1> QED
  BY <1>1, <1>2, <1>6, <1>7, <1>8, <1>9, <1>10 DEF IInv

LEMMA Stutter ==
  ASSUME IInv, UNCHANGED vars
  PROVE  IInv'
<1>1. (TypeOK /\ ~badAccess)'
  BY DEF IInv, vars, TypeOK
<1>2. (Places /\ Destroyers /\ Numbers)'
  BY DEF IInv, vars, Places, Destroyers, Destroying, Its, Numbers
<1>3. Locks'
  BY DEF IInv, vars, Locks, LocksOf, Holding, Its, PortOf
<1>4. Counts'
  <2>1. TypeOK' /\ SameTtys /\ SameDying
    BY <1>1 DEF vars, SameTtys, SameDying
  <2>2. ModuleStays /\ \A t \in Thread : LookStill(t)
    BY DEF vars, ModuleStays, ProbeHoldsModule, LookStill, Looking
  <2>3. \A s \in Serial : RefsStay(s)
    BY DEF vars, RefsStay, SameKref, CleaningUp, Stacked, Probing
  <2> QED
    BY <2>1, <2>2, <2>3, CountsKept
<1>5. Ttys'
  BY DEF IInv, vars, Ttys, FilesAt, Installing, PortOf
<1>6. Ports'
  BY DEF IInv, vars, Ports, Users, PortOf
<1>7. Hub'
  BY DEF IInv, vars, Hub, Its, PortOf, PortsOf, Quiet
<1>8. (Power /\ Module)'
  BY DEF IInv, vars, Power, Installed, TtysOn, DyingOn, PortsOf, Module, Bound
<1> QED
  BY <1>1, <1>2, <1>3, <1>4, <1>5, <1>6, <1>7, <1>8 DEF IInv

LEMMA StepInv == IInv /\ [Next]_vars => IInv'
<1>1. ASSUME IInv, Next PROVE IInv'
  BY <1>1, TypeStep, SafeStep, PlacesStep, CountsStep, DestroyersStep, NumbersStep, LocksStep,
     TtysStep, PortsStep, HubStep, PowerStep, ModuleStep DEF IInv
<1> QED
  BY <1>1, Stutter

(* The inductive invariant holds in every state of every behaviour.        *)
THEOREM Inductive == Spec => []IInv
<1> QED
  BY InitInv, StepInv, PTL DEF Spec

-----------------------------------------------------------------------------
(* What it says.                                                           *)

(* The count of an object is at all times the number of those who have a   *)
(* reference to it (usb_serial_port_get_by_minor, serial_install,          *)
(* serial_cleanup, usb_serial_probe, usb_serial_disconnect), and so is the *)
(* count of the driver's module.                                           *)
THEOREM ReferencesHold == Spec => []References
<1>1. IInv => References
  BY DEF IInv, References, RefsExact, Counts, Refs
<1> QED
  BY <1>1, Inductive, PTL

(* No step uses an object that destroy_serial has freed or a driver that   *)
(* is unloaded, and an installed tty keeps its number.                     *)
THEOREM NothingStaleHolds == Spec => []NothingStale
<1>1. IInv => NothingStale
  BY DEF IInv, NothingStale, NoStaleUse, MinorsKept, Ttys, Numbers
<1> QED
  BY <1>1, Inductive, PTL

(* A port is open in the driver, with urbs or work, only while its device  *)
(* is bound, and then, unless it is disconnected, its urbs work.           *)
THEOREM OpenSoundHolds == Spec => []OpenSound
<1>1. ASSUME IInv PROVE OpenOnlyWhileBound
  BY <1>1 DEF IInv, OpenOnlyWhileBound, Ports
<1>2. ASSUME IInv PROVE AwakeWhileOpen
  <2> SUFFICES ASSUME NEW p \in Port, port[p].open, ~serial[p[1]].disconnected
               PROVE  ~serial[p[1]].poisoned
    BY DEF AwakeWhileOpen
  <2>1. PICK s \in Serial : s = p[1]
    BY <1>2, Typed DEF IInv
  <2>2. PICK t \in Users(p) : TRUE
    BY <1>2 DEF IInv, Ports
  <2>3. t \in Thread /\ PortOf(t) = p /\ pc[t].at \in FilePlaces
    BY <2>2 DEF Users, FilePlaces
  <2>4. PICK m \in Minor : m = pc[t].m
    BY <1>2, <2>3, Typed, Constant DEF IInv
  <2>5. ttys[m] # NULL /\ ttys[m].port[1] = s
    BY <1>2, <2>1, <2>3, <2>4, FileHas
  <2>6. Installed(PortsOf(s)) > 0
    BY <1>2, <2>5, Referenced DEF IInv
  <2> QED
    BY <1>2, <2>1, <2>6 DEF IInv, Power
<1>3. IInv => OpenSound
  BY <1>1, <1>2 DEF OpenSound
<1> QED
  BY <1>3, Inductive, PTL
=============================================================================
