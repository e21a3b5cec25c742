------------------------------- MODULE LinePort -------------------------------
(***************************************************************************)
(* The settings of a port under the three converter drivers of linux-3-18: *)
(* ftdi_sio.c, pl2303.c and cp210x.c.  A driver keeps part of what it has  *)
(* sent (the data word, line_settings, the modem lines) and sends, or      *)
(* reads back, the rest only when it thinks that something changed; the    *)
(* question is whether the device has what the tty has.                    *)
(*                                                                         *)
(* A call of the tty layer is a sequence of steps, mostly one control      *)
(* request each.  The tty layer (external) serialises open, set_termios,   *)
(* break and close, here the actor "tty"; TIOCMSET and TIOCSSERIAL, the    *)
(* actor "ioctl", run beside them.  A request that fails may have reached  *)
(* the device.  A console (open without a tty) is left out.  Receiving and *)
(* the divisors are in PortData and in LinuxRates: here a rate is a        *)
(* number, 0 for B0.  The calls are not counted: a behaviour is as long as *)
(* it likes, and only the failures and TIOCSSERIALs in it are bounded.     *)
(***************************************************************************)
EXTENDS Integers, SequencesExt

CONSTANTS Driver,        \* which drivers
          DTR, RTS,      \* the modem lines
          Termios,       \* per driver, settings programs ask for
          Bounds         \* per driver: requests and allocations that fail, TIOCSSERIALs

Lines == {DTR, RTS}
Rate38400 == 2
CustomRate == 3          \* baud_base / custom_divisor
AltRate == 4             \* alt_speed, of ASYNC_SPD_WARP

ASSUME LineAssumption ==
    /\ Driver \subseteq {"ftdi_sio", "ftdi_tira", "pl2303", "cp210x"}
    /\ Bounds \in [Driver -> SUBSET [fails : Nat, serials : Nat]]
    /\ Termios \in [Driver -> SUBSET [size : 5 .. 8, parity : SUBSET {"PARENB", "PARODD", "CMSPAR"},
                          stop : 1 .. 2, flow : {"none", "rtscts", "xonxoff"}, rate : 0 .. 2]]

VARIABLES
    driver,
    termios,          \* tty->termios
    dev,              \* the device: format of the data, break, flow control, lines, rate
    priv,             \* what the driver keeps
    todo, buf,        \* per actor: the steps of its call, a local variable
    opened,
    doubt,            \* parts of the device for which the last request that counts has failed
    raced,            \* set_termios began while TIOCSSERIAL was under way
    overlap,          \* calls that change the modem lines have overlapped
    asked,            \* per line what it may be after what was asked last; break
    left              \* of the bounds

ghost == <<doubt, raced, overlap, asked, left>>
vars == <<driver, termios, dev, priv, todo, buf, opened, ghost>>

Actor == {"tty", "ioctl"}
Ftdi == driver \in {"ftdi_sio", "ftdi_tira"}

Fmt(size, parity, stop) == [size |-> size, parity |-> parity, stop |-> stop]
Unset == Fmt(0, "none", "1")
Default == [size |-> 8, parity |-> {}, stop |-> 1, flow |-> "none", rate |-> 1]

Init == /\ driver \in Driver /\ termios = Default
        /\ dev = [fmt |-> Fmt(8, "none", "1"), break |-> FALSE, flow |-> "none",
                  lines |-> {}, rate |-> 1]
        /\ priv = [settings |-> Unset, rate |-> 0, lines |-> {}, cfg_lock |-> "free",
                   spd |-> IF driver = "ftdi_tira" THEN "cust" ELSE "norm"]
        /\ todo = [a \in Actor |-> <<>>] /\ buf = [a \in Actor |-> 0]
        /\ opened = FALSE /\ doubt = {} /\ raced = FALSE /\ overlap = FALSE
        /\ asked = [lines |-> [l \in Lines |-> {FALSE}], break |-> FALSE]
        /\ left \in Bounds[driver]

-----------------------------------------------------------------------------
(* What the drivers make of a termios.                                     *)

(* PARENB, PARODD, CMSPAR: the same for all three.                         *)
Parity(t) == IF "PARENB" \notin t.parity THEN "none"
             ELSE IF "CMSPAR" \in t.parity
             THEN IF "PARODD" \in t.parity THEN "mark" ELSE "space"
             ELSE IF "PARODD" \in t.parity THEN "odd" ELSE "even"

(* The data word of an FTDI chip: a size it does not have is left out.     *)
ftdi_data(t) == Fmt(IF t.size >= 7 THEN t.size ELSE 0, Parity(t), IF t.stop = 2 THEN "2" ELSE "1")

(* The line settings of a PL2303: 1.5 stop bits go with 5 data bits.       *)
pl2303_line(t) == Fmt(t.size, Parity(t), IF t.stop = 1 THEN "1" ELSE IF t.size = 5 THEN "1.5" ELSE "2")

(* LINE_CTL of a CP210x, when all of its three fields have been written.   *)
cp210x_bits(t) == Fmt(t.size, Parity(t), IF t.stop = 2 THEN "2" ELSE "1")

CFlag(t) == [t EXCEPT !.flow = IF @ = "rtscts" THEN @ ELSE "none"]

(* The rate an FTDI port runs at, with the custom divisor of 38400; B0     *)
(* counts as 9600.                                                         *)
Speed(rate, spd) == IF rate = 0 THEN 1 ELSE IF rate = Rate38400 /\ spd = "cust" THEN CustomRate
                    ELSE IF rate = Rate38400 /\ spd = "warp" THEN AltRate ELSE rate

(* A TIRA has its rate and its flow control forced.                        *)
Forced(t) == IF driver # "ftdi_tira" THEN t
             ELSE [t EXCEPT !.flow = "rtscts", !.rate = IF @ = 0 THEN 0 ELSE Rate38400]

-----------------------------------------------------------------------------
(* Calls, as sequences of steps.                                           *)

Step(what) == [do |-> what]
SetLines(s, c) == [do |-> "lines", set |-> s, clear |-> c]
Flow(f) == [do |-> "flow", flow |-> f]
Divisor == <<Step("divisor"), Step("encode"), Step("speed")>>

(* A mistake the properties must catch: the divisor before the lock.       *)
ChangeSpeed_Early == <<Step("divisor"), Step("encode"), Step("lock"), Step("speed"), Step("unlock")>>

ChangeSpeed == <<Step("lock")>> \o Divisor \o <<Step("unlock")>>

(* ftdi_set_termios: the format if it changed, then the rate, or for B0    *)
(* flow control and both lines off; both lines on when the rate was B0;    *)
(* flow control always.                                                    *)
ftdi_set_termios(old, t) ==
    IF CFlag(old) = CFlag(t) THEN <<Flow(t.flow)>>
    ELSE (IF <<old.size, old.parity, old.stop>> = <<t.size, t.parity, t.stop>> THEN <<>>
          ELSE <<[do |-> "data", fmt |-> ftdi_data(t)]>>)
         \o (IF t.rate = 0 THEN <<Flow("none"), SetLines({}, Lines)>>
             ELSE ChangeSpeed \o (IF old.rate = 0 THEN <<SetLines(Lines, {})>> ELSE <<>>))
         \o <<Flow(t.flow)>>

(* ftdi_open compares with a termios of zeros.                             *)
Zero == [size |-> 5, parity |-> {}, stop |-> 1, flow |-> "none", rate |-> 0]
ftdi_open == <<Step("reset"), [do |-> "termios", old |-> Zero, first |-> TRUE], Step("read_urbs")>>
ftdi_dtr_rts(on) == IF on THEN <<SetLines(Lines, {})>> ELSE <<Flow("none"), SetLines({}, Lines)>>
ftdi_tiocmset(s, c) == IF s \union c = {} THEN <<>> ELSE <<SetLines(s, c)>>

(* pl2303_set_termios: nothing if the hardware need not change; else the   *)
(* line settings are read, changed and sent if they differ from the last   *)
(* ones, the lines follow a rate that goes to or from B0.                  *)
pl2303_set_termios(old, t, first) ==
    IF ~first /\ CFlag(old) = CFlag(t) THEN <<>>
    ELSE <<Step("get_line"), [do |-> "set_line", first |-> first]>>
         \o <<[do |-> "b0", set |-> IF t.rate # 0 /\ ~first /\ old.rate = 0 THEN Lines ELSE {},
                            clear |-> IF t.rate = 0 THEN Lines ELSE {}]>>
         \o <<Flow(CFlag(t).flow)>>
pl2303_open == <<Step("vendor"), [do |-> "termios", old |-> Zero, first |-> TRUE],
                 Step("int_urb"), Step("read_urbs")>>
Control(s, c) == [do |-> "control", set |-> s, clear |-> c]
pl2303_dtr_rts(on) == <<IF on THEN Control(Lines, {}) ELSE Control({}, Lines)>>
pl2303_tiocmset(s, c) == <<Control(s, c)>>

(* cp210x_set_termios: each field that changed is read and written back    *)
(* by itself.                                                              *)
Field(f) == <<Step("get_bits"), [do |-> "put_bits", field |-> f]>>
cp210x_set_termios(old, t) ==
    (IF old.rate = t.rate THEN <<>> ELSE <<[do |-> "set_rate", else |-> old.rate]>>)
    \o (IF old.size = t.size THEN <<>> ELSE Field("size"))
    \o (IF old.parity = t.parity THEN <<>> ELSE Field("parity"))
    \o (IF old.stop = t.stop THEN <<>> ELSE Field("stop"))
    \o (IF CFlag(old).flow = CFlag(t).flow THEN <<>> ELSE <<Step("get_modem"), Flow(CFlag(t).flow)>>)

(* cp210x_open reads the settings of the device into the tty.              *)
cp210x_open == <<Step("enable"), Step("get_rate"), Step("get_ctl"), Step("get_flow"),
                 [do |-> "set_rate", else |-> 1], Step("read_urbs")>>
cp210x_dtr_rts(on) == IF on THEN <<SetLines(Lines, {})>> ELSE <<SetLines({}, Lines)>>
cp210x_tiocmset(s, c) == <<SetLines(s, c)>>

(* The driver behind the operations of the tty; of the three only a CP210x *)
(* is sent something by close, after its lines were dropped.               *)
SetTermios(old, t, first) == CASE Ftdi -> ftdi_set_termios(old, t)
                               [] driver = "pl2303" -> pl2303_set_termios(old, t, first)
                               [] driver = "cp210x" -> cp210x_set_termios(old, t)
DriverOpen == CASE Ftdi -> ftdi_open [] driver = "pl2303" -> pl2303_open
                [] driver = "cp210x" -> cp210x_open
DtrRts(on) == CASE Ftdi -> ftdi_dtr_rts(on) [] driver = "pl2303" -> pl2303_dtr_rts(on)
                [] driver = "cp210x" -> cp210x_dtr_rts(on)
DriverClose == IF driver = "cp210x" THEN <<Step("disable")>> ELSE <<>>
TiocmSet(s, c) == CASE Ftdi -> ftdi_tiocmset(s, c) [] driver = "pl2303" -> pl2303_tiocmset(s, c)
                    [] driver = "cp210x" -> cp210x_tiocmset(s, c)

(* TIOCMGET, when the device answers: what it tells of DTR and RTS.  Only  *)
(* a CP210x reports them itself; the others answer with the lines that     *)
(* the driver has saved.                                                   *)
ftdi_tiocmget == priv.lines
pl2303_tiocmget == priv.lines
cp210x_tiocmget == dev.lines
TiocmGet == CASE Ftdi -> ftdi_tiocmget [] driver = "pl2303" -> pl2303_tiocmget
              [] driver = "cp210x" -> cp210x_tiocmget

-----------------------------------------------------------------------------
(* The tty layer (external): at most one call of each actor at a time.     *)

(* Steps that still have to change line l, on the device or where it is    *)
(* remembered.                                                             *)
Names(step, l) == /\ step.do \in {"lines", "load", "save", "b0", "control", "send_control"}
                  /\ l \in step.set \union step.clear
Pending(a, l) == \E s \in Range(todo[a]) : Names(s, l)
Other(a) == CHOOSE b \in Actor : b # a

(* Lines s are asked up and lines c down by actor a: they are what is      *)
(* asked last, or what the other actor has asked and not done yet.         *)
AskLines(a, s, c) ==
    /\ asked' = [asked EXCEPT !.lines = [l \in Lines |->
           IF l \notin s \union c THEN @[l]
           ELSE {l \in s} \union (IF Pending(Other(a), l) THEN @[l] ELSE {})]]
    /\ overlap' = (overlap \/ (s \union c # {} /\ \E l \in Lines : Pending(Other(a), l)))

(* TIOCSSERIAL is under way.                                               *)
Serial(a) == \E s \in Range(todo[a]) : s.do \in {"info", "latency", "divisor", "encode", "speed", "unlock"}

At(a, what) == todo[a] # <<>> /\ Head(todo[a]).do = what
Call(a, steps) == todo[a] = <<>> /\ todo' = [todo EXCEPT ![a] = steps]

(* Opening: the driver's open; DTR and RTS are raised unless the rate is   *)
(* B0.  The lines are then those a program expects.                        *)
Open == /\ ~opened /\ todo["ioctl"] = <<>>
        /\ Call("tty", DriverOpen \o <<Step("raise"), Step("opened")>>)
        /\ LET up == IF termios.rate = 0 /\ driver # "cp210x" THEN {} ELSE Lines
           IN  AskLines("tty", up, Lines \ up)
        /\ raced' = FALSE
        /\ UNCHANGED <<driver, termios, dev, priv, buf, opened, doubt, left>>

(* Closing drops both lines, and all that is remembered of them.           *)
Close == /\ opened /\ todo["ioctl"] = <<>>
         /\ Call("tty", DtrRts(FALSE) \o DriverClose \o <<Step("closed")>>)
         /\ asked' = [asked EXCEPT !.lines = [l \in Lines |-> {FALSE}]] /\ overlap' = FALSE
         /\ UNCHANGED <<driver, termios, dev, priv, buf, opened, doubt, raced, left>>

(* TCSETS: the tty has the new settings when the driver is called.         *)
TtySetTermios(t) ==
    /\ opened /\ t # termios
    /\ Call("tty", <<[do |-> "termios", old |-> termios, first |-> FALSE]>>)
    /\ termios' = t
    /\ raced' = (raced \/ Serial("ioctl"))
    /\ UNCHANGED <<driver, dev, priv, buf, opened, doubt, overlap, asked, left>>

Break(on) ==
    /\ opened /\ Call("tty", <<[do |-> "break", on |-> on]>>)
    /\ asked' = [asked EXCEPT !.break = on]
    /\ UNCHANGED <<driver, termios, dev, priv, buf, opened, doubt, raced, overlap, left>>

(* No ioctl begins while the port is being closed: its file is closed.     *)
CanIoctl == opened /\ \A s \in Range(todo["tty"]) : s.do # "closed"

TtyTiocmSet(s, c) ==
    /\ CanIoctl /\ s \intersect c = {} /\ s \union c # {} /\ Call("ioctl", TiocmSet(s, c))
    /\ AskLines("ioctl", s, c)
    /\ UNCHANGED <<driver, termios, dev, priv, buf, opened, doubt, raced, left>>

(* TIOCSSERIAL, which only ftdi_sio.c has (set_serial_info).               *)
SetSerial(spd) ==
    /\ CanIoctl /\ Ftdi /\ spd # priv.spd
    /\ left.serials > 0 /\ left' = [left EXCEPT !.serials = @ - 1]
    /\ Call("ioctl", <<Step("lock"), [do |-> "info", spd |-> spd]>>)
    /\ raced' = (raced \/ At("tty", "termios"))
    /\ UNCHANGED <<driver, termios, dev, priv, buf, opened, doubt, overlap, asked>>

-----------------------------------------------------------------------------
(* Steps.                                                                  *)

Arg(a) == Head(todo[a])
Done(a) == todo' = [todo EXCEPT ![a] = Tail(@)]
Then(a, steps) == todo' = [todo EXCEPT ![a] = steps \o Tail(@)]

(* usb_control_msg: it is answered, or it fails, and a request that fails  *)
(* can still have reached the device.  When it is answered there is no     *)
(* doubt any more about the parts "mends" of the device; when it fails     *)
(* there is about "harms".                                                 *)
Message(ok, reached, mends, harms) ==
    /\ ok => reached
    /\ ok \/ left.fails > 0
    /\ left' = IF ok THEN left ELSE [left EXCEPT !.fails = @ - 1]
    /\ doubt' = IF ok THEN doubt \ mends ELSE doubt \union harms
    /\ UNCHANGED <<driver, opened, raced, asked, overlap>>
Local == UNCHANGED <<driver, opened, ghost>>

(* Most requests: the driver goes on whether or not they succeed.          *)
Reset(a, ok, hit) ==
    /\ At(a, "reset") /\ Message(ok, hit, {}, {}) /\ Done(a)
    /\ dev' = IF hit THEN [dev EXCEPT !.flow = "none", !.lines = {}] ELSE dev
    /\ UNCHANGED <<termios, priv, buf>>

SetFlow(a, ok, hit) ==
    /\ At(a, "flow") /\ Message(ok, hit, {"flow"}, {"flow"}) /\ Done(a)
    /\ dev' = IF hit THEN [dev EXCEPT !.flow = Arg(a).flow] ELSE dev
    /\ UNCHANGED <<termios, priv, buf>>

(* A mistake: last_set_data_urb_value is not set.                          *)
SetData_NotSaved(a, ok, hit) ==
    /\ At(a, "data") /\ Message(ok, hit, {"fmt", "break"}, {"fmt", "break"}) /\ Done(a)
    /\ dev' = IF hit THEN [dev EXCEPT !.fmt = Arg(a).fmt, !.break = FALSE] ELSE dev
    /\ UNCHANGED <<termios, priv, buf>>

(* SET_DATA, saved in last_set_data_urb_value first; it ends a break.      *)
SetData(a, ok, hit) ==
    /\ At(a, "data") /\ Message(ok, hit, {"fmt", "break"}, {"fmt", "break"}) /\ Done(a)
    /\ priv' = [priv EXCEPT !.settings = Arg(a).fmt]
    /\ dev' = IF hit THEN [dev EXCEPT !.fmt = Arg(a).fmt, !.break = FALSE] ELSE dev
    /\ UNCHANGED <<termios, buf>>

(* break_ctl: an FTDI chip takes the break as a bit of the data word.      *)
BreakCtl(a, ok, hit) ==
    /\ At(a, "break")
    /\ Message(ok, hit, IF Ftdi THEN {"fmt", "break"} ELSE {"break"}, {"break"}) /\ Done(a)
    /\ dev' = IF ~hit THEN dev
              ELSE IF Ftdi THEN [dev EXCEPT !.fmt = priv.settings, !.break = Arg(a).on]
              ELSE [dev EXCEPT !.break = Arg(a).on]
    /\ UNCHANGED <<termios, priv, buf>>

(* A mistake: the write mask is left out, the other line is cleared.       *)
UpdateMctrl_NoMask(a, ok, hit) ==
    /\ At(a, "lines") /\ Message(ok, hit, Arg(a).set \union Arg(a).clear, Arg(a).set \union Arg(a).clear)
    /\ dev' = IF hit THEN [dev EXCEPT !.lines = Arg(a).set] ELSE dev
    /\ IF Ftdi /\ ok THEN Then(a, <<[Arg(a) EXCEPT !.do = "load"]>>) ELSE Done(a)
    /\ UNCHANGED <<termios, priv, buf>>

(* update_mctrl and cp210x_tiocmset_port: only the lines named change; an  *)
(* FTDI driver saves them when the device has answered, under no lock.     *)
UpdateMctrl(a, ok, hit) ==
    /\ At(a, "lines") /\ Message(ok, hit, Arg(a).set \union Arg(a).clear, Arg(a).set \union Arg(a).clear)
    /\ dev' = IF hit THEN [dev EXCEPT !.lines = (@ \union Arg(a).set) \ Arg(a).clear] ELSE dev
    /\ IF Ftdi /\ ok THEN Then(a, <<[Arg(a) EXCEPT !.do = "load"]>>) ELSE Done(a)
    /\ UNCHANGED <<termios, priv, buf>>

LoadLines(a) ==
    /\ At(a, "load") /\ Local /\ Then(a, <<[Arg(a) EXCEPT !.do = "save"]>>)
    /\ buf' = [buf EXCEPT ![a] = priv.lines]
    /\ UNCHANGED <<termios, dev, priv>>

SaveLines(a) ==
    /\ At(a, "save") /\ Local /\ Done(a)
    /\ priv' = [priv EXCEPT !.lines = (buf[a] \union Arg(a).set) \ Arg(a).clear]
    /\ buf' = [buf EXCEPT ![a] = 0]
    /\ UNCHANGED <<termios, dev>>

(* change_speed and set_serial_info, under cfg_lock.  get_ftdi_divisor     *)
(* reads the rate of the tty and, when it has the divisor, sets it.        *)
CfgLock(a) ==
    /\ At(a, "lock") /\ Local /\ Done(a) /\ priv.cfg_lock = "free"
    /\ priv' = [priv EXCEPT !.cfg_lock = a] /\ UNCHANGED <<termios, dev, buf>>

CfgUnlock(a) ==
    /\ At(a, "unlock") /\ Local /\ Done(a)
    /\ priv' = [priv EXCEPT !.cfg_lock = "free"] /\ UNCHANGED <<termios, dev, buf>>

GetDivisor(a) ==
    /\ At(a, "divisor") /\ Local /\ Done(a)
    /\ buf' = [buf EXCEPT ![a] = Speed(termios.rate, priv.spd)]
    /\ UNCHANGED <<termios, dev, priv>>

EncodeRate(a) ==
    /\ At(a, "encode") /\ Local /\ Done(a)
    /\ termios' = [termios EXCEPT !.rate = buf[a]] /\ UNCHANGED <<dev, priv, buf>>

SetSpeed(a, ok, hit) ==
    /\ At(a, "speed") /\ Message(ok, hit, {"rate"}, {"rate"}) /\ Done(a)
    /\ dev' = IF hit THEN [dev EXCEPT !.rate = buf[a]] ELSE dev
    /\ buf' = [buf EXCEPT ![a] = 0]
    /\ UNCHANGED <<termios, priv>>

(* Refused (-EPERM, -EINVAL), or the flags are set, and the rate with them.*)
SetInfo(a) ==
    /\ At(a, "info") /\ Local
    /\ \/ Then(a, <<Step("unlock")>>) /\ UNCHANGED priv
       \/ \E privileged \in BOOLEAN :
             /\ priv' = [priv EXCEPT !.spd = Arg(a).spd]
             /\ Then(a, (IF privileged THEN <<Step("latency")>> ELSE <<>>)
                        \o Divisor \o <<Step("unlock")>>)
    /\ UNCHANGED <<termios, dev, buf>>

(* Requests whose result is not looked at and which change nothing that is *)
(* modelled: write_latency_timer, the reset of the data pipes of a PL2303, *)
(* GET_FLOW before SET_FLOW, and UART_DISABLE.                             *)
Unheeded(a, ok, hit) ==
    /\ \E what \in {"latency", "vendor", "get_modem", "disable"} : At(a, what)
    /\ Message(ok, hit, {}, {}) /\ Done(a)
    /\ UNCHANGED <<termios, dev, priv, buf>>

(* The driver's set_termios begins.  B0 drops the lines, leaving B0 raises *)
(* them (not on a CP210x).                                                 *)
Begin(a) ==
    /\ At(a, "termios")
    /\ termios' = Forced(termios)
    /\ Then(a, SetTermios(Arg(a).old, termios', Arg(a).first))
    /\ IF Arg(a).first \/ driver = "cp210x" \/ CFlag(termios') = CFlag(Arg(a).old)
       THEN UNCHANGED <<asked, overlap>>
       ELSE AskLines(a, IF termios.rate # 0 /\ Arg(a).old.rate = 0 THEN Lines ELSE {},
                        IF termios.rate = 0 THEN Lines ELSE {})
    /\ UNCHANGED <<driver, dev, priv, buf, opened, doubt, raced, left>>

(* pl2303_set_termios without memory for its request: the tty gets its old *)
(* settings back; open has none to give, and goes on.                      *)
NoMemory(a) ==
    /\ driver = "pl2303" /\ At(a, "termios") /\ Done(a)
    /\ Arg(a).first \/ CFlag(termios) # CFlag(Arg(a).old)
    /\ left.fails > 0 /\ left' = [left EXCEPT !.fails = @ - 1]
    /\ termios' = IF Arg(a).first THEN termios ELSE Arg(a).old
    /\ doubt' = IF Arg(a).first THEN doubt \union {"fmt", "flow", "rate"} ELSE doubt
    /\ UNCHANGED <<driver, dev, priv, buf, opened, raced, overlap, asked>>

(* pl2303: the settings of the device, zeros if they cannot be read, with  *)
(* the new ones put in; at B0 the rate stays.                              *)
GetLine(a, ok, hit) ==
    /\ At(a, "get_line") /\ Message(ok, hit, {}, {}) /\ Done(a)
    /\ buf' = [buf EXCEPT ![a] = IF termios.rate # 0 THEN termios.rate ELSE IF ok THEN dev.rate ELSE 0]
    /\ UNCHANGED <<termios, dev, priv>>

(* Settings equal to the last ones sent are not sent again, except by      *)
(* open.  An answer of 0 bytes, which has not reached the device, counts   *)
(* as success.                                                             *)
SetLine(a, ok, hit) ==
    /\ At(a, "set_line")
    /\ LET line == <<pl2303_line(termios), buf[a]>>
       IN  IF Arg(a).first \/ line # <<priv.settings, priv.rate>>
           THEN /\ Message(ok /\ hit, hit, {"fmt", "rate", "filter"},
                           {"fmt", "rate"} \union (IF ok # hit THEN {"filter"} ELSE {}))
                /\ dev' = IF hit THEN [dev EXCEPT !.fmt = line[1], !.rate = line[2]] ELSE dev
                /\ priv' = IF ok THEN [priv EXCEPT !.settings = line[1], !.rate = line[2]] ELSE priv
           ELSE ok /\ hit /\ Local /\ UNCHANGED <<dev, priv>>
    /\ Done(a) /\ buf' = [buf EXCEPT ![a] = 0] /\ UNCHANGED termios

(* The lines are saved under a lock and sent after it; set_termios sends   *)
(* them only if they changed.                                              *)
SetControl(a) ==
    /\ At(a, "control") \/ At(a, "b0")
    /\ Local
    /\ LET lines == (priv.lines \union Arg(a).set) \ Arg(a).clear
       IN  /\ priv' = [priv EXCEPT !.lines = lines]
           /\ IF Arg(a).do = "control" \/ lines # priv.lines
              THEN Then(a, <<[do |-> "send_control", lines |-> lines, set |-> Arg(a).set,
                              clear |-> Arg(a).clear]>>)
              ELSE Done(a)
    /\ UNCHANGED <<termios, dev, buf>>

SendControl(a, ok, hit) ==
    /\ At(a, "send_control") /\ Message(ok, hit, Lines, Lines) /\ Done(a)
    /\ dev' = IF hit THEN [dev EXCEPT !.lines = Arg(a).lines] ELSE dev
    /\ UNCHANGED <<termios, priv, buf>>

(* An open that cannot enable the device or submit its urbs (the last of   *)
(* them in usb_serial_generic_open) fails.                                 *)
OpenRequest(a, ok, hit) ==
    /\ \E what \in {"int_urb", "enable", "read_urbs"} : At(a, what)
    /\ Message(ok, hit, {}, {})
    /\ IF ok THEN Done(a) ELSE todo' = [todo EXCEPT ![a] = <<>>]
    /\ UNCHANGED <<termios, dev, priv, buf>>

(* cp210x_get_config that fails gives zeros, or, without memory, leaves    *)
(* the caller's variable uninitialised: its bits may mean nothing.         *)
Garbage == {Unset, Fmt(9, "unknown", "1.5")}

GetRate(a, ok, hit) ==
    /\ At(a, "get_rate") /\ Message(ok, hit, {}, {}) /\ Done(a)
    /\ \E rate \in (IF ok THEN {dev.rate} ELSE {0, Rate38400}) : termios' = [termios EXCEPT !.rate = rate]
    /\ UNCHANGED <<dev, priv, buf>>

(* cp210x_get_termios_port: what the tty cannot mean is corrected on the   *)
(* device, one request for each field.  PARENB and PARODD follow the       *)
(* device; CMSPAR is set but never cleared, and none leaves PARODD as it is.*)
Legal == [size |-> 5 .. 8, parity |-> {"none", "odd", "even", "mark", "space"}, stop |-> {"1", "2"}]
Fallback == Fmt(8, "none", "1")
Correction(bits, f) == IF bits[f] \in Legal[f] THEN <<>> ELSE <<[do |-> "correct", field |-> f]>>

GetCtl(a, ok, hit) ==
    /\ At(a, "get_ctl") /\ Message(ok, hit, {"fmt"}, {"fmt"})
    /\ \E bits \in (IF ok THEN {dev.fmt} ELSE Garbage) :
         LET p == bits.parity
             clear == IF p \in {"none", "unknown"} THEN {"PARENB"} ELSE {"PARODD"}
             set == CASE p = "odd" -> {"PARENB", "PARODD"} [] p = "even" -> {"PARENB"}
                      [] p = "space" -> {"PARENB", "CMSPAR"}
                      [] p = "mark" -> {"PARENB", "PARODD", "CMSPAR"} [] OTHER -> {}
         IN  /\ termios' = [termios EXCEPT
                    !.size = IF bits.size \in Legal.size THEN bits.size ELSE Fallback.size,
                    !.parity = (@ \ clear) \union set,
                    !.stop = IF bits.stop = "2" THEN 2 ELSE 1]
             /\ buf' = [buf EXCEPT ![a] = bits]
             /\ Then(a, Correction(bits, "size") \o Correction(bits, "parity") \o Correction(bits, "stop"))
    /\ UNCHANGED <<dev, priv>>

Correct(a, ok, hit) ==
    /\ At(a, "correct") /\ Message(ok, hit, {}, {"fmt"}) /\ Done(a)
    /\ buf' = [buf EXCEPT ![a] = [@ EXCEPT ![Arg(a).field] = Fallback[Arg(a).field]]]
    /\ dev' = IF hit THEN [dev EXCEPT !.fmt = buf'[a]] ELSE dev
    /\ UNCHANGED <<termios, priv>>

GetFlow(a, ok, hit) ==
    /\ At(a, "get_flow") /\ Message(ok, hit, {"flow"}, {"flow"}) /\ Done(a)
    /\ \E rtscts \in (IF ok THEN {dev.flow = "rtscts"} ELSE BOOLEAN) :
          termios' = [termios EXCEPT !.flow = IF rtscts THEN "rtscts" ELSE IF @ = "rtscts" THEN "none" ELSE @]
    /\ buf' = [buf EXCEPT ![a] = 0] /\ UNCHANGED <<dev, priv>>

(* cp210x_change_speed: B0 becomes the slowest rate, and the tty gets the  *)
(* old rate back when the new one is refused, so that they agree if it has *)
(* not reached the device; 0 bytes count as success.                       *)
SetRate(a, ok, hit) ==
    /\ At(a, "set_rate") /\ Done(a)
    /\ Message(ok /\ hit, hit, {"rate"}, IF ok # hit \/ ~opened THEN {"rate"} ELSE {})
    /\ LET baud == IF termios.rate = 0 THEN 1 ELSE termios.rate
       IN  /\ dev' = IF hit THEN [dev EXCEPT !.rate = baud] ELSE dev
           /\ termios' = [termios EXCEPT !.rate = IF ok THEN baud ELSE Arg(a).else]
    /\ UNCHANGED <<priv, buf>>

(* LINE_CTL is read and written with one new field, whatever was read.     *)
GetBits(a, ok, hit) ==
    /\ At(a, "get_bits") /\ Message(ok, hit, {}, {"fmt"}) /\ Done(a)
    /\ \E bits \in (IF ok THEN {dev.fmt} ELSE Garbage) : buf' = [buf EXCEPT ![a] = bits]
    /\ UNCHANGED <<termios, dev, priv>>

PutBits(a, ok, hit) ==
    /\ At(a, "put_bits") /\ Message(ok, hit, {}, {"fmt"}) /\ Done(a)
    /\ dev' = IF hit THEN [dev EXCEPT !.fmt = [buf[a] EXCEPT ![Arg(a).field] = cp210x_bits(termios)[Arg(a).field]]]
              ELSE dev
    /\ buf' = [buf EXCEPT ![a] = 0] /\ UNCHANGED <<termios, priv>>

(* The ends of open and close in the tty layer.                            *)
Raise(a) ==
    /\ At(a, "raise") /\ Local
    /\ Then(a, IF termios.rate = 0 THEN <<>> ELSE DtrRts(TRUE))
    /\ UNCHANGED <<termios, dev, priv, buf>>

Opened(a) ==
    /\ (At(a, "opened") \/ At(a, "closed")) /\ Done(a)
    /\ opened' = At(a, "opened")
    /\ UNCHANGED <<driver, termios, dev, priv, buf, ghost>>

-----------------------------------------------------------------------------
Request(a, ok, hit) ==
    \/ Reset(a, ok, hit) \/ SetFlow(a, ok, hit) \/ SetData(a, ok, hit) \/ BreakCtl(a, ok, hit)
    \/ UpdateMctrl(a, ok, hit) \/ SetSpeed(a, ok, hit) \/ GetLine(a, ok, hit)
    \/ SetLine(a, ok, hit) \/ SendControl(a, ok, hit) \/ OpenRequest(a, ok, hit)
    \/ GetRate(a, ok, hit) \/ GetCtl(a, ok, hit) \/ Correct(a, ok, hit) \/ GetFlow(a, ok, hit)
    \/ SetRate(a, ok, hit) \/ GetBits(a, ok, hit) \/ PutBits(a, ok, hit) \/ Unheeded(a, ok, hit)
LocalStep(a) == \/ LoadLines(a) \/ SaveLines(a) \/ CfgLock(a) \/ CfgUnlock(a) \/ GetDivisor(a)
                \/ EncodeRate(a) \/ SetInfo(a) \/ Begin(a) \/ NoMemory(a) \/ SetControl(a)
                \/ Raise(a) \/ Opened(a)

Next == \/ \E a \in Actor : LocalStep(a) \/ \E ok, hit \in BOOLEAN : Request(a, ok, hit)
        \/ Open \/ Close \/ \E t \in Termios[driver] : TtySetTermios(t)
        \/ \E on \in BOOLEAN : Break(on)
        \/ \E l \in Lines : TtyTiocmSet({l}, {}) \/ TtyTiocmSet({}, {l})
        \/ \E spd \in {"norm", "cust", "warp"} : SetSerial(spd)

Spec == Init /\ [][Next]_vars

-----------------------------------------------------------------------------
(* Types; cfg_lock is held only by a call that will release it.            *)
TypeOK == /\ dev.fmt.size \in 0 .. 9 /\ dev.lines \subseteq Lines /\ dev.rate \in 0 .. 4
          /\ priv.lines \subseteq Lines /\ priv.cfg_lock \in Actor \union {"free"}
          /\ doubt \subseteq Lines \union {"fmt", "flow", "break", "rate", "filter"}
          /\ termios.rate \in 0 .. 4 /\ opened \in BOOLEAN
          /\ \A a \in Actor : priv.cfg_lock = a =>
                                  \E s \in Range(todo[a]) : s.do \in {"info", "unlock"}

Quiet == opened /\ \A a \in Actor : todo[a] = <<>>

(* Between calls the device has the format, the flow control and the break *)
(* the tty stands for, each unless the last request for it has failed:     *)
(* whatever a driver skips as unchanged is as it should be.  An FTDI chip  *)
(* has no format of 5 bits; the parity of a CP210x is known up to CMSPAR.  *)
DeviceFollows ==
    Quiet =>
        /\ "fmt" \notin doubt =>
              /\ Ftdi /\ termios.size >= 7 => dev.fmt = ftdi_data(termios)
              /\ driver = "pl2303" => dev.fmt = pl2303_line(termios)
              /\ driver = "cp210x" => \E p \in {termios.parity, termios.parity \ {"CMSPAR"}} :
                                          dev.fmt = cp210x_bits([termios EXCEPT !.parity = p])
        /\ "flow" \notin doubt => dev.flow = IF Ftdi THEN termios.flow ELSE CFlag(termios).flow
        /\ "break" \notin doubt /\ ~asked.break => ~dev.break

(* Between calls each of DTR and RTS is, on the device and in what         *)
(* TIOCMGET tells, what the call that named it last has asked, or one that *)
(* overlapped that call, unless the last request for it has failed.  Two   *)
(* exceptions when calls have overlapped since the port was opened: an     *)
(* FTDI driver may have remembered a line wrongly (last_dtr_rts is changed *)
(* under no lock), and a PL2303 may have been sent its lines in the wrong  *)
(* order (they are sent after the lock is released).  And set_termios may  *)
(* miss B0 when TIOCSSERIAL overlaps it.                                   *)
LinesAsAsked ==
    Quiet /\ ~raced =>
        \A l \in Lines \ doubt :
            /\ driver # "pl2303" \/ ~overlap => (l \in dev.lines) \in asked.lines[l]
            /\ ~Ftdi \/ ~overlap => (l \in TiocmGet) \in asked.lines[l]

(* Between calls an FTDI device runs at the rate the tty has, with the     *)
(* custom divisor in force, and the others at that rate, unless the last   *)
(* request for it has failed: cfg_lock orders the changes of the rate by   *)
(* set_termios and TIOCSSERIAL.  It does not when the rate of a device is  *)
(* forced, which is done before the lock is taken.                         *)
RateCurrent ==
    Quiet /\ "rate" \notin doubt /\ termios.rate # 0 /\ (driver = "ftdi_tira" => ~raced) =>
        dev.rate = IF Ftdi THEN Speed(termios.rate, priv.spd) ELSE termios.rate

(* What pl2303_set_termios takes for the settings of the device is what    *)
(* the device has, also after requests that failed, unless the answer to   *)
(* one told otherwise than what it did: then settings the device has not   *)
(* can be skipped as unchanged.                                            *)
FilterSound ==
    driver = "pl2303" /\ Quiet /\ "filter" \notin doubt /\ priv.settings # Unset =>
        priv.settings = dev.fmt /\ priv.rate = dev.rate

(* The device and what the driver remembers of it, in one.                 *)
SettingsSound == TypeOK /\ DeviceFollows /\ FilterSound
=============================================================================
