------------------------------- MODULE PortData -------------------------------
(***************************************************************************)
(* The bytes of a port that DriverSetup has made ready, in ftdi_sio.c and  *)
(* pl2303.c: what the callbacks make of the packets of the device, which   *)
(* carry its status too, and how bytes are framed for the oldest chip.     *)
(*                                                                         *)
(* A byte is the set of its bits; for what is written, a number.  The      *)
(* flip buffer, the fifo and the urbs of the generic driver are external.  *)
(* The keys of the console (sysrq) and the latency timer are left out.     *)
(***************************************************************************)
EXTENDS DriverSetup

CONSTANTS Packet,      \* packets an FTDI device sends: two bytes of status, data
          Status,      \* line states a PL2303 reports: sets of bits
          WriteSize,   \* numbers of bytes programs write at a time
          BulkOutSize, \* size of a buffer for writing
          MaxOps       \* bound: urbs and writes

ASSUME DataAssumption == /\ Packet \subseteq Seq(SUBSET STRING) /\ Status \subseteq SUBSET STRING
                         /\ BulkOutSize \in Nat \ {0}
                         /\ WriteSize \subseteq Nat /\ MaxOps \in Nat

VARIABLES
    priv,         \* ftdi_private or pl2303_private; chip "none" before port_probe, or without
    tty, pushed,  \* the flip buffer, and how much of it the tty has
    icount,       \* port->icount
    write_fifo, out,
    sent,         \* what the device sent, or meant, as characters with flags
    lines, toggles, \* the modem lines the device reported last, and how often they changed
    written,      \* how many bytes programs have written: 1, 2, 3 ...
    reported,     \* the line state since the last bulk urb (PL2303)
    ops

data == <<priv, tty, pushed, icount, write_fifo, out, sent, lines, toggles, written, reported, ops>>
vars == <<setup, data>>

Modem == {"CTS", "DCD"}
Transient == {"BI", "PE", "FE", "OE"}
NoPriv == [chip |-> "none", max_packet_size |-> 0, status |-> {}, temt |-> FALSE, int_urb |-> FALSE]
NoCount == [c \in Modem \union {"brk", "parity", "frame", "overrun", "rx", "tx"} |-> 0]

DataReset == /\ priv' = NoPriv /\ tty' = <<>> /\ pushed' = 0 /\ icount' = NoCount
             /\ write_fifo' = <<>> /\ out' = <<>> /\ sent' = <<>> /\ lines' = {} /\ toggles' = [m \in Modem |-> 0]
             /\ written' = 0 /\ reported' = {}

Init == /\ SetupInit /\ priv = NoPriv /\ tty = <<>> /\ pushed = 0 /\ icount = NoCount
        /\ write_fifo = <<>> /\ out = <<>> /\ sent = <<>> /\ lines = {} /\ toggles = [m \in Modem |-> 0]
        /\ written = 0 /\ reported = {} /\ ops = 0

-----------------------------------------------------------------------------
(* port_probe.                                                             *)

(* ftdi_determine_type, from bcdDevice and the number of interfaces.       *)
ftdi_determine_type(d) ==
    IF d.interfaces > 1
    THEN CASE d.version = 2048 -> "FT4232H" [] d.version = 1792 -> "FT2232H" [] OTHER -> "FT2232C"
    ELSE CASE d.version < 512 -> "SIO" [] d.version \in 512 .. 1023 -> "FT8U232AM"
           [] d.version \in 1024 .. 1535 -> "FT232BM" [] d.version \in 1536 .. 2303 -> "FT232RL"
           [] d.version \in 2304 .. 4095 -> "FT232H" [] OTHER -> "FTX"

(* ftdi_set_max_packet_size: the size of the last endpoint; a size of 0    *)
(* in the descriptor counts as 64.                                         *)
ftdi_set_max_packet_size(d) ==
    IF d.eps[Len(d.eps)].maxp = 0 THEN FullSize ELSE d.eps[Len(d.eps)].maxp

(* An SIO is a full-speed device, whose packets have at most 64 bytes: the *)
(* length in a frame is six bits of a byte.                                *)
ASSUME SioAssumption ==
    /\ FullSize <= 64
    /\ \A d \in Device : Is(d, "ftdi_sio") /\ ftdi_determine_type(d) = "SIO" =>
          \A i \in DOMAIN d.eps : d.eps[i].maxp <= 64

(* The rest of port_probe, if it had the memory.                           *)
PortProbed ==
    /\ probe.at = "ready" /\ priv.chip = "none" /\ Res("priv", 1) \in got
    /\ priv' = IF Is(TheDevice, "pl2303") THEN [NoPriv EXCEPT !.chip = "pl2303", !.int_urb = TRUE]
               ELSE [NoPriv EXCEPT !.chip = ftdi_determine_type(TheDevice),
                                   !.max_packet_size = ftdi_set_max_packet_size(TheDevice)]
    /\ UNCHANGED <<setup, tty, pushed, icount, write_fifo, out, sent, lines, toggles, written, reported, ops>>

Working == probe.at = "ready" /\ priv.chip # "none" /\ ops < MaxOps
Ftdi == priv.chip # "pl2303"

-----------------------------------------------------------------------------
(* Receiving.                                                              *)

(* Break takes precedence over parity, which takes precedence over framing.*)
Flag(line) == CASE "BI" \in line -> "break" [] "PE" \in line -> "parity"
                [] "FE" \in line -> "frame" [] OTHER -> "normal"
CounterOf(flag) == CASE flag = "break" -> "brk" [] OTHER -> flag

Changed(old, new) == {m \in Modem : (m \in old) # (m \in new)}
Incremented(count, names) == [c \in DOMAIN count |-> count[c] + (IF c \in names THEN 1 ELSE 0)]
Characters(line, bytes) ==
    (IF "OE" \in line THEN <<[byte |-> {}, flag |-> "overrun"]>> ELSE <<>>)
    \o [i \in DOMAIN bytes |-> [byte |-> bytes[i], flag |-> Flag(line)]]

(* A mistake: the status is not remembered.                                *)
ftdi_process_packet_Forgets(st, p) ==
    IF Len(p) < 2 THEN st
    ELSE LET bytes == SubSeq(p, 3, Len(p))
             bad == (IF Flag(p[2]) = "normal" THEN {} ELSE {CounterOf(Flag(p[2]))})
                    \union (IF "OE" \in p[2] THEN {"overrun"} ELSE {})
             count == Incremented(st.icount, Changed(st.priv.status, p[1]) \union bad)
         IN  [priv |-> [st.priv EXCEPT !.temt = ("TEMT" \in p[2])],
              tty |-> st.tty \o Characters(p[2], bytes),
              icount |-> [count EXCEPT !.rx = @ + Len(bytes)],
              count |-> st.count + Len(bytes)]

(* ftdi_process_packet: the modem lines that changed are counted, then the *)
(* errors; an overrun is a character of its own; the rest is data.         *)
ftdi_process_packet(st, p) ==
    IF Len(p) < 2 THEN st
    ELSE LET bytes == SubSeq(p, 3, Len(p))
             bad == (IF Flag(p[2]) = "normal" THEN {} ELSE {CounterOf(Flag(p[2]))})
                    \union (IF "OE" \in p[2] THEN {"overrun"} ELSE {})
             count == Incremented(st.icount, Changed(st.priv.status, p[1]) \union bad)
         IN  [priv |-> [st.priv EXCEPT !.status = p[1] \intersect Modem, !.temt = ("TEMT" \in p[2])],
              tty |-> st.tty \o Characters(p[2], bytes),
              icount |-> [count EXCEPT !.rx = @ + Len(bytes)],
              count |-> st.count + Len(bytes)]

(* ftdi_process_read_urb: the urb in pieces of max_packet_size; a push if  *)
(* there was data.                                                         *)
Pieces(urb, n) == [k \in 1 .. (Len(urb) + n - 1) \div n |->
                      SubSeq(urb, (k - 1) * n + 1, Min({k * n, Len(urb)}))]

(* The device sends packets of its size, all but the last one full.        *)
DeviceSize == LET size == TheDevice.eps[Min(Found(TheDevice, "bulk_in"))].maxp
              IN  IF size = 0 THEN FullSize ELSE size
Full(p) == Len(p) = DeviceSize

(* The sizes an FTDI device gives for its endpoints are the same: the code *)
(* takes the last one for all.                                             *)
OneSize == \A d \in Device : Is(d, "ftdi_sio") =>
               /\ Found(d, "bulk_in") # {}
               /\ \A i, j \in DOMAIN d.eps : d.eps[i].maxp = d.eps[j].maxp

Meant(p) == IF Len(p) < 2 THEN <<>> ELSE Characters(p[2], SubSeq(p, 3, Len(p)))
Whole(p) == IF Len(p) < 2 THEN <<>> ELSE <<p>>

ftdi_process_read_urb(packets) ==
    /\ Working /\ Ftdi /\ ops' = ops + 1
    /\ LET st == FoldLeft(ftdi_process_packet,
                          [priv |-> priv, tty |-> tty, icount |-> icount, count |-> 0],
                          Pieces(FlattenSeq(packets), priv.max_packet_size))
       IN  /\ priv' = st.priv /\ tty' = st.tty /\ icount' = st.icount
           /\ pushed' = IF st.count > 0 THEN Len(st.tty) ELSE pushed
    /\ sent' = sent \o FlattenSeq([i \in DOMAIN packets |-> Meant(packets[i])])
    /\ LET whole == <<<<lines>>>> \o FlattenSeq([i \in DOMAIN packets |-> Whole(packets[i])])
       IN  /\ lines' = Last(whole)[1]
           /\ toggles' = [m \in Modem |-> toggles[m] + Cardinality(
                          {i \in 2 .. Len(whole) : m \in Changed(whole[i - 1][1], whole[i][1])})]
    /\ UNCHANGED <<setup, write_fifo, out, written, reported>>

(* pl2303_read_int_callback and pl2303_update_line_status: the state       *)
(* replaces the old one; the urb is submitted again, except at the end; a  *)
(* report that is too short is ignored.                                    *)
pl2303_read_int_callback(line, short, resubmit) ==
    /\ Working /\ ~Ftdi /\ priv.int_urb /\ ops' = ops + 1
    /\ priv' = [priv EXCEPT !.status = IF short THEN @ ELSE line, !.int_urb = resubmit]
    /\ icount' = IF short THEN icount ELSE Incremented(icount, Changed(priv.status, line))
    /\ lines' = IF short THEN lines ELSE line
    /\ toggles' = IF short THEN toggles ELSE Incremented(toggles, Changed(lines, line))
    /\ reported' = IF short THEN reported ELSE line
    /\ UNCHANGED <<setup, tty, pushed, write_fifo, out, sent, written>>

(* pl2303_process_read_urb takes the errors out of the state, and flags    *)
(* the whole urb with them.                                                *)
pl2303_process_read_urb(bytes) ==
    /\ Working /\ ~Ftdi /\ ops' = ops + 1
    /\ priv' = [priv EXCEPT !.status = @ \ Transient]
    /\ tty' = IF bytes = <<>> THEN tty ELSE tty \o Characters(priv.status, bytes)
    /\ pushed' = IF bytes = <<>> THEN pushed ELSE Len(tty')
    /\ sent' = IF bytes = <<>> THEN sent ELSE sent \o Characters(reported, bytes)
    /\ reported' = {}
    /\ UNCHANGED <<setup, icount, write_fifo, out, lines, toggles, written>>

-----------------------------------------------------------------------------
(* Sending: serial_write fills the fifo (external), and the buffer of a    *)
(* urb is filled from it.                                                  *)

Write(n) ==
    /\ Working /\ ops' = ops + 1 /\ written' = written + n
    /\ write_fifo' = write_fifo \o [i \in 1 .. n |-> written + i]
    /\ UNCHANGED <<setup, priv, tty, pushed, icount, out, sent, lines, toggles, reported>>

(* A mistake: a frame as long as a packet, without its first byte.         *)
Frame_TooLong(st, i) ==
    LET c == Min({Len(st.fifo), Min({BulkOutSize - i, priv.max_packet_size})})
    IN  [fifo |-> SubSeq(st.fifo, c + 1, Len(st.fifo)),
         buffer |-> IF c = 0 THEN st.buffer ELSE st.buffer \o <<(4 * c + 1) % 256>> \o SubSeq(st.fifo, 1, c),
         count |-> IF c = 0 THEN st.count ELSE st.count + c + 1]

(* A frame of the SIO at i: its first byte has the length, of six bits.    *)
Frame(st, i) ==
    LET c == Min({Len(st.fifo), Min({BulkOutSize - i, priv.max_packet_size}) - 1})
    IN  [fifo |-> SubSeq(st.fifo, c + 1, Len(st.fifo)),
         buffer |-> IF c = 0 THEN st.buffer ELSE st.buffer \o <<(4 * c + 1) % 256>> \o SubSeq(st.fifo, 1, c),
         count |-> IF c = 0 THEN st.count ELSE st.count + c + 1]

Starts == [k \in 1 .. (BulkOutSize - 2) \div priv.max_packet_size + 1 |-> (k - 1) * priv.max_packet_size]

ftdi_prepare_write_buffer ==
    /\ Working /\ write_fifo # <<>>
    /\ LET n == Min({Len(write_fifo), BulkOutSize})
           st == IF priv.chip = "SIO"
                 THEN FoldLeft(Frame, [fifo |-> write_fifo, buffer |-> <<>>, count |-> 0], Starts)
                 ELSE [fifo |-> SubSeq(write_fifo, n + 1, Len(write_fifo)),
                       buffer |-> SubSeq(write_fifo, 1, n), count |-> n]
       IN  /\ write_fifo' = st.fifo /\ out' = Append(out, SubSeq(st.buffer, 1, st.count))
           /\ icount' = [icount EXCEPT !.tx = @ + Len(write_fifo) - Len(st.fifo)]
    /\ UNCHANGED <<setup, priv, tty, pushed, sent, lines, toggles, written, reported, ops>>

-----------------------------------------------------------------------------
Sendable == {p \in Packet : Len(p) <= DeviceSize}
Batches == {<<p>> : p \in Sendable} \union {<<p, q>> : p \in {r \in Sendable : Full(r)}, q \in Sendable}

SetupStep == SetupNext /\ (IF probe.at = "free" THEN DataReset /\ UNCHANGED ops ELSE UNCHANGED data)

Next == \/ SetupStep
        \/ PortProbed
        \/ Working /\ Ftdi /\ \E ps \in Batches : ftdi_process_read_urb(ps)
        \/ \E line \in Status, short, again \in BOOLEAN : pl2303_read_int_callback(line, short, again)
        \/ \E bytes \in {<<>>, <<{}>>} : pl2303_process_read_urb(bytes)
        \/ \E n \in WriteSize : Write(n)
        \/ ftdi_prepare_write_buffer

Spec == Init /\ [][Next]_vars

-----------------------------------------------------------------------------
(* Types; the loop of ftdi_process_read_urb has a step that is not 0, and  *)
(* no index reaches the end of the arrays of MAX_NUM_PORTS.                *)
TypeOK == /\ priv.chip \notin {"none", "pl2303"} => priv.max_packet_size \in Nat \ {0}
          /\ pushed \in 0 .. Len(tty)
          /\ \A c \in DOMAIN icount : icount[c] \in Nat
          /\ \A r \in got : r.port \in 0 .. MaxNumPorts

(* The tty gets every byte the device sends, once, in order, with the      *)
(* error that its packet, or the last report before it, has, and with the  *)
(* overruns between; no byte of status is taken for data.  Data are pushed *)
(* when the callback returns.                                              *)
DataIntact == /\ tty = sent
              /\ \A i \in pushed + 1 .. Len(tty) : tty[i].flag = "overrun"

(* A change of CTS or DCD is counted once, however many packets repeat the *)
(* state and whatever errors come with it: TIOCMIWAIT waits for these      *)
(* counters.                                                               *)
ChangesCounted == \A m \in Modem : icount[m] = toggles[m]

(* What programs wrote is what the device is given, in order: for the SIO  *)
(* each packet of a transfer begins with the number of the bytes in it.    *)
Decoded(buffer) ==
    IF priv.chip # "SIO" THEN buffer
    ELSE FlattenSeq([k \in DOMAIN Pieces(buffer, priv.max_packet_size) |->
            LET p == Pieces(buffer, priv.max_packet_size)[k]
            IN  IF p[1] = 4 * (Len(p) - 1) + 1 THEN Tail(p) ELSE <<0>>])
WriteFramed ==
    FlattenSeq([i \in DOMAIN out |-> Decoded(out[i])]) \o write_fifo = [i \in 1 .. written |-> i]

(* What the packets of a device carry is told apart: data for the tty,     *)
(* changes for the counters.                                               *)
ReceivedRight == TypeOK /\ DataIntact /\ ChangesCounted
=============================================================================
