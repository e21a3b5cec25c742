----------------------------- MODULE LinuxRates -----------------------------
(***************************************************************************)
(* The rate of the line in the drivers of linux-3-18: what ftdi_sio.c,     *)
(* pl2303.c and cp210x.c send to their chips for the rate the tty asks     *)
(* for, and the rate they report back to it; and what usbftdi.KOS.asm      *)
(* sends.  wValue and wIndex are the two words of the request; for a       *)
(* PL2303 and a CP210x, which take the rate as four bytes of data, the low *)
(* and the high half of these bytes.                                       *)
(***************************************************************************)
EXTENDS BaudDivisor, FiniteSets

CONSTANTS LinuxRate,      \* rates the tty asks for; 0 is B0
          CustomDivisor,  \* custom_divisor of the port, 0 when it has none
          Interface       \* number of the port on a chip with several

ASSUME LinuxAssumption == /\ LinuxRate \subseteq 0 .. 20000000
                          /\ CustomDivisor \subseteq Nat
                          /\ Interface \in 1 .. 4

VARIABLE tty_rate         \* the rate last given to tty_encode_baud_rate

linuxVars == <<chip, dDteRate, wValue, wIndex, tty_rate>>

-----------------------------------------------------------------------------
(* ftdi_sio.c.  "NDI" is a chip of the FT232BM kind with one of the five   *)
(* product numbers for which 19200 means 1200000.                          *)

FT232Kind == {"FT232BM", "FT2232C", "NDI"}
HighSpeedKind == {"FT2232H", "FT232H"}
FtdiChip == FT232Kind \union HighSpeedKind \union {"SIO", "FT8U232AM"}
IndexedKind == {"FT2232C"} \union HighSpeedKind

(* baud_base of ftdi_determine_type: an FT232H keeps the default.          *)
baud_base == [t \in FtdiChip |-> CASE t = "SIO" -> 750000 [] t = "FT2232H" -> 60000000
                                   [] OTHER -> 24000000]

sio_rate == <<300, 600, 1200, 2400, 4800, 9600, 19200, 38400, 57600, 115200>>

(* A mistake: x and 7/8 is coded like x and 1/2.                           *)
Divisor232am_NotUp(baud, base) ==
    LET d == (base \div 2) \div baud
    IN  CASE d % 8 = 1 -> (d \div 8) + 49152
          [] d % 8 >= 4 -> (d \div 8) + 16384
          [] d % 8 \in 2 .. 3 -> (d \div 8) + 32768
          [] OTHER -> IF d = 8 THEN 0 ELSE d \div 8

ftdi_232am_baud_base_to_divisor(baud, base) ==
    LET d == (base \div 2) \div baud
        divisor3 == IF d % 8 = 7 THEN d + 1 ELSE d
        whole == divisor3 \div 8
    IN  CASE divisor3 % 8 = 1 -> whole + 49152
          [] divisor3 % 8 >= 4 -> whole + 16384
          [] divisor3 % 8 \in 2 .. 3 -> whole + 32768
          [] OTHER -> IF whole = 1 THEN 0 ELSE whole

ftdi_2232h_baud_base_to_divisor(baud, base) ==
    LET divisor3 == (base * 8) \div (baud * 10)
        divisor == (divisor3 \div 8) | (divfrac[divisor3 % 8] * 2^14)
    IN  (IF divisor = 1 THEN 0 ELSE IF divisor = 16385 THEN 1 ELSE divisor)
        + 2^17

(* Step 2 of get_ftdi_divisor and the default for B0.                      *)
Observed(type, baud, custom) ==
    LET rate == IF baud = 38400 /\ custom # 0 THEN baud_base[type] \div custom
                                              ELSE baud
    IN  IF rate = 0 THEN 9600 ELSE rate

(* What step 3 settles on: the rate and the code of its divisor.  A code   *)
(* of 0 counts as none on a SIO, so 300, whose code it is, is refused.     *)
Settled(rate, div) == [rate |-> rate, div |-> div]

get_ftdi_divisor(type, baud, custom) ==
    LET rate == Observed(type, baud, custom)
        am(r) == ftdi_232am_baud_base_to_divisor(r, 48000000)
        bm(r) == ftdi_232bm_baud_to_divisor(r)
    IN  CASE type = "SIO" ->
               IF \E i \in 2 .. 10 : sio_rate[i] = rate
               THEN Settled(rate, (CHOOSE i \in 2 .. 10 : sio_rate[i] = rate) - 1)
               ELSE Settled(9600, 5)
          [] type = "FT8U232AM" ->
               IF rate <= 3000000 THEN Settled(rate, am(rate))
                                  ELSE Settled(9600, am(9600))
          [] type \in FT232Kind ->
               IF rate > 3000000 THEN Settled(9600, bm(9600))
               ELSE LET real == IF type = "NDI" /\ rate = 19200
                                THEN 1200000 ELSE rate
                    IN  Settled(real, bm(real))
          [] type \in HighSpeedKind ->
               CASE rate \in 1200 .. 12000000 ->
                      Settled(rate,
                              ftdi_2232h_baud_base_to_divisor(rate, 120000000))
                 [] rate < 1200 -> Settled(rate, bm(rate))
                 [] OTHER -> Settled(9600, bm(9600))

(* The high word makes room for the number of the port, which is 0 on a    *)
(* chip with one.                                                          *)
PortNumber == IF chip = "FT232H" THEN 0 ELSE Interface
UrbIndex(high) ==
    IF chip \in IndexedKind THEN Word(high * 256) + PortNumber ELSE high

change_speed(baud, custom) ==
    LET settled == get_ftdi_divisor(chip, baud, custom)
    IN  /\ chip \in FtdiChip
        /\ dDteRate' = baud
        /\ wValue' = Word(settled.div)
        /\ wIndex' = UrbIndex(Word(settled.div \div 65536))
        /\ tty_rate' = settled.rate
        /\ UNCHANGED chip

-----------------------------------------------------------------------------
(* pl2303.c.  The two types of the chip have a highest rate each.          *)

Pl2303Chip == {"TYPE_01", "TYPE_HX"}
max_baud_rate == [TYPE_01 |-> 1228800, TYPE_HX |-> 12000000]

baud_sup == {75, 150, 300, 600, 1200, 1800, 2400, 3600, 4800, 7200, 9600,
             14400, 19200, 28800, 38400, 57600, 115200, 230400, 460800,
             614400, 921600, 1228800, 2457600, 3000000, 6000000}

(* The nearest rate of the table; halfway it is the higher one.            *)
pl2303_get_supported_baud_rate(baud) ==
    LET Dist(r) == IF r > baud THEN r - baud ELSE baud - r
    IN  CHOOSE r \in baud_sup : \A q \in baud_sup :
           Dist(r) < Dist(q) \/ (Dist(r) = Dist(q) /\ r >= q)

(* The loop: tmp loses two bits a turn while buf[1], a byte, doubles.      *)
Turns(tmp) == Cardinality({k \in 0 .. 11 : tmp >= 256 * 4^k})
Doubled(n) == IF n = 0 THEN 0 ELSE 2^n % 256

pl2303_encode_baud_rate_divisor(baud) ==
    LET tmp == 384000000 \div baud
        n == Turns(tmp)
    IN  [wValue |-> tmp \div 4^n + 256 * Doubled(n),
         wIndex |-> 32768]

pl2303_encode_baud_rate_direct(baud) ==
    [wValue |-> Word(baud), wIndex |-> baud \div 65536]

(* B0 leaves the four bytes as the chip gave them.                         *)
pl2303_encode_baud_rate(baud) ==
    LET rate == IF baud > max_baud_rate[chip] THEN max_baud_rate[chip] ELSE baud
        buf == IF pl2303_get_supported_baud_rate(rate) = rate
               THEN pl2303_encode_baud_rate_direct(rate)
               ELSE pl2303_encode_baud_rate_divisor(rate)
    IN  /\ chip \in Pl2303Chip
        /\ dDteRate' = baud
        /\ IF baud = 0 THEN UNCHANGED <<wValue, wIndex, tty_rate>>
           ELSE wValue' = buf.wValue /\ wIndex' = buf.wIndex /\ tty_rate' = rate
        /\ UNCHANGED chip

-----------------------------------------------------------------------------
(* cp210x.c.  Each rate of the table serves the requests up to its limit.  *)

quantised == <<
    <<300, 300>>, <<600, 600>>, <<1200, 1200>>, <<1800, 1800>>,
    <<2400, 2400>>, <<4000, 4000>>, <<4803, 4800>>, <<7207, 7200>>,
    <<9612, 9600>>, <<14428, 14400>>, <<16062, 16000>>, <<19250, 19200>>,
    <<28912, 28800>>, <<38601, 38400>>, <<51558, 51200>>, <<56280, 56000>>,
    <<58053, 57600>>, <<64111, 64000>>, <<77608, 76800>>, <<117028, 115200>>,
    <<129347, 128000>>, <<156868, 153600>>, <<237832, 230400>>,
    <<254234, 250000>>, <<273066, 256000>>, <<491520, 460800>>,
    <<567138, 500000>>, <<670254, 576000>>, <<999999, 921600>>>>

(* A mistake: the limit itself goes to the next row.                       *)
cp210x_quantise_Strict(baud) ==
    LET rows == {i \in DOMAIN quantised : baud < quantised[i][1]}
    IN  IF rows # {} THEN quantised[CHOOSE i \in rows : \A j \in rows : i <= j][2]
        ELSE IF baud > 2000000 THEN 2000000 ELSE baud

cp210x_quantise_baudrate(baud) ==
    LET rows == {i \in DOMAIN quantised : baud <= quantised[i][1]}
    IN  IF rows # {} THEN quantised[CHOOSE i \in rows : \A j \in rows : i <= j][2]
        ELSE IF baud > 2000000 THEN 2000000 ELSE baud

(* When the request fails the tty gets its old rate back.                  *)
cp210x_change_speed(baud) ==
    LET rate == cp210x_quantise_baudrate(baud)
    IN  /\ chip = "CP210x"
        /\ \/ /\ dDteRate' = baud /\ tty_rate' = rate
              /\ wValue' = Word(rate) /\ wIndex' = rate \div 65536
           \/ UNCHANGED <<dDteRate, wValue, wIndex, tty_rate>>
        /\ UNCHANGED chip

-----------------------------------------------------------------------------
(* usbftdi.KOS.asm.  AddDevice gives every chip TYPE_R, so that only the   *)
(* 48 MHz branch of .ftdi_set_baudrate runs.  Its jnz tests what shr left, *)
(* which is never zero here: the divisor is always rounded down.           *)

best_divisor(baud) ==
    LET d == 24000000 \div baud IN IF d > 131072 THEN 131071 ELSE d

encoded_divisor(baud) ==
    CASE baud >= 3000000 -> 0
      [] baud \in 2000000 .. 2999999 -> 1
      [] baud \in 1500000 .. 1999999 -> 2
      [] OTHER -> LET d == best_divisor(baud)
                  IN  (d \div 8) | (divfrac[d % 8] * 2^14)

ftdi_set_baudrate(baud) ==
    /\ chip = "KolibriOS"
    /\ dDteRate' = baud
    /\ wValue' = Word(encoded_divisor(baud))
    /\ wIndex' = encoded_divisor(baud) \div 65536
    /\ UNCHANGED <<chip, tty_rate>>

(* ftdi_my.c: a calculator with the functions of ftdi_sio.c, the custom    *)
(* divisor left out, that prints the words for an FT232RL.                 *)
my_get_ftdi_divisor(baud) == get_ftdi_divisor("FT232BM", baud, 0).div

ftdi_my_main(baud) ==
    /\ chip = "ftdi_my"
    /\ dDteRate' = baud
    /\ wValue' = Word(my_get_ftdi_divisor(baud))
    /\ wIndex' = my_get_ftdi_divisor(baud) \div 65536
    /\ UNCHANGED <<chip, tty_rate>>

-----------------------------------------------------------------------------
LinuxInit == /\ chip \in FtdiChip \union Pl2303Chip \union {"CP210x", "KolibriOS", "ftdi_my"}
             /\ dDteRate = 0 /\ wValue = 0 /\ wIndex = 0

(* The custom divisor is read at 38400 only.                               *)
LinuxNext == \E baud \in LinuxRate :
                \/ \E custom \in IF baud = 38400 THEN CustomDivisor ELSE {0} :
                      change_speed(baud, custom)
                \/ pl2303_encode_baud_rate(baud)
                \/ cp210x_change_speed(baud)
                \/ baud # 0 /\ (ftdi_set_baudrate(baud) \/ ftdi_my_main(baud))

(* The drivers of both systems.                                            *)
AllInit == (Init \/ LinuxInit) /\ tty_rate = 0
AllNext == (Next /\ UNCHANGED tty_rate) \/ LinuxNext
AllSpec == AllInit /\ [][AllNext]_linuxVars

-----------------------------------------------------------------------------
(* Properties.                                                             *)

(* The code of the divisor as the chip puts the two words together.        *)
CodeHigh == IF chip \in IndexedKind THEN wIndex \div 256 ELSE wIndex
LinuxCode == wValue + 65536 * (CodeHigh % 2)
LinuxDivisor == IF LinuxCode = 0 THEN 8 ELSE IF LinuxCode = 1 THEN 12
                ELSE 8 * (LinuxCode % 2^14) + Eighths[LinuxCode \div 2^14 + 1]

(* An FT8U232AM knows the fractions 0, 1/2, 1/4 and 1/8 only.              *)
AmDivisor == IF wValue = 0 THEN 8
             ELSE 8 * (wValue % 2^14) + <<0, 4, 2, 1>>[wValue \div 2^14 + 1]

(* Bit 17 of the code: the clock of 120 MHz and ten samples a bit.         *)
HighSpeed == chip \in HighSpeedKind /\ (CodeHigh \div 2) % 2 = 1

Floor(divisor, clock, rate) ==
    divisor * rate <= clock /\ clock < (divisor + 1) * rate

Told(slow, fast, more) == tty_rate \in slow .. fast \/ tty_rate \in more

(* The two words of ftdi_sio.c's request, put together the way the chip    *)
(* does, give the largest divisor not slower than the rate that the tty    *)
(* was TOLD, whether that is the rate it asked for, a custom divisor's, or *)
(* the 9600 of a refusal; the request names the port it is for.            *)
LinuxRoundTrip == chip \in FtdiChip /\ tty_rate # 0 =>
    /\ chip \in IndexedKind => wIndex % 256 = PortNumber
    /\ chip = "SIO" => sio_rate[wValue + 1] = tty_rate
    /\ chip = "FT8U232AM" /\ Told(184, 1500000, {3000000}) =>
          (AmDivisor - 1) * tty_rate <= 24000000
          /\ 24000000 < (AmDivisor + 3) * tty_rate
    /\ HighSpeed /\ Told(1200, 6000000, {8000000, 12000000}) =>
          Floor(LinuxDivisor, 96000000, tty_rate)
    /\ chip \notin {"SIO", "FT8U232AM"} /\ ~HighSpeed
       /\ Told(184, 1500000, {2000000, 3000000}) =>
          Floor(LinuxDivisor, 24000000, tty_rate)

(* The KolibriOS driver of another author and ftdi.c, which come to the    *)
(* divisor by different ways, send the same words for every rate the chip  *)
(* has; for a slower one the driver sends the longest divisor there is,    *)
(* and for one in between the divisor 1, 1.5 or 2 of the next rate below.  *)
(* The calculator ftdi_my.c shows what ftdi.c sends up to 3000000, and the *)
(* words of 9600 above.                                                    *)
KosAgrees ==
  LET code == wValue + 65536 * wIndex
  IN  /\ chip = "ftdi_my" /\ dDteRate # 0 =>
             code = ftdi_232bm_baud_to_divisor(IF dDteRate > 3000000 THEN 9600 ELSE dDteRate)
      /\ chip = "KolibriOS" /\ dDteRate # 0 =>
          CASE dDteRate < 184 -> code = 2^17 - 1
          [] dDteRate \in 184 .. 1500000 \/ dDteRate \in {2000000, 3000000} ->
               code = ftdi_232bm_baud_to_divisor(dDteRate)
          [] OTHER -> code \in 0 .. 2 /\ <<8, 12, 16>>[code + 1] * dDteRate > 24000000

(* A PL2303 gets a rate of its own table as that number and any other rate *)
(* as divisor and exponent of the formula in pl2303.c.  Below 93751 the    *)
(* doubled buf[1] no longer is the exponent, and nothing is claimed.       *)
Pl2303Encodes == chip \in Pl2303Chip /\ tty_rate # 0 =>
    /\ tty_rate <= max_baud_rate[chip]
    /\ IF tty_rate \in baud_sup THEN wValue + 65536 * wIndex = tty_rate
       ELSE /\ wIndex = 32768
            /\ tty_rate > 93750 =>
                 Floor(wValue % 256, 384000000 \div 2^(wValue \div 256), tty_rate)

(* The rate a driver would report for this one, without a custom divisor.  *)
Reported(rate) == CASE chip \in FtdiChip -> get_ftdi_divisor(chip, rate, 0).rate
                    [] chip \in Pl2303Chip -> IF rate > max_baud_rate[chip]
                                              THEN max_baud_rate[chip] ELSE rate
                    [] chip = "CP210x" -> cp210x_quantise_baudrate(rate)

(* A program that saves the settings it was told and restores them later   *)
(* gets them: the reported rate, asked for again, is reported again, and a *)
(* CP210x is at that rate.                                                 *)
RateAccepted == chip \notin {"CH34x", "FTDI", "KolibriOS", "ftdi_my"} /\ tty_rate # 0 =>
    /\ Reported(tty_rate) = tty_rate
    /\ chip = "CP210x" => wValue + 65536 * wIndex = tty_rate

(* What ftdi_sio.c and pl2303.c send is the rate they report.              *)
LinuxEncodes == LinuxRoundTrip /\ Pl2303Encodes

(* The FTDI encoders of KolibriOS are right and agree with one another.    *)
KosEncodes == FtdiRoundTrip /\ KosAgrees
=============================================================================
